--------------------------- MODULE CommentsProofs ---------------------------
(***************************************************************************)
(* The safety properties of Comments, for any number of comments, of       *)
(* voters and of requests at once, and any limit of the prompt.            *)
(***************************************************************************)
EXTENDS Comments, FiniteSetTheorems, TLAPS

-----------------------------------------------------------------------------
(* Ranks: what sorting and "the newest ones" rest on *)

\* `before' is a strict total order of the elements of S.
Orders(before, S) ==
    /\ \A a \in S : <<a, a>> \notin before
    /\ \A a, b \in S : a # b => <<a, b>> \in before \/ <<b, a>> \in before
    /\ \A a, b, c \in S :
         <<a, b>> \in before /\ <<b, c>> \in before => <<a, c>> \in before

Preceding(before, S, a) == {b \in S : <<b, a>> \in before}

\* The rank of an element counts those before it and itself.
Rank(before, S) ==
    [a \in S |-> Cardinality(Preceding(before, S, a)) + 1]

\* Of two elements the one that is before the other has the smaller rank.
LEMMA RankIsMonotone ==
    ASSUME NEW S, IsFiniteSet(S), NEW before, Orders(before, S),
           NEW a \in S, NEW b \in S, <<a, b>> \in before
    PROVE  Rank(before, S)[a] < Rank(before, S)[b]
  <1> DEFINE A == Preceding(before, S, a)
             B == Preceding(before, S, b)
  <1>1. A \in SUBSET S /\ B \in SUBSET S
    BY DEF Preceding
  <1>2. IsFiniteSet(B)
    BY <1>1, FS_Subset
  <1>3. A \in SUBSET B
    BY DEF Preceding, Orders
  <1>4. a \in B /\ a \notin A
    BY DEF Preceding, Orders
  <1>5. Cardinality(A) <= Cardinality(B) /\ Cardinality(B) # Cardinality(A)
    BY <1>2, <1>3, <1>4, FS_Subset
  <1>6. Cardinality(A) \in Nat /\ Cardinality(B) \in Nat
    BY <1>1, FS_Subset, FS_CardinalityType
  <1>7. Cardinality(A) + 1 < Cardinality(B) + 1
    BY <1>5, <1>6
  <1> QED
    BY <1>7 DEF Rank

\* The ranks of n elements are 1 .. n.
LEMMA RankIsBijection ==
    ASSUME NEW S, IsFiniteSet(S), NEW before, Orders(before, S)
    PROVE  /\ Rank(before, S) \in [S -> 1 .. Cardinality(S)]
           /\ \A i \in 1 .. Cardinality(S) :
                \E a \in S : Rank(before, S)[a] = i
  <1> DEFINE n == Cardinality(S)
             rank == Rank(before, S)
  <1>1. n \in Nat
    BY FS_CardinalityType
  <1>2. ASSUME NEW a \in S
        PROVE  Cardinality(Preceding(before, S, a)) + 1 \in 1 .. n
    <2> DEFINE A == Preceding(before, S, a)
    <2>1. A \in SUBSET S /\ a \notin A
      BY DEF Preceding, Orders
    <2>2. Cardinality(A) <= n /\ n # Cardinality(A)
      BY <2>1, FS_Subset
    <2>3. Cardinality(A) \in Nat
      BY <2>1, FS_Subset, FS_CardinalityType
    <2> QED
      BY <1>1, <2>2, <2>3
  <1>3. rank \in [S -> 1 .. n]
    BY <1>2 DEF Rank
  <1>4. ASSUME NEW a \in S, NEW b \in S, a # b
        PROVE  rank[a] # rank[b]
    <2> HIDE DEF rank
    <2>1. rank[a] \in 1 .. n /\ rank[b] \in 1 .. n
      BY <1>3
    <2>2. rank[a] < rank[b] \/ rank[b] < rank[a]
      BY <1>4, RankIsMonotone DEF Orders, rank
    <2> QED
      BY <2>1, <2>2
  <1>5. rank \in Injection(S, 1 .. n)
    BY <1>3, <1>4 DEF Injection, IsInjective
  <1>6. IsFiniteSet(1 .. n) /\ Cardinality(1 .. n) = n
    BY <1>1, FS_Interval
  <1>7. rank \in Surjection(S, 1 .. n)
    BY <1>5, <1>6, FS_Injection
  <1> QED
    BY <1>3, <1>7 DEF Surjection

\* A finite set can be put in order.
LEMMA SortedExists ==
    ASSUME NEW S, IsFiniteSet(S), NEW before, Orders(before, S)
    PROVE  \E s \in [1 .. Cardinality(S) -> S] :
             \A i, j \in 1 .. Cardinality(S) :
               i < j => <<s[i], s[j]>> \in before
  <1> DEFINE n == Cardinality(S)
             rank == Rank(before, S)
             s == [i \in 1 .. n |-> CHOOSE a \in S : rank[a] = i]
  <1>1. rank \in [S -> 1 .. n] /\ \A i \in 1 .. n : \E a \in S : rank[a] = i
    BY RankIsBijection
  <1>2. \A i \in 1 .. n : s[i] \in S /\ rank[s[i]] = i
    <2> HIDE DEF rank
    <2> QED
      BY <1>1
  <1>3. s \in [1 .. n -> S]
    BY <1>2
  <1>4. ASSUME NEW i \in 1 .. n, NEW j \in 1 .. n, i < j
        PROVE  <<s[i], s[j]>> \in before
    <2>1. s[i] # s[j]
      BY <1>2, <1>4
    <2>2. CASE <<s[j], s[i]>> \in before
      <3>1. rank[s[j]] < rank[s[i]]
        BY <1>2, <2>2, RankIsMonotone
      <3>2. j < i
        BY <1>2, <3>1
      <3> QED
        BY <1>4, <3>2
    <2> QED
      BY <1>2, <2>1, <2>2 DEF Orders
  <1> QED
    BY <1>3, <1>4

-----------------------------------------------------------------------------
(* Sets of comments *)

\* Any set of comments is finite, and a larger one has no fewer elements.
LEMMA CommentSets ==
    ASSUME NEW S \in SUBSET Comment
    PROVE  /\ IsFiniteSet(S)
           /\ Cardinality(S) \in 0 .. MaxComments
           /\ \A T \in SUBSET S :
                Cardinality(T) \in Nat /\ Cardinality(T) <= Cardinality(S)
  <1>1. IsFiniteSet(Comment) /\ Cardinality(Comment) = MaxComments
    BY CommentsAssumption, FS_Interval DEF Comment
  <1>2. IsFiniteSet(S) /\ Cardinality(S) <= MaxComments
    BY <1>1, FS_Subset
  <1>3. Cardinality(S) \in Nat
    BY <1>2, FS_CardinalityType
  <1>4. \A T \in SUBSET S :
          IsFiniteSet(T) /\ Cardinality(T) <= Cardinality(S)
    BY <1>2, FS_Subset
  <1>5. \A T \in SUBSET S : Cardinality(T) \in Nat
    BY <1>4, FS_CardinalityType
  <1> QED
    BY <1>2, <1>3, <1>4, <1>5, CommentsAssumption

\* Some comment of a set of them is the newest.
LEMMA NewestExists ==
    ASSUME NEW S \in SUBSET Comment, S # {}
    PROVE  \E m \in S : \A d \in S : m >= d
  <1> DEFINE newer == {p \in S \X S : p[1] > p[2]}
  <1>1. Orders(newer, S)
    BY DEF Orders, Comment
  <1>2. IsFiniteSet(S) /\ Cardinality(S) \in Nat
    BY CommentSets
  <1>3. Cardinality(S) # 0
    BY <1>2, FS_EmptySet
  <1>4. 1 \in 1 .. Cardinality(S)
    BY <1>2, <1>3
  <1>5. PICK m \in S : Rank(newer, S)[m] = 1
    <2> HIDE DEF newer
    <2>1. \A i \in 1 .. Cardinality(S) : \E a \in S : Rank(newer, S)[a] = i
      BY <1>1, <1>2, RankIsBijection
    <2> QED
      BY <1>4, <2>1
  <1>6. Preceding(newer, S, m) = {}
    <2>1. Preceding(newer, S, m) \in SUBSET S
      BY DEF Preceding
    <2>2. IsFiniteSet(Preceding(newer, S, m))
      BY <1>2, <2>1, FS_Subset
    <2>3. Cardinality(Preceding(newer, S, m)) \in Nat
      BY <2>2, FS_CardinalityType
    <2>4. Cardinality(Preceding(newer, S, m)) + 1 = 1
      BY <1>5 DEF Rank
    <2>5. Cardinality(Preceding(newer, S, m)) = 0
      BY <2>3, <2>4
    <2> QED
      BY <2>2, <2>5, FS_EmptySet
  <1>7. ASSUME NEW d \in S
        PROVE  m >= d
    <2>1. ~ (d > m)
      BY <1>6 DEF Preceding
    <2> QED
      BY <2>1 DEF Comment
  <1> QED
    BY <1>7

\* What the prompt leaves out of the comments listed has given way to the
\* newer ones that the prompt holds.
LEMMA PromptPushesOut ==
    ASSUME NEW listed \in SUBSET Comment,
           NEW c \in listed \ Prompt(listed)
    PROVE  PushedOut(c, Prompt(listed))
  <1> DEFINE out == listed \ Prompt(listed)
             newer(m) == {d \in listed : d > m}
             held == {d \in Prompt(listed) : d > c}
  <1>1. PICK m \in out : \A d \in out : m >= d
    BY NewestExists
  <1>2. \A d \in newer(m) : d \in Prompt(listed)
    BY <1>1 DEF Comment
  <1>3. newer(m) \in SUBSET held
    <2>1. m \in Int /\ c \in Int /\ m >= c
      BY <1>1 DEF Comment
    <2>2. ASSUME NEW d \in newer(m)
          PROVE  d \in Prompt(listed) /\ d > c
      <3>1. d \in Int /\ d > m
        BY DEF Comment
      <3> QED
        BY <1>2, <2>1, <2>2, <3>1
    <2> QED
      BY <2>2
  <1>4. ~ (Cardinality(newer(m)) < MaxPrompt)
    BY DEF Prompt
  <1>5. held \in SUBSET Comment
    BY DEF Prompt
  <1>6. /\ Cardinality(held) \in Nat /\ Cardinality(newer(m)) \in Nat
        /\ Cardinality(newer(m)) <= Cardinality(held)
    <2> HIDE DEF held, newer
    <2> QED
      BY <1>3, <1>5, CommentSets
  <1>7. Cardinality(held) >= MaxPrompt
    BY <1>4, <1>6, CommentsAssumption
  <1> QED
    BY <1>7 DEF PushedOut

-----------------------------------------------------------------------------
(* The order of the list *)

OneEach(entries) ==
    \A e, f \in entries : e.comment = f.comment => e = f

InOrder(shown) ==
    \A i, j \in DOMAIN shown : i < j => RanksBefore(shown[i], shown[j])

LEMMA ScoreIsInt ==
    ASSUME NEW e \in Ranked
    PROVE  /\ Score(e) \in Int /\ e.comment \in Int
           /\ Score(e) =
                70 * (e.up - e.down) + (IF e.verified THEN 30 ELSE 0)
  <1>1. e.up \in Nat /\ e.down \in Nat /\ e.comment \in Int
    BY DEF Ranked, Comment
  <1>2. (IF e.verified THEN 30 ELSE 0) \in Int
    OBVIOUS
  <1>3. 70 * (e.up - e.down) + (IF e.verified THEN 30 ELSE 0) \in Int
    BY <1>1, <1>2
  <1> QED
    BY <1>1, <1>3 DEF Score

\* Entries with a comment each are finitely many, and none rank alike.
LEMMA EntriesAreOrdered ==
    ASSUME NEW entries \in SUBSET Ranked, OneEach(entries)
    PROVE  /\ IsFiniteSet(entries)
           /\ Orders({p \in entries \X entries : RanksBefore(p[1], p[2])},
                     entries)
  <1> DEFINE before == {p \in entries \X entries : RanksBefore(p[1], p[2])}
             of == [e \in entries |-> e.comment]
  <1>1. of \in Injection(entries, Comment)
    BY DEF Injection, IsInjective, OneEach, Ranked
  <1>2. IsFiniteSet(Comment)
    BY CommentSets
  <1>3. IsFiniteSet(entries)
    BY <1>1, <1>2, FS_Injection
  <1>4. \A e \in entries : Score(e) \in Int /\ e.comment \in Int
    BY ScoreIsInt
  <1>5. \A e, f \in entries :
          <<e, f>> \in before <=> RanksBefore(e, f)
    OBVIOUS
  <1> HIDE DEF before
  <1>6. \A e \in entries : <<e, e>> \notin before
    BY <1>4, <1>5 DEF RanksBefore
  <1>7. ASSUME NEW e \in entries, NEW f \in entries, e # f
        PROVE  <<e, f>> \in before \/ <<f, e>> \in before
    <2>1. e.comment # f.comment
      BY <1>7 DEF OneEach
    <2> QED
      BY <1>4, <1>5, <2>1 DEF RanksBefore
  <1>8. ASSUME NEW e \in entries, NEW f \in entries, NEW g \in entries,
               <<e, f>> \in before, <<f, g>> \in before
        PROVE  <<e, g>> \in before
    <2>1. RanksBefore(e, f) /\ RanksBefore(f, g)
      BY <1>5, <1>8
    <2>2. RanksBefore(e, g)
      BY <1>4, <2>1 DEF RanksBefore
    <2> QED
      BY <1>5, <2>2
  <1>9. Orders(before, entries)
    BY <1>6, <1>7, <1>8 DEF Orders
  <1> QED
    BY <1>3, <1>9 DEF before

\* The list is in the order of the ranking.
LEMMA SortingSorts ==
    ASSUME NEW entries \in SUBSET Ranked, OneEach(entries)
    PROVE  Sorted(entries) \in Seq(Ranked) /\ InOrder(Sorted(entries))
  <1> DEFINE before == {p \in entries \X entries : RanksBefore(p[1], p[2])}
             n == Cardinality(entries)
  <1>1. IsFiniteSet(entries) /\ Orders(before, entries)
    BY EntriesAreOrdered
  <1>2. n \in Nat
    BY <1>1, FS_CardinalityType
  <1>3. PICK s \in [1 .. n -> entries] :
          \A i, j \in 1 .. n : i < j => <<s[i], s[j]>> \in before
    <2> HIDE DEF before
    <2> QED
      BY <1>1, SortedExists
  <1>4. \A i, j \in 1 .. n : i < j => RanksBefore(s[i], s[j])
    BY <1>3
  <1>5. ASSUME NEW i \in 1 .. n, NEW j \in 1 .. n, i # j
        PROVE  s[i] # s[j]
    <2>1. <<s[i], s[j]>> \in before \/ <<s[j], s[i]>> \in before
      BY <1>3, <1>5
    <2>2. <<s[i], s[i]>> \notin before
      BY <1>1, <1>3 DEF Orders
    <2> QED
      BY <2>1, <2>2
  <1>6. DOMAIN s = 1 .. n
    BY <1>3
  <1>7. s \in SetToSeqs(entries)
    BY <1>3, <1>5 DEF SetToSeqs
  <1>8. InOrder(s)
    BY <1>4, <1>6 DEF InOrder
  <1> DEFINE t == Sorted(entries)
  <1>9. t \in SetToSeqs(entries) /\ InOrder(t)
    BY <1>7, <1>8 DEF Sorted, InOrder
  <1>10. t \in [1 .. n -> entries]
    BY <1>9 DEF SetToSeqs
  <1> HIDE DEF t
  <1>11. t \in Seq(Ranked)
    BY <1>2, <1>10
  <1> QED
    BY <1>9, <1>11 DEF t

\* The score puts votes before attendance, and attendance before the date.
LEMMA RankingIsByVotes ==
    ASSUME NEW e \in Ranked, NEW f \in Ranked, RanksBefore(e, f)
    PROVE  \/ e.up - e.down > f.up - f.down
           \/ /\ e.up - e.down = f.up - f.down
              /\ f.verified => e.verified
              /\ e.verified = f.verified => e.comment > f.comment
  <1> DEFINE a == e.up - e.down
             b == f.up - f.down
             v == IF e.verified THEN 30 ELSE 0
             w == IF f.verified THEN 30 ELSE 0
  <1>1. a \in Int /\ b \in Int
    BY DEF Ranked
  <1>2. v \in {0, 30} /\ w \in {0, 30}
    OBVIOUS
  <1>3. Score(e) = 70 * a + v /\ Score(f) = 70 * b + w
    BY ScoreIsInt
  <1>4. \/ 70 * a + v > 70 * b + w
        \/ 70 * a + v = 70 * b + w /\ e.comment > f.comment
    BY <1>3 DEF RanksBefore
  <1>5. e.verified \in BOOLEAN /\ f.verified \in BOOLEAN
    BY DEF Ranked
  <1>6. (v = 30 <=> e.verified) /\ (w = 30 <=> f.verified)
    OBVIOUS
  <1> HIDE DEF a, b, v, w
  <1>7. a > b \/ (a = b /\ v >= w)
    BY <1>1, <1>2, <1>4
  <1>8. a = b /\ v = w => e.comment > f.comment
    BY <1>1, <1>2, <1>4
  <1>9. v >= w => (w = 30 => v = 30)
    BY <1>2
  <1>10. f.verified /\ v >= w => e.verified
    BY <1>6, <1>9
  <1>11. e.verified = f.verified => v = w
    BY <1>2, <1>5, <1>6
  <1> QED
    BY <1>7, <1>8, <1>10, <1>11 DEF a, b

-----------------------------------------------------------------------------
(* The invariant *)

\* Reviewing a comment is what bumps its version.
ReviewedOnce ==
    \A c \in DOMAIN comments :
        comments[c].status = "pending" <=> comments[c].version = 1

\* What the state of a request owes to the checks it has made.
Good(s) ==
    /\ s.at = "review" => s.comment \in DOMAIN comments /\ s.version = 1
    /\ s.at \in Regenerating \cup {"vote"} => s.comment \in Approved
    /\ s.at = "summarize" =>
         s.listed \subseteq Approved /\ s.comment \in s.listed
    /\ s.at = "upsert" =>
         \E listed \in SUBSET Approved :
            /\ s.comment \in listed
            /\ s.covers = Prompt(listed)
            /\ s.count = Cardinality(listed)
    /\ s.at = "publish" =>
         /\ s.comment \in DOMAIN comments
         /\ comments[s.comment].status = s.verdict
    /\ s.at = "rank" =>
         /\ OneEach(s.ranked)
         /\ \A c \in s.todo : \E e \in s.ranked : e.comment = c
    /\ s.at = "return" => InOrder(s.shown)

RequestsGood == \A r \in Req : Good(req[r])

NoticesTrue ==
    \A n \in notices :
        n[1] \in DOMAIN comments /\ comments[n[1]].status = n[2]

\* Nothing that the request of state s has listed is older than `listed'.
ListsNoLess(s, listed) ==
    /\ s.at = "summarize" => listed \subseteq s.listed
    /\ s.at = "upsert" =>
         \E later \in SUBSET Approved :
            /\ listed \subseteq later
            /\ s.covers = Prompt(later)
            /\ s.count = Cardinality(later)

MadeFrom(listed) ==
    summary = [covers |-> Prompt(listed), count |-> Cardinality(listed)]

\* The summary is the one of some list of approved comments, and whoever
\* listed them before that and has not written yet is known as overtaken.
SummaryInv ==
    summary # NotYet =>
        \E listed \in SUBSET Approved :
            /\ MadeFrom(listed)
            /\ \A r \in Req \ overtaken : ListsNoLess(req[r], listed)

ReviewInv ==
    /\ TypeOK
    /\ ReviewedOnce
    /\ RequestsGood
    /\ NoticesTrue
    /\ VotesOnVisible

IInv == ReviewInv /\ SummaryInv /\ SummaryMissesOnlyLost

-----------------------------------------------------------------------------
(* Types and reviews *)

LEMMA IdleIsRequest == Idle \in Request /\ Idle.at = "idle"
  BY DEF Idle, Request

\* What a request holds in each of its states.
LEMMA Fields ==
    ASSUME NEW s \in Request
    PROVE  /\ s.at \in Regenerating \cup {"review", "publish", "vote"} =>
                s.comment \in Comment
           /\ s.at \in {"review", "publish"} => s.verdict \in Verdict
           /\ s.at = "review" => s.version \in 1 .. 2
           /\ s.at \in {"summarize", "tally"} => s.listed \in SUBSET Comment
           /\ s.at = "upsert" =>
                s.covers \in SUBSET Comment /\ s.count \in 0 .. MaxComments
           /\ s.at = "vote" => s.voter \in Voter /\ s.value \in VoteValue
           /\ s.at = "rank" =>
                s.todo \in SUBSET Comment /\ s.ranked \in SUBSET Ranked
           /\ s.at = "return" => s.shown \in Seq(Ranked)
  BY DEF Request, Regenerating

LEMMA RowsAreComments ==
    ASSUME TypeOK
    PROVE  /\ DOMAIN comments \in SUBSET Comment
           /\ Approved \in SUBSET Comment
           /\ Approved \in SUBSET DOMAIN comments
           /\ \A c \in DOMAIN comments : comments[c] \in Row
  <1>1. comments \in Seq(Row) /\ Len(comments) <= MaxComments
    BY DEF TypeOK
  <1>2. DOMAIN comments = 1 .. Len(comments) /\ Len(comments) \in Nat
    BY <1>1
  <1>3. DOMAIN comments \in SUBSET Comment
    BY <1>1, <1>2, CommentsAssumption DEF Comment
  <1> QED
    BY <1>1, <1>2, <1>3 DEF Approved

\* A comment that has been reviewed stays as it was reviewed.
StatusStands ==
    \A c \in DOMAIN comments :
        /\ c \in DOMAIN comments'
        /\ comments[c].status # "pending" =>
             comments'[c].status = comments[c].status

LEMMA ApprovedGrows ==
    ASSUME StatusStands
    PROVE  Approved \subseteq Approved'
  BY DEF StatusStands, Approved

LEMMA GoodStays ==
    ASSUME StatusStands, NEW s \in Request, Good(s)
    PROVE  Good(s)'
  <1>1. Approved \subseteq Approved'
    BY ApprovedGrows
  <1>2. s.at = "publish" => s.verdict # "pending"
    BY Fields DEF Verdict
  <1>3. (s.at = "review" => s.comment \in DOMAIN comments /\ s.version = 1)'
    BY DEF Good, StatusStands
  <1>4. (s.at \in Regenerating \cup {"vote"} => s.comment \in Approved)'
    BY <1>1 DEF Good
  <1>5. (s.at = "summarize" =>
           s.listed \subseteq Approved /\ s.comment \in s.listed)'
    BY <1>1 DEF Good
  <1>6. (s.at = "upsert" =>
           \E listed \in SUBSET Approved :
              /\ s.comment \in listed
              /\ s.covers = Prompt(listed)
              /\ s.count = Cardinality(listed))'
    BY <1>1 DEF Good
  <1>7. (s.at = "publish" =>
           /\ s.comment \in DOMAIN comments
           /\ comments[s.comment].status = s.verdict)'
    BY <1>2 DEF Good, StatusStands
  <1>8. (s.at = "rank" =>
           /\ OneEach(s.ranked)
           /\ \A c \in s.todo : \E e \in s.ranked : e.comment = c)'
    BY DEF Good
  <1>9. (s.at = "return" => InOrder(s.shown))'
    BY DEF Good
  <1> QED
    BY <1>3, <1>4, <1>5, <1>6, <1>7, <1>8, <1>9 DEF Good

\* A request goes on to a state, and the others stay where they are.
LEMMA OneMoves ==
    ASSUME TypeOK, RequestsGood, StatusStands,
           NEW r \in Req, NEW s \in Request, Goto(r, s), Good(s)'
    PROVE  req' \in [Req -> Request] /\ RequestsGood'
  <1>1. /\ req' \in [Req -> Request]
        /\ req'[r] = s
        /\ \A q \in Req \ {r} : req'[q] = req[q] /\ req[q] \in Request
    BY DEF TypeOK, Goto
  <1>2. ASSUME NEW q \in Req \ {r}
        PROVE  Good(req[q])'
    <2>1. PICK t \in Request : t = req[q]
      BY <1>1
    <2>2. Good(t)
      BY <2>1 DEF RequestsGood
    <2>3. Good(t)'
      BY <2>2, GoodStays
    <2>4. t = req'[q]
      BY <1>1, <2>1
    <2> QED
      BY <2>3, <2>4
  <1>3. Good(req[r])'
    <2>1. s = req'[r]
      BY <1>1
    <2> QED
      BY <2>1
  <1> QED
    BY <1>1, <1>2, <1>3 DEF RequestsGood

LEMMA NoticesStand ==
    ASSUME NoticesTrue, TypeOK, StatusStands, UNCHANGED notices
    PROVE  NoticesTrue'
  BY DEF NoticesTrue, TypeOK, StatusStands, Verdict

LEMMA VotesStand ==
    ASSUME VotesOnVisible, StatusStands, UNCHANGED votes
    PROVE  VotesOnVisible'
  BY ApprovedGrows DEF VotesOnVisible

\* A step that leaves the comments, the votes and the notices alone.
LEMMA LocalStep ==
    ASSUME ReviewInv, NEW r \in Req, NEW s \in Request, Goto(r, s), Good(s),
           UNCHANGED <<comments, votes, attended, notices>>,
           summary' \in {NotYet} \cup Summary,
           lost' \subseteq Comment, overtaken' \subseteq Req
    PROVE  ReviewInv' /\ StatusStands
  <1> USE DEF ReviewInv
  <1>1. StatusStands
    BY DEF StatusStands
  <1>2. Good(s)'
    BY <1>1, GoodStays
  <1>3. req' \in [Req -> Request] /\ RequestsGood'
    BY <1>1, <1>2, OneMoves
  <1>4. TypeOK'
    BY <1>3 DEF TypeOK
  <1>5. ReviewedOnce'
    BY DEF ReviewedOnce
  <1>6. NoticesTrue' /\ VotesOnVisible'
    BY <1>1, NoticesStand, VotesStand
  <1> QED
    BY <1>1, <1>3, <1>4, <1>5, <1>6

-----------------------------------------------------------------------------
(* Each action keeps ReviewInv, and the reviews it finds *)

LEMMA CreateStep ==
    ASSUME ReviewInv, CreateComment
    PROVE  ReviewInv' /\ StatusStands
  <1> USE DEF ReviewInv
  <1> DEFINE row == [status |-> "pending", version |-> 1]
  <1>1. row \in Row
    BY DEF Row
  <1>2. /\ comments \in Seq(Row) /\ Len(comments) < MaxComments
        /\ comments' = Append(comments, row)
    BY DEF TypeOK, CreateComment
  <1>3. /\ comments' \in Seq(Row) /\ Len(comments') = Len(comments) + 1
        /\ Len(comments) \in Nat
    BY <1>1, <1>2
  <1>4. /\ DOMAIN comments' = 1 .. (Len(comments) + 1)
        /\ DOMAIN comments = 1 .. Len(comments)
        /\ \A c \in DOMAIN comments : comments'[c] = comments[c]
        /\ comments'[Len(comments) + 1] = row
    BY <1>1, <1>2, <1>3
  <1>5. Len(comments') <= MaxComments
    BY <1>2, <1>3, CommentsAssumption
  <1>6. StatusStands
    BY <1>3, <1>4 DEF StatusStands
  <1>7. UNCHANGED <<votes, attended, summary, req, notices, lost, overtaken>>
    BY DEF CreateComment
  <1>8. TypeOK'
    BY <1>3, <1>5, <1>7 DEF TypeOK
  <1>9. ReviewedOnce'
    <2>1. ASSUME NEW c \in DOMAIN comments'
          PROVE  comments'[c].status = "pending" <=> comments'[c].version = 1
      <3>1. CASE c \in DOMAIN comments
        BY <1>4, <3>1 DEF ReviewedOnce
      <3>2. CASE c \notin DOMAIN comments
        <4>1. c = Len(comments) + 1
          BY <1>3, <1>4, <3>2
        <4> QED
          BY <1>4, <4>1
      <3> QED
        BY <3>1, <3>2
    <2> QED
      BY <2>1 DEF ReviewedOnce
  <1>10. RequestsGood'
    <2>1. ASSUME NEW q \in Req
          PROVE  Good(req[q])'
      <3>1. PICK t \in Request : t = req[q]
        BY DEF TypeOK
      <3>2. Good(t)'
        BY <1>6, <3>1, GoodStays DEF RequestsGood
      <3>3. t = req'[q]
        BY <1>7, <3>1
      <3> QED
        BY <3>2, <3>3
    <2> QED
      BY <2>1 DEF RequestsGood
  <1>11. NoticesTrue' /\ VotesOnVisible'
    BY <1>6, <1>7, NoticesStand, VotesStand
  <1> QED
    BY <1>6, <1>8, <1>9, <1>10, <1>11

LEMMA ReviewFindStep ==
    ASSUME ReviewInv, NEW r \in Req, NEW c \in DOMAIN comments,
           NEW verdict \in Verdict, ReviewFind(r, c, verdict)
    PROVE  ReviewInv' /\ StatusStands
  <1> USE DEF ReviewInv
  <1>1. PICK s : s = [at |-> "review", comment |-> c, verdict |-> verdict,
                      version |-> comments[c].version]
    OBVIOUS
  <1>2. c \in Comment /\ comments[c] \in Row
    BY RowsAreComments
  <1>3. comments[c].version = 1
    BY DEF ReviewFind, StillPending, ReviewedOnce
  <1>4. s \in Request /\ Goto(r, s)
    BY <1>1, <1>2, <1>3 DEF Request, ReviewFind
  <1>5. Good(s)
    BY <1>1, <1>3 DEF Good, Regenerating
  <1> QED
    BY <1>4, <1>5, LocalStep DEF ReviewFind, TypeOK, tables

LEMMA ReviewUpdateStep ==
    ASSUME ReviewInv, NEW r \in Req, ReviewUpdate(r)
    PROVE  ReviewInv' /\ StatusStands
  <1> USE DEF ReviewInv
  <1>1. PICK q \in Request : q = req[r]
    BY DEF TypeOK
  <1>2. PICK c \in Comment : c = q.comment
    BY <1>1, Fields DEF ReviewUpdate
  <1>3. /\ q.at = "review" /\ q.version = 1 /\ q.verdict \in Verdict
        /\ c \in DOMAIN comments /\ Good(q)
    BY <1>1, <1>2, Fields DEF ReviewUpdate, RequestsGood, Good
  <1>4. UNCHANGED <<votes, attended, summary, notices, lost, overtaken>>
    BY DEF ReviewUpdate
  <1>5. CASE comments[c].version # 1
    <2>1. UNCHANGED comments /\ Goto(r, Idle)
      BY <1>1, <1>2, <1>3, <1>5 DEF ReviewUpdate, SameVersion, Finish
    <2>2. Good(Idle)
      BY IdleIsRequest DEF Good, Regenerating
    <2> QED
      BY <1>4, <2>1, <2>2, IdleIsRequest, LocalStep DEF TypeOK
  <1>6. CASE comments[c].version = 1
    <2>1. PICK row : row = [status |-> q.verdict, version |-> 2]
      OBVIOUS
    <2>2. PICK s : s = AfterReview(c, q.verdict)
      OBVIOUS
    <2>3. comments' = [comments EXCEPT ![c] = row] /\ Goto(r, s)
      BY <1>1, <1>2, <1>3, <1>6, <2>1, <2>2 DEF ReviewUpdate, SameVersion
    <2>4. /\ comments \in Seq(Row) /\ row \in Row
          /\ row.status = q.verdict /\ row.version = 2
      BY <1>3, <2>1 DEF TypeOK, Row
    <2>5. /\ comments' \in Seq(Row) /\ Len(comments') = Len(comments)
          /\ DOMAIN comments' = DOMAIN comments
          /\ comments'[c] = row
          /\ \A d \in DOMAIN comments \ {c} : comments'[d] = comments[d]
      BY <1>3, <2>3, <2>4
    <2>6. comments[c].status = "pending"
      BY <1>3, <1>6 DEF ReviewedOnce
    <2>7. StatusStands
      BY <2>5, <2>6 DEF StatusStands
    <2>8. s \in Request
      BY <1>3, <2>2 DEF AfterReview, Request
    <2>9. Good(s)'
      <3>1. CASE q.verdict = "approved"
        <4>1. s = [at |-> "regenerate", comment |-> c]
          BY <2>2, <3>1 DEF AfterReview
        <4>2. c \in Approved'
          BY <1>3, <2>4, <2>5, <3>1 DEF Approved
        <4> QED
          BY <4>1, <4>2 DEF Good
      <3>2. CASE q.verdict # "approved"
        <4>1. s = [at |-> "publish", comment |-> c, verdict |-> q.verdict]
          BY <2>2, <3>2 DEF AfterReview
        <4>2. c \in DOMAIN comments' /\ comments'[c].status = q.verdict
          BY <1>3, <2>4, <2>5
        <4> QED
          BY <4>1, <4>2 DEF Good, Regenerating
      <3> QED
        BY <3>1, <3>2
    <2>10. req' \in [Req -> Request] /\ RequestsGood'
      BY <2>3, <2>7, <2>8, <2>9, OneMoves
    <2>11. TypeOK'
      BY <1>4, <2>5, <2>10 DEF TypeOK
    <2>12. ReviewedOnce'
      BY <1>3, <2>4, <2>5 DEF ReviewedOnce, Verdict
    <2>13. NoticesTrue' /\ VotesOnVisible'
      BY <1>4, <2>7, NoticesStand, VotesStand
    <2> QED
      BY <2>7, <2>10, <2>11, <2>12, <2>13
  <1> QED
    BY <1>5, <1>6

LEMMA PublishStep ==
    ASSUME ReviewInv, NEW r \in Req, Publish(r)
    PROVE  ReviewInv' /\ StatusStands
  <1> USE DEF ReviewInv
  <1>1. PICK q \in Request : q = req[r]
    BY DEF TypeOK
  <1>2. /\ q.comment \in Comment /\ q.verdict \in Verdict
        /\ q.comment \in DOMAIN comments
        /\ comments[q.comment].status = q.verdict
    BY <1>1, Fields DEF Publish, RequestsGood, Good
  <1>3. notices' \in {notices, notices \cup {<<q.comment, q.verdict>>}}
    BY <1>1 DEF Publish
  <1>4. /\ UNCHANGED <<comments, votes, attended, summary, lost, overtaken>>
        /\ Goto(r, Idle)
    BY DEF Publish, Finish
  <1>5. StatusStands
    BY <1>4 DEF StatusStands
  <1>6. Good(Idle)'
    BY IdleIsRequest DEF Good, Regenerating
  <1>7. req' \in [Req -> Request] /\ RequestsGood'
    BY <1>4, <1>5, <1>6, IdleIsRequest, OneMoves
  <1>8. TypeOK'
    BY <1>2, <1>3, <1>4, <1>7 DEF TypeOK
  <1>9. NoticesTrue'
    BY <1>2, <1>3, <1>4 DEF NoticesTrue
  <1>10. ReviewedOnce' /\ VotesOnVisible'
    BY <1>4, <1>5, VotesStand DEF ReviewedOnce
  <1> QED
    BY <1>5, <1>7, <1>8, <1>9, <1>10

LEMMA VoteFindStep ==
    ASSUME ReviewInv, NEW r \in Req, NEW c \in DOMAIN comments,
           NEW v \in Voter, NEW value \in VoteValue, VoteFind(r, c, v, value)
    PROVE  ReviewInv' /\ StatusStands
  <1> USE DEF ReviewInv
  <1>1. PICK s : s = [at |-> "vote", comment |-> c, voter |-> v,
                      value |-> value]
    OBVIOUS
  <1>2. s \in Request /\ Goto(r, s)
    BY <1>1, RowsAreComments DEF Request, VoteFind
  <1>3. Good(s)
    BY <1>1 DEF Good, VoteFind, IsVisible, Regenerating
  <1> QED
    BY <1>2, <1>3, LocalStep DEF VoteFind, TypeOK, tables

LEMMA VoteUpsertStep ==
    ASSUME ReviewInv, NEW r \in Req, VoteUpsert(r)
    PROVE  ReviewInv' /\ StatusStands
  <1> USE DEF ReviewInv
  <1>1. PICK q \in Request : q = req[r]
    BY DEF TypeOK
  <1>2. /\ q.comment \in Comment /\ q.voter \in Voter /\ q.value \in VoteValue
        /\ q.comment \in Approved
    BY <1>1, Fields DEF VoteUpsert, RequestsGood, Good
  <1>3. votes' = [votes EXCEPT ![<<q.comment, q.voter>>] = q.value]
    BY <1>1 DEF VoteUpsert
  <1>4. /\ UNCHANGED <<comments, attended, summary, notices, lost, overtaken>>
        /\ Goto(r, Idle)
    BY DEF VoteUpsert, Finish
  <1>5. StatusStands
    BY <1>4 DEF StatusStands
  <1>6. Good(Idle)'
    BY IdleIsRequest DEF Good, Regenerating
  <1>7. req' \in [Req -> Request] /\ RequestsGood'
    BY <1>4, <1>5, <1>6, IdleIsRequest, OneMoves
  <1>8. votes \in [Comment \X Voter -> VoteValue \cup {0}]
    BY DEF TypeOK
  <1>9. votes' \in [Comment \X Voter -> VoteValue \cup {0}]
    BY <1>2, <1>3, <1>8
  <1>10. TypeOK'
    BY <1>4, <1>7, <1>9 DEF TypeOK
  <1>11. VotesOnVisible'
    <2>1. Approved' = Approved
      BY <1>4 DEF Approved
    <2>2. ASSUME NEW c \in Comment, NEW v \in Voter, votes'[<<c, v>>] # 0
          PROVE  c \in Approved
      <3>1. c = q.comment \/ votes'[<<c, v>>] = votes[<<c, v>>]
        BY <1>3, <1>8
      <3> QED
        BY <1>2, <2>2, <3>1 DEF VotesOnVisible
    <2> QED
      BY <2>1, <2>2 DEF VotesOnVisible
  <1>12. ReviewedOnce' /\ NoticesTrue'
    BY <1>4, <1>5, NoticesStand DEF ReviewedOnce
  <1> QED
    BY <1>5, <1>7, <1>10, <1>11, <1>12

LEMMA AttendStep ==
    ASSUME ReviewInv, NEW authored \in SUBSET Comment, Attend(authored)
    PROVE  ReviewInv' /\ StatusStands
  <1> USE DEF ReviewInv
  <1>1. UNCHANGED <<comments, votes, summary, req, notices, lost, overtaken>>
    BY DEF Attend
  <1>2. TypeOK'
    BY <1>1 DEF TypeOK, Attend
  <1>3. Approved' = Approved
    BY <1>1 DEF Approved
  <1>4. RequestsGood'
    BY <1>1, <1>3 DEF RequestsGood, Good
  <1>5. /\ ReviewedOnce' /\ NoticesTrue' /\ VotesOnVisible'
        /\ StatusStands
    BY <1>1, <1>3 DEF ReviewedOnce, NoticesTrue, VotesOnVisible, StatusStands
  <1> QED
    BY <1>2, <1>4, <1>5

LEMMA RegenerateListStep ==
    ASSUME ReviewInv, NEW r \in Req, RegenerateList(r)
    PROVE  ReviewInv' /\ StatusStands
  <1> USE DEF ReviewInv
  <1>1. PICK q \in Request : q = req[r]
    BY DEF TypeOK
  <1>2. PICK s : s = [at |-> "summarize", comment |-> q.comment,
                      listed |-> Approved]
    OBVIOUS
  <1>3. q.comment \in Comment /\ q.comment \in Approved
    BY <1>1, Fields DEF RegenerateList, Regenerating, RequestsGood, Good
  <1>4. s \in Request /\ Goto(r, s)
    BY <1>1, <1>2, <1>3, RowsAreComments
       DEF Request, RegenerateList, ListApproved
  <1>5. Good(s)
    BY <1>2, <1>3 DEF Good, Regenerating
  <1> QED
    BY <1>4, <1>5, LocalStep DEF RegenerateList, TypeOK, tables

LEMMA SummarizeStep ==
    ASSUME ReviewInv, NEW r \in Req, Summarize(r)
    PROVE  ReviewInv' /\ StatusStands
  <1> USE DEF ReviewInv
  <1>1. PICK q \in Request : q = req[r]
    BY DEF TypeOK
  <1>2. PICK s : s = [at |-> "upsert", comment |-> q.comment,
                      covers |-> Prompt(q.listed),
                      count |-> Cardinality(q.listed)]
    OBVIOUS
  <1>3. /\ q.at = "summarize" /\ q.comment \in Comment
        /\ q.listed \in SUBSET Comment
        /\ q.listed \subseteq Approved /\ q.comment \in q.listed
    BY <1>1, Fields DEF Summarize, Regenerating, RequestsGood, Good
  <1>4. Prompt(q.listed) \subseteq Comment
    BY <1>3 DEF Prompt
  <1>5. Cardinality(q.listed) \in 0 .. MaxComments
    BY <1>3, CommentSets
  <1>6. s \in Request
    BY <1>2, <1>3, <1>4, <1>5 DEF Request
  <1>7. Goto(r, s)
    BY <1>1, <1>2 DEF Summarize
  <1>8. Good(s)
    BY <1>2, <1>3 DEF Good, Regenerating
  <1> QED
    BY <1>6, <1>7, <1>8, LocalStep DEF Summarize, TypeOK, tables

\* What follows the regeneration, whether it has failed or not.
LEMMA ApprovalIsPublished ==
    ASSUME ReviewInv, NEW r \in Req, req[r].at \in Regenerating
    PROVE  /\ Approval(r) \in Request /\ Good(Approval(r))
           /\ req[r].comment \in Comment
  <1> USE DEF ReviewInv
  <1>1. PICK q \in Request : q = req[r]
    BY DEF TypeOK
  <1>2. q.comment \in Comment /\ q.comment \in Approved
    BY <1>1, Fields DEF RequestsGood, Good
  <1>3. q.comment \in DOMAIN comments
        /\ comments[q.comment].status = "approved"
    BY <1>2 DEF Approved
  <1>4. Approval(r) =
          [at |-> "publish", comment |-> q.comment, verdict |-> "approved"]
    BY <1>1 DEF Approval
  <1> QED
    BY <1>1, <1>2, <1>3, <1>4 DEF Request, Verdict, Good, Regenerating

LEMMA SummaryUpsertStep ==
    ASSUME ReviewInv, NEW r \in Req, SummaryUpsert(r)
    PROVE  ReviewInv' /\ StatusStands
  <1> USE DEF ReviewInv
  <1>1. PICK q \in Request : q = req[r]
    BY DEF TypeOK
  <1>2. /\ q.at = "upsert" /\ q.covers \in SUBSET Comment
        /\ q.count \in 0 .. MaxComments
    BY <1>1, Fields DEF SummaryUpsert
  <1>3. PICK s : s = Approval(r)
    OBVIOUS
  <1>4. s \in Request /\ Good(s)
    BY <1>1, <1>2, <1>3, ApprovalIsPublished DEF Regenerating
  <1>5. Goto(r, s)
    BY <1>3 DEF SummaryUpsert
  <1>6. summary' \in Summary
    BY <1>1, <1>2 DEF SummaryUpsert, Summary
  <1>7. Heeded \subseteq Comment
    BY RowsAreComments DEF Heeded, Covered, TypeOK, Summary
  <1>8. lost' \subseteq Comment /\ overtaken' \subseteq Req
    BY <1>7 DEF SummaryUpsert, TypeOK
  <1> QED
    BY <1>4, <1>5, <1>6, <1>8, LocalStep DEF SummaryUpsert

LEMMA RegenerateFailsStep ==
    ASSUME ReviewInv, NEW r \in Req, RegenerateFails(r)
    PROVE  ReviewInv' /\ StatusStands
  <1> USE DEF ReviewInv
  <1>1. PICK s : s = Approval(r)
    OBVIOUS
  <1>2. s \in Request /\ Good(s) /\ req[r].comment \in Comment
    BY <1>1, ApprovalIsPublished DEF RegenerateFails
  <1>3. Goto(r, s)
    BY <1>1 DEF RegenerateFails
  <1>4. lost' \subseteq Comment /\ overtaken' \subseteq Req
    BY <1>2 DEF RegenerateFails, TypeOK
  <1> QED
    BY <1>2, <1>3, <1>4, LocalStep DEF RegenerateFails, TypeOK, tables

LEMMA AbandonStep ==
    ASSUME ReviewInv, NEW r \in Req, Abandon(r)
    PROVE  ReviewInv' /\ StatusStands
  <1> USE DEF ReviewInv
  <1>1. Good(Idle) /\ Idle \in Request
    BY IdleIsRequest DEF Good, Regenerating
  <1>2. Goto(r, Idle)
    BY DEF Abandon, Finish
  <1>3. req[r].at \in Regenerating => req[r].comment \in Comment
    BY ApprovalIsPublished
  <1>4. lost' \subseteq Comment /\ overtaken' \subseteq Req
    BY <1>3 DEF Abandon, TypeOK
  <1> QED
    BY <1>1, <1>2, <1>4, LocalStep DEF Abandon, TypeOK, tables

LEMMA ListCommentsStep ==
    ASSUME ReviewInv, NEW r \in Req, ListComments(r)
    PROVE  ReviewInv' /\ StatusStands
  <1> USE DEF ReviewInv
  <1>1. PICK s : s = [at |-> "tally", listed |-> Approved]
    OBVIOUS
  <1>2. s \in Request /\ Goto(r, s)
    BY <1>1, RowsAreComments DEF Request, ListComments
  <1>3. Good(s)
    BY <1>1 DEF Good, Regenerating
  <1> QED
    BY <1>2, <1>3, LocalStep DEF ListComments, TypeOK, tables

LEMMA TallyCounts ==
    ASSUME NEW c, NEW value
    PROVE  Tally(c, value) \in Nat
  <1>1. {v \in Voter : votes[<<c, v>>] = value} \in SUBSET Voter
    OBVIOUS
  <1>2. IsFiniteSet({v \in Voter : votes[<<c, v>>] = value})
    BY <1>1, CommentsAssumption, FS_Subset
  <1> QED
    BY <1>2, FS_CardinalityType DEF Tally

LEMMA ListTallyStep ==
    ASSUME ReviewInv, NEW r \in Req, ListTally(r)
    PROVE  ReviewInv' /\ StatusStands
  <1> USE DEF ReviewInv
  <1>1. PICK q \in Request : q = req[r]
    BY DEF TypeOK
  <1>2. q.listed \in SUBSET Comment
    BY <1>1, Fields DEF ListTally
  <1> DEFINE entry(c) == [comment |-> c, up |-> Tally(c, 1),
                          down |-> Tally(c, -1), verified |-> FALSE]
  <1>3. PICK ranked : ranked = {entry(c) : c \in q.listed}
    OBVIOUS
  <1>4. \A c \in Comment : entry(c) \in Ranked
    BY TallyCounts DEF Ranked
  <1>5. \A c : entry(c).comment = c
    OBVIOUS
  <1>6. PICK s : s = [at |-> "rank", todo |-> q.listed, ranked |-> ranked]
    OBVIOUS
  <1>7. Goto(r, s)
    BY <1>1, <1>3, <1>6 DEF ListTally
  <1> HIDE DEF entry
  <1>8. ranked \in SUBSET Ranked
    BY <1>2, <1>3, <1>4
  <1>9. s \in Request
    BY <1>2, <1>6, <1>8 DEF Request
  <1>10. OneEach(ranked)
    BY <1>3, <1>5 DEF OneEach
  <1>11. \A c \in q.listed : \E e \in ranked : e.comment = c
    BY <1>3, <1>5
  <1>12. Good(s)
    BY <1>6, <1>10, <1>11 DEF Good, Regenerating
  <1> QED
    BY <1>7, <1>9, <1>12, LocalStep DEF ListTally, TypeOK, tables

LEMMA ListVerifyStep ==
    ASSUME ReviewInv, NEW r \in Req, ListVerify(r)
    PROVE  ReviewInv' /\ StatusStands
  <1> USE DEF ReviewInv
  <1>1. PICK q \in Request : q = req[r]
    BY DEF TypeOK
  <1>2. /\ q.at = "rank" /\ q.todo # {} /\ q.todo \in SUBSET Comment
        /\ q.ranked \in SUBSET Ranked /\ OneEach(q.ranked)
        /\ \A c \in q.todo : \E e \in q.ranked : e.comment = c
    BY <1>1, Fields DEF ListVerify, RequestsGood, Good
  <1>3. PICK c : c = CHOOSE n \in q.todo : \A d \in q.todo : n >= d
    OBVIOUS
  <1>4. c \in q.todo
    BY <1>2, <1>3, NewestExists
  <1>5. PICK e : e = CHOOSE g \in q.ranked : g.comment = c
    OBVIOUS
  <1>6. e \in q.ranked /\ e.comment = c
    BY <1>2, <1>4, <1>5
  <1>7. PICK f : f = [e EXCEPT !.verified = c \in attended]
    OBVIOUS
  <1>8. e \in Ranked
    BY <1>2, <1>6
  <1>9. f \in Ranked /\ f.comment = c
    <2> DEFINE with(b) == [comment |-> e.comment, up |-> e.up,
                           down |-> e.down, verified |-> b]
    <2>1. /\ with(TRUE) \in Ranked /\ with(TRUE).comment = c
          /\ with(FALSE) \in Ranked /\ with(FALSE).comment = c
      BY <1>6, <1>8 DEF Ranked
    <2>2. f = with(TRUE) \/ f = with(FALSE)
      <3>1. CASE c \in attended
        <4>1. f = [e EXCEPT !.verified = TRUE]
          BY <1>7, <3>1
        <4> QED
          BY <1>8, <4>1 DEF Ranked
      <3>2. CASE c \notin attended
        <4>1. (c \in attended) = FALSE
          BY <3>2
        <4>2. f = [e EXCEPT !.verified = FALSE]
          BY <1>7, <4>1, Zenon
        <4> QED
          BY <1>8, <4>2 DEF Ranked
      <3> QED
        BY <3>1, <3>2
    <2> HIDE DEF with
    <2> QED
      BY <2>1, <2>2, Zenon
  <1>10. PICK ranked : ranked = (q.ranked \ {e}) \cup {f}
    OBVIOUS
  <1>11. PICK s : s = [at |-> "rank", todo |-> q.todo \ {c},
                       ranked |-> ranked]
    OBVIOUS
  <1>12. Goto(r, s)
    BY <1>1, <1>3, <1>5, <1>7, <1>10, <1>11 DEF ListVerify
  <1>13. s \in Request
    BY <1>2, <1>9, <1>10, <1>11 DEF Request
  <1>14. OneEach(ranked)
    BY <1>2, <1>6, <1>9, <1>10 DEF OneEach
  <1>15. \A d \in q.todo \ {c} : \E g \in ranked : g.comment = d
    BY <1>2, <1>6, <1>10
  <1>16. Good(s)
    BY <1>11, <1>14, <1>15 DEF Good, Regenerating
  <1> QED
    BY <1>12, <1>13, <1>16, LocalStep DEF ListVerify, TypeOK, tables

LEMMA ListSortStep ==
    ASSUME ReviewInv, NEW r \in Req, ListSort(r)
    PROVE  ReviewInv' /\ StatusStands
  <1> USE DEF ReviewInv
  <1>1. PICK q \in Request : q = req[r]
    BY DEF TypeOK
  <1>2. q.ranked \in SUBSET Ranked /\ OneEach(q.ranked)
    BY <1>1, Fields DEF ListSort, RequestsGood, Good
  <1>3. PICK shown : shown = Sorted(q.ranked)
    OBVIOUS
  <1>4. shown \in Seq(Ranked) /\ InOrder(shown)
    BY <1>2, <1>3, SortingSorts
  <1>5. PICK s : s = [at |-> "return", shown |-> shown]
    OBVIOUS
  <1>6. s \in Request /\ Goto(r, s)
    BY <1>1, <1>3, <1>4, <1>5 DEF Request, ListSort
  <1>7. Good(s)
    BY <1>4, <1>5 DEF Good, Regenerating
  <1> QED
    BY <1>6, <1>7, LocalStep DEF ListSort, TypeOK, tables

LEMMA ListReturnStep ==
    ASSUME ReviewInv, NEW r \in Req, ListReturn(r)
    PROVE  ReviewInv' /\ StatusStands
  <1> USE DEF ReviewInv
  <1>1. Good(Idle) /\ Idle \in Request
    BY IdleIsRequest DEF Good, Regenerating
  <1> QED
    BY <1>1, LocalStep DEF ListReturn, Finish, TypeOK, tables

LEMMA ReviewInvStep ==
    ASSUME ReviewInv, [Next]_vars
    PROVE  ReviewInv' /\ StatusStands
  <1>1. CASE UNCHANGED vars
    <2>1. UNCHANGED <<comments, votes, attended, summary, req, notices, lost,
                      overtaken>>
      BY <1>1 DEF vars, tables
    <2>2. UNCHANGED Approved
      BY <2>1 DEF Approved
    <2>3. TypeOK' /\ ReviewedOnce' /\ NoticesTrue'
      BY <2>1 DEF ReviewInv, TypeOK, ReviewedOnce, NoticesTrue
    <2>4. RequestsGood' /\ VotesOnVisible'
      BY <2>1, <2>2 DEF ReviewInv, RequestsGood, Good, VotesOnVisible
    <2> QED
      BY <2>1, <2>3, <2>4 DEF ReviewInv, StatusStands
  <1>2. CASE CreateComment
    BY <1>2, CreateStep
  <1>3. ASSUME NEW r \in Req, Review(r)
        PROVE  ReviewInv' /\ StatusStands
    BY <1>3, ReviewFindStep, ReviewUpdateStep, PublishStep DEF Review
  <1>4. ASSUME NEW r \in Req, Regenerate(r)
        PROVE  ReviewInv' /\ StatusStands
    BY <1>4, RegenerateListStep, SummarizeStep, SummaryUpsertStep,
       RegenerateFailsStep DEF Regenerate
  <1>5. ASSUME NEW r \in Req, Vote(r)
        PROVE  ReviewInv' /\ StatusStands
    BY <1>5, VoteFindStep, VoteUpsertStep DEF Vote
  <1>6. ASSUME NEW r \in Req, List(r)
        PROVE  ReviewInv' /\ StatusStands
    BY <1>6, ListCommentsStep, ListTallyStep, ListVerifyStep, ListSortStep,
       ListReturnStep DEF List
  <1>7. ASSUME NEW r \in Req, Abandon(r)
        PROVE  ReviewInv' /\ StatusStands
    BY <1>7, AbandonStep
  <1>8. ASSUME NEW authored \in SUBSET Comment, Attend(authored)
        PROVE  ReviewInv' /\ StatusStands
    BY <1>8, AttendStep
  <1> QED
    BY <1>1, <1>2, <1>3, <1>4, <1>5, <1>6, <1>7, <1>8 DEF Next

-----------------------------------------------------------------------------
(* The summary *)

\* The step of r to the state s leaves the row of the summary alone, and
\* neither forgets a comment that is to be summarized nor one that is listed.
KeepsSummary(r, s) ==
    /\ Goto(r, s)
    /\ summary' = summary
    /\ lost \subseteq lost'
    /\ overtaken' \in {overtaken, overtaken \ {r}}
    /\ s.at \in {"summarize", "upsert"} =>
         /\ overtaken' = overtaken
         /\ \A listed \in SUBSET Approved :
              ListsNoLess(req[r], listed) => ListsNoLess(s, listed)
    /\ req[r].at \in Regenerating =>
         \/ s.at \in Regenerating /\ s.comment = req[r].comment
         \/ req[r].comment \in lost'
    /\ \A c \in Approved' \ Approved :
         s.at \in Regenerating /\ s.comment = c

\* A step that is none of the regeneration, and approves nothing.
LEMMA PlainStepKeeps ==
    ASSUME NEW r \in Req, NEW s, Goto(r, s),
           UNCHANGED <<comments, summary, lost, overtaken>>,
           req[r].at \notin Regenerating, s.at \notin Regenerating
    PROVE  KeepsSummary(r, s)
  <1>1. Approved' = Approved
    BY DEF Approved
  <1> QED
    BY <1>1 DEF KeepsSummary, Regenerating

LEMMA ReviewKeeps ==
    ASSUME ReviewInv, NEW r \in Req, Review(r)
    PROVE  \E s : KeepsSummary(r, s)
  <1> USE DEF ReviewInv
  <1>1. CASE \E c \in DOMAIN comments, verdict \in Verdict :
               ReviewFind(r, c, verdict)
    <2>1. PICK c \in DOMAIN comments, verdict \in Verdict :
            ReviewFind(r, c, verdict)
      BY <1>1
    <2>2. PICK s : s = [at |-> "review", comment |-> c, verdict |-> verdict,
                        version |-> comments[c].version]
      OBVIOUS
    <2>3. s.at \notin Regenerating /\ req[r].at \notin Regenerating
      BY <2>1, <2>2, IdleIsRequest DEF ReviewFind, Regenerating
    <2>4. Goto(r, s) /\ UNCHANGED <<comments, summary, lost, overtaken>>
      BY <2>1, <2>2 DEF ReviewFind, tables
    <2> QED
      BY <2>3, <2>4, PlainStepKeeps
  <1>2. CASE ReviewUpdate(r)
    <2>1. PICK q \in Request : q = req[r]
      BY DEF TypeOK
    <2>2. q.at = "review" /\ q.comment \in DOMAIN comments
      BY <1>2, <2>1 DEF ReviewUpdate, RequestsGood, Good
    <2>3. PICK c : c = q.comment
      OBVIOUS
    <2>4. UNCHANGED <<summary, lost, overtaken>>
      BY <1>2 DEF ReviewUpdate
    <2>5. CASE ~ SameVersion(c, q.version)
      <3>1. UNCHANGED comments /\ Goto(r, Idle)
        BY <1>2, <2>1, <2>3, <2>5 DEF ReviewUpdate, Finish
      <3> QED
        BY <2>1, <2>2, <2>4, <3>1, IdleIsRequest, PlainStepKeeps
           DEF Regenerating
    <2>6. CASE SameVersion(c, q.version)
      <3>1. PICK s : s = AfterReview(c, q.verdict)
        OBVIOUS
      <3>2. PICK row : row = [status |-> q.verdict,
                              version |-> comments[c].version + 1]
        OBVIOUS
      <3>3. Goto(r, s) /\ comments' = [comments EXCEPT ![c] = row]
        BY <1>2, <2>1, <2>3, <2>6, <3>1, <3>2 DEF ReviewUpdate
      <3>4. comments \in Seq(Row) /\ c \in DOMAIN comments
        BY <2>2, <2>3 DEF TypeOK
      <3>5. /\ DOMAIN comments' = DOMAIN comments
            /\ comments'[c] = row
            /\ \A d \in DOMAIN comments \ {c} : comments'[d] = comments[d]
        BY <3>3, <3>4
      <3>6. \A d \in Approved' \ Approved : d = c /\ q.verdict = "approved"
        BY <3>2, <3>5 DEF Approved
      <3>7. \A d \in Approved' \ Approved :
              s.at \in Regenerating /\ s.comment = d
        BY <3>1, <3>6 DEF AfterReview, Regenerating
      <3>8. s.at \in {"regenerate", "publish"}
        BY <3>1 DEF AfterReview
      <3> QED
        BY <2>1, <2>2, <2>4, <3>3, <3>7, <3>8 DEF KeepsSummary, Regenerating
    <2> QED
      BY <2>5, <2>6
  <1>3. CASE Publish(r)
    <2>1. /\ Goto(r, Idle) /\ req[r].at = "publish"
          /\ UNCHANGED <<comments, summary, lost, overtaken>>
      BY <1>3 DEF Publish, Finish
    <2> QED
      BY <2>1, IdleIsRequest, PlainStepKeeps DEF Regenerating
  <1> QED
    BY <1>1, <1>2, <1>3 DEF Review

LEMMA RegenerateKeeps ==
    ASSUME ReviewInv, NEW r \in Req, Regenerate(r), ~ SummaryUpsert(r)
    PROVE  \E s : KeepsSummary(r, s)
  <1> USE DEF ReviewInv
  <1>1. PICK q \in Request : q = req[r]
    BY DEF TypeOK
  <1>2. CASE RegenerateList(r)
    <2>1. PICK s : s = [at |-> "summarize", comment |-> q.comment,
                        listed |-> Approved]
      OBVIOUS
    <2>2. Goto(r, s) /\ UNCHANGED <<comments, summary, lost, overtaken>>
      BY <1>1, <1>2, <2>1 DEF RegenerateList, ListApproved, tables
    <2>3. Approved' = Approved
      BY <2>2 DEF Approved
    <2>4. \A listed \in SUBSET Approved : ListsNoLess(s, listed)
      BY <2>1 DEF ListsNoLess
    <2>5. s.at \in Regenerating /\ s.comment = req[r].comment
      BY <1>1, <2>1 DEF Regenerating
    <2> QED
      BY <2>2, <2>3, <2>4, <2>5 DEF KeepsSummary
  <1>3. CASE Summarize(r)
    <2>1. PICK s : s = [at |-> "upsert", comment |-> q.comment,
                        covers |-> Prompt(q.listed),
                        count |-> Cardinality(q.listed)]
      OBVIOUS
    <2>2. Goto(r, s) /\ UNCHANGED <<comments, summary, lost, overtaken>>
      BY <1>1, <1>3, <2>1 DEF Summarize, tables
    <2>3. Approved' = Approved
      BY <2>2 DEF Approved
    <2>4. q.at = "summarize" /\ q.listed \in SUBSET Approved
      BY <1>1, <1>3 DEF Summarize, RequestsGood, Good
    <2>5. \A listed \in SUBSET Approved :
            ListsNoLess(q, listed) => ListsNoLess(s, listed)
      BY <2>1, <2>4 DEF ListsNoLess
    <2>6. s.at \in Regenerating /\ s.comment = req[r].comment
      BY <1>1, <2>1 DEF Regenerating
    <2> QED
      BY <1>1, <2>2, <2>3, <2>5, <2>6 DEF KeepsSummary
  <1>4. CASE RegenerateFails(r)
    <2>1. PICK s : s = Approval(r)
      OBVIOUS
    <2>2. /\ Goto(r, s) /\ UNCHANGED <<comments, summary>>
          /\ lost' = lost \cup {req[r].comment}
          /\ overtaken' = overtaken \ {r}
      BY <1>4, <2>1 DEF RegenerateFails, tables
    <2>3. Approved' = Approved
      BY <2>2 DEF Approved
    <2>4. s.at = "publish"
      BY <2>1 DEF Approval
    <2> QED
      BY <2>2, <2>3, <2>4 DEF KeepsSummary
  <1> QED
    BY <1>2, <1>3, <1>4 DEF Regenerate

LEMMA VoteKeeps ==
    ASSUME ReviewInv, NEW r \in Req, Vote(r)
    PROVE  \E s : KeepsSummary(r, s)
  <1> USE DEF ReviewInv
  <1>1. CASE \E c \in DOMAIN comments, v \in Voter, value \in VoteValue :
               VoteFind(r, c, v, value)
    <2>1. PICK c \in DOMAIN comments, v \in Voter, value \in VoteValue :
            VoteFind(r, c, v, value)
      BY <1>1
    <2>2. PICK s : s = [at |-> "vote", comment |-> c, voter |-> v,
                        value |-> value]
      OBVIOUS
    <2>3. s.at \notin Regenerating /\ req[r].at \notin Regenerating
      BY <2>1, <2>2, IdleIsRequest DEF VoteFind, Regenerating
    <2>4. Goto(r, s) /\ UNCHANGED <<comments, summary, lost, overtaken>>
      BY <2>1, <2>2 DEF VoteFind, tables
    <2> QED
      BY <2>3, <2>4, PlainStepKeeps
  <1>2. CASE VoteUpsert(r)
    <2>1. /\ Goto(r, Idle) /\ req[r].at = "vote"
          /\ UNCHANGED <<comments, summary, lost, overtaken>>
      BY <1>2 DEF VoteUpsert, Finish
    <2> QED
      BY <2>1, IdleIsRequest, PlainStepKeeps DEF Regenerating
  <1> QED
    BY <1>1, <1>2 DEF Vote

LEMMA ListKeeps ==
    ASSUME ReviewInv, NEW r \in Req, List(r)
    PROVE  \E s : KeepsSummary(r, s)
  <1>1. /\ UNCHANGED <<comments, summary, lost, overtaken>>
        /\ req[r].at \notin Regenerating
    BY IdleIsRequest DEF List, ListComments, ListTally, ListVerify, ListSort,
       ListReturn, tables, Regenerating
  <1>2. \E s : Goto(r, s) /\ s.at \notin Regenerating
    <2>1. CASE ListComments(r)
      BY <2>1 DEF ListComments, Regenerating
    <2>2. CASE ListTally(r)
      BY <2>2 DEF ListTally, Regenerating
    <2>3. CASE ListVerify(r)
      BY <2>3 DEF ListVerify, Regenerating
    <2>4. CASE ListSort(r)
      BY <2>4 DEF ListSort, Regenerating
    <2>5. CASE ListReturn(r)
      BY <2>5, IdleIsRequest DEF ListReturn, Finish, Regenerating
    <2> QED
      BY <2>1, <2>2, <2>3, <2>4, <2>5 DEF List
  <1> QED
    BY <1>1, <1>2, PlainStepKeeps

LEMMA AbandonKeeps ==
    ASSUME ReviewInv, NEW r \in Req, Abandon(r)
    PROVE  \E s : KeepsSummary(r, s)
  <1>1. /\ Goto(r, Idle) /\ UNCHANGED <<comments, summary>>
        /\ lost' = IF req[r].at \in Regenerating
                     THEN lost \cup {req[r].comment} ELSE lost
        /\ overtaken' = overtaken \ {r}
    BY DEF Abandon, Finish, tables
  <1>2. Approved' = Approved
    BY <1>1 DEF Approved
  <1>3. KeepsSummary(r, Idle)
    BY <1>1, <1>2, IdleIsRequest DEF KeepsSummary
  <1> QED
    BY <1>3

LEMMA ListsNoLessStays ==
    ASSUME StatusStands, NEW s, NEW listed, ListsNoLess(s, listed)
    PROVE  ListsNoLess(s, listed)'
  BY ApprovedGrows DEF ListsNoLess

\* Where the others are after a step of r.
LEMMA OthersAreWhereTheyWere ==
    ASSUME TypeOK, NEW r \in Req, NEW s, Goto(r, s)
    PROVE  req'[r] = s /\ \A q \in Req \ {r} : req'[q] = req[q]
  BY DEF TypeOK, Goto

LEMMA KeptSummaryInv ==
    ASSUME ReviewInv, StatusStands, SummaryInv,
           NEW r \in Req, NEW s, KeepsSummary(r, s)
    PROVE  SummaryInv'
  <1>1. SUFFICES ASSUME summary # NotYet
                 PROVE  SummaryInv'
    BY DEF SummaryInv, KeepsSummary
  <1>2. PICK listed \in SUBSET Approved :
          /\ MadeFrom(listed)
          /\ \A q \in Req \ overtaken : ListsNoLess(req[q], listed)
    BY <1>1 DEF SummaryInv
  <1>3. MadeFrom(listed)' /\ listed \in SUBSET Approved'
    BY <1>2, ApprovedGrows DEF MadeFrom, KeepsSummary
  <1>4. req'[r] = s /\ \A q \in Req \ {r} : req'[q] = req[q]
    BY OthersAreWhereTheyWere DEF ReviewInv, KeepsSummary
  <1>5. ASSUME NEW q \in Req \ overtaken', q # r
        PROVE  ListsNoLess(req[q], listed)'
    <2>1. q \notin overtaken
      BY <1>5 DEF KeepsSummary
    <2>2. PICK t : t = req[q]
      OBVIOUS
    <2>3. ListsNoLess(t, listed)'
      BY <1>2, <2>1, <2>2, ListsNoLessStays
    <2>4. t = req'[q]
      BY <1>4, <1>5, <2>2
    <2> QED
      BY <2>3, <2>4
  <1>6. ASSUME r \notin overtaken'
        PROVE  ListsNoLess(req[r], listed)'
    <2>1. ListsNoLess(s, listed)
      <3>1. CASE s.at \in {"summarize", "upsert"}
        BY <1>2, <1>6, <3>1 DEF KeepsSummary
      <3>2. CASE s.at \notin {"summarize", "upsert"}
        BY <3>2 DEF ListsNoLess
      <3> QED
        BY <3>1, <3>2
    <2>2. ListsNoLess(s, listed)'
      BY <2>1, ListsNoLessStays
    <2>3. s = req'[r]
      BY <1>4
    <2> QED
      BY <2>2, <2>3
  <1>7. \A q \in Req \ overtaken' : ListsNoLess(req[q], listed)'
    BY <1>5, <1>6
  <1> QED
    BY <1>3, <1>7 DEF SummaryInv

LEMMA KeptMissesOnlyLost ==
    ASSUME ReviewInv, StatusStands, SummaryMissesOnlyLost,
           NEW r \in Req, NEW s, KeepsSummary(r, s)
    PROVE  SummaryMissesOnlyLost'
  <1>1. Covered' = Covered /\ lost \subseteq lost'
    BY DEF Covered, KeepsSummary
  <1>2. Covered' \subseteq Approved'
    BY <1>1, ApprovedGrows DEF SummaryMissesOnlyLost
  <1>3. req'[r] = s /\ \A q \in Req \ {r} : req'[q] = req[q]
    BY OthersAreWhereTheyWere DEF ReviewInv, KeepsSummary
  <1>4. ASSUME NEW c \in Approved' \ (Covered' \cup lost')
        PROVE  \/ PushedOut(c, Covered')
               \/ \E q \in Req : req'[q].at \in Regenerating
                                   /\ req'[q].comment = c
    <2>1. CASE c \notin Approved
      BY <1>3, <2>1 DEF KeepsSummary
    <2>2. CASE c \in Approved
      <3>1. \/ PushedOut(c, Covered)
            \/ \E q \in Req : req[q].at \in Regenerating
                                /\ req[q].comment = c
        BY <1>1, <1>4, <2>2 DEF SummaryMissesOnlyLost
      <3>2. CASE PushedOut(c, Covered)
        BY <1>1, <3>2 DEF PushedOut
      <3>3. ASSUME NEW q \in Req, req[q].at \in Regenerating,
                   req[q].comment = c
            PROVE  \E p \in Req : req'[p].at \in Regenerating
                                    /\ req'[p].comment = c
        <4>1. CASE q = r
          BY <1>3, <1>4, <3>3, <4>1 DEF KeepsSummary
        <4>2. CASE q # r
          BY <1>3, <3>3, <4>2
        <4> QED
          BY <4>1, <4>2
      <3> QED
        BY <3>1, <3>2, <3>3
    <2> QED
      BY <2>1, <2>2
  <1> QED
    BY <1>2, <1>4 DEF SummaryMissesOnlyLost, PushedOut

\* What the one that writes the row has listed.
LEMMA UpsertWrites ==
    ASSUME ReviewInv, NEW r \in Req, SummaryUpsert(r)
    PROVE  \E listed \in SUBSET Approved :
              /\ req[r].comment \in listed
              /\ req[r].covers = Prompt(listed)
              /\ MadeFrom(listed)' /\ Covered' = Prompt(listed)
              /\ listed \in SUBSET Comment
              /\ UNCHANGED Approved
  <1>1. PICK q \in Request : q = req[r]
    BY DEF ReviewInv, TypeOK
  <1>2. q.at = "upsert" /\ Good(q)
    BY <1>1 DEF SummaryUpsert, ReviewInv, RequestsGood
  <1>3. PICK listed \in SUBSET Approved :
          /\ q.comment \in listed
          /\ q.covers = Prompt(listed)
          /\ q.count = Cardinality(listed)
    BY <1>2 DEF Good
  <1>4. listed \in SUBSET Comment
    BY RowsAreComments DEF ReviewInv
  <1>5. summary' = [covers |-> Prompt(listed), count |-> Cardinality(listed)]
    BY <1>1, <1>3 DEF SummaryUpsert
  <1>6. summary' \in Summary
    BY <1>3, <1>4, <1>5, CommentSets DEF Summary, Prompt
  <1>7. Covered' = Prompt(listed)
    BY <1>5, <1>6, SummaryAssumption DEF Covered
  <1>8. UNCHANGED Approved
    BY DEF SummaryUpsert, Approved
  <1> QED
    BY <1>1, <1>3, <1>4, <1>5, <1>7, <1>8 DEF MadeFrom

\* Whoever has listed and not written when the row is written is overtaken.
LEMMA UpsertSummaryInv ==
    ASSUME ReviewInv, NEW r \in Req, SummaryUpsert(r)
    PROVE  SummaryInv'
  <1>1. PICK listed \in SUBSET Approved :
          MadeFrom(listed)' /\ UNCHANGED Approved
    BY UpsertWrites
  <1>2. Goto(r, Approval(r))
    BY DEF SummaryUpsert
  <1>3. \A q \in Req \ {r} : req'[q] = req[q]
    BY <1>2 DEF Goto, ReviewInv, TypeOK
  <1>4. req'[r] = Approval(r)
    BY <1>2 DEF Goto, ReviewInv, TypeOK
  <1>5. \A q \in Req \ overtaken' :
          req'[q].at \notin {"summarize", "upsert"}
    BY <1>3, <1>4 DEF SummaryUpsert, Approval
  <1>6. \A q \in Req \ overtaken' : ListsNoLess(req[q], listed)'
    BY <1>5 DEF ListsNoLess
  <1> QED
    BY <1>1, <1>6 DEF SummaryInv

LEMMA UpsertMissesOnlyLost ==
    ASSUME ReviewInv, SummaryMissesOnlyLost, NEW r \in Req, SummaryUpsert(r)
    PROVE  SummaryMissesOnlyLost'
  <1>1. PICK listed \in SUBSET Approved :
          /\ req[r].comment \in listed
          /\ req[r].covers = Prompt(listed)
          /\ Covered' = Prompt(listed)
          /\ listed \in SUBSET Comment
          /\ UNCHANGED Approved
    BY UpsertWrites
  <1>2. Covered' \subseteq Approved'
    BY <1>1 DEF Prompt
  <1>3. lost' = (lost \cup {c \in Heeded : ~ PushedOut(c, Prompt(listed))})
                  \ Prompt(listed)
    BY <1>1 DEF SummaryUpsert
  <1>4. \A q \in Req \ {r} : req'[q] = req[q]
    BY DEF SummaryUpsert, Goto, ReviewInv, TypeOK
  <1>5. ASSUME NEW c \in Approved' \ (Covered' \cup lost')
        PROVE  \/ PushedOut(c, Covered')
               \/ \E q \in Req : req'[q].at \in Regenerating
                                   /\ req'[q].comment = c
    <2>1. c \in Approved /\ c \notin Prompt(listed) /\ c \notin lost
      BY <1>1, <1>3, <1>5
    <2>2. CASE c \in Heeded
      BY <1>1, <1>3, <1>5, <2>1, <2>2
    <2>3. CASE c \notin Heeded
      <3>1. c \notin Covered /\ ~ PushedOut(c, Covered)
        BY <2>1, <2>3 DEF Heeded
      <3>2. PICK q \in Req : req[q].at \in Regenerating /\ req[q].comment = c
        BY <2>1, <3>1 DEF SummaryMissesOnlyLost
      <3>3. CASE q = r
        <4>1. c \in listed \ Prompt(listed)
          BY <1>1, <2>1, <3>2, <3>3
        <4>2. PushedOut(c, Prompt(listed))
          BY <1>1, <4>1, PromptPushesOut
        <4> QED
          BY <1>1, <4>2
      <3>4. CASE q # r
        BY <1>4, <3>2, <3>4
      <3> QED
        BY <3>3, <3>4
    <2> QED
      BY <2>2, <2>3
  <1> QED
    BY <1>2, <1>5 DEF SummaryMissesOnlyLost, PushedOut

LEMMA SummaryStep ==
    ASSUME IInv, [Next]_vars
    PROVE  SummaryInv' /\ SummaryMissesOnlyLost'
  <1> USE DEF IInv
  <1>1. ReviewInv' /\ StatusStands
    BY ReviewInvStep
  <1>2. ASSUME NEW r \in Req, \E s : KeepsSummary(r, s)
        PROVE  SummaryInv' /\ SummaryMissesOnlyLost'
    BY <1>1, <1>2, KeptSummaryInv, KeptMissesOnlyLost
  <1>3. ASSUME NEW r \in Req, SummaryUpsert(r)
        PROVE  SummaryInv' /\ SummaryMissesOnlyLost'
    BY <1>3, UpsertSummaryInv, UpsertMissesOnlyLost
  <1>4. ASSUME NEW r \in Req,
               Review(r) \/ Regenerate(r) \/ Vote(r) \/ List(r) \/ Abandon(r)
        PROVE  SummaryInv' /\ SummaryMissesOnlyLost'
    BY <1>2, <1>3, <1>4, ReviewKeeps, RegenerateKeeps, VoteKeeps, ListKeeps,
       AbandonKeeps
  \* The steps of nobody's request.
  <1>5. ASSUME UNCHANGED <<summary, req, lost, overtaken>>,
               Approved' = Approved
        PROVE  SummaryInv' /\ SummaryMissesOnlyLost'
    <2>1. Covered' = Covered
      BY <1>5 DEF Covered
    <2>2. SummaryMissesOnlyLost'
      BY <1>5, <2>1 DEF SummaryMissesOnlyLost, PushedOut
    <2>3. SummaryInv'
      BY <1>5 DEF SummaryInv, MadeFrom, ListsNoLess
    <2> QED
      BY <2>2, <2>3
  <1>6. CASE \/ UNCHANGED vars
             \/ \E authored \in SUBSET Comment : Attend(authored)
    <2>1. UNCHANGED <<comments, summary, req, lost, overtaken>>
      BY <1>6 DEF vars, tables, Attend
    <2> QED
      BY <1>5, <2>1 DEF Approved
  <1>7. CASE CreateComment
    <2> DEFINE row == [status |-> "pending", version |-> 1]
    <2>1. /\ comments \in Seq(Row) /\ comments' = Append(comments, row)
          /\ UNCHANGED <<summary, req, lost, overtaken>>
      BY <1>7 DEF CreateComment, ReviewInv, TypeOK
    <2>2. row \in Row
      BY DEF Row
    <2>3. /\ DOMAIN comments' = 1 .. (Len(comments) + 1)
          /\ DOMAIN comments = 1 .. Len(comments)
          /\ \A c \in DOMAIN comments : comments'[c] = comments[c]
          /\ comments'[Len(comments) + 1] = row
          /\ Len(comments) \in Nat
      BY <2>1, <2>2
    <2>4. \A c \in DOMAIN comments' \ DOMAIN comments : comments'[c] = row
      BY <2>3
    <2>5. DOMAIN comments \subseteq DOMAIN comments'
      BY <2>3
    <2>6. Approved' = Approved
      BY <2>3, <2>4, <2>5 DEF Approved
    <2> QED
      BY <1>5, <2>1, <2>6
  <1> QED
    BY <1>4, <1>6, <1>7 DEF Next

-----------------------------------------------------------------------------
(* The theorems *)

LEMMA InitIInv == Init => IInv
<1> SUFFICES ASSUME Init PROVE IInv
  OBVIOUS
<1>1. /\ comments = <<>> /\ DOMAIN comments = {} /\ Approved = {}
  BY DEF Init, Approved
<1>2. TypeOK
  <2>1. comments \in Seq(Row) /\ Len(comments) <= MaxComments
    BY <1>1, CommentsAssumption
  <2>2. req \in [Req -> Request]
    BY IdleIsRequest DEF Init
  <2> QED
    BY <2>1, <2>2 DEF Init, TypeOK
<1>3. RequestsGood
  BY IdleIsRequest DEF Init, RequestsGood, Good, Regenerating
<1>4. ReviewedOnce /\ NoticesTrue /\ VotesOnVisible
  BY <1>1 DEF Init, ReviewedOnce, NoticesTrue, VotesOnVisible
<1>5. SummaryInv /\ SummaryMissesOnlyLost
  BY <1>1 DEF Init, SummaryInv, SummaryMissesOnlyLost, Covered
<1> QED
  BY <1>2, <1>3, <1>4, <1>5 DEF IInv, ReviewInv

LEMMA IInvStep == IInv /\ [Next]_vars => IInv'
<1> SUFFICES ASSUME IInv, [Next]_vars PROVE IInv'
  OBVIOUS
<1>1. ReviewInv'
  BY ReviewInvStep DEF IInv
<1> QED
  BY <1>1, SummaryStep DEF IInv

\* The inductive invariant: what each request owes to the checks it has made,
\* and which comments the summary was made from.
THEOREM Invariant == Spec => []IInv
  BY InitIInv, IInvStep, PTL DEF Spec

\* Every variable keeps its type: among them the version, which no review
\* bumps twice, and the list, which sorting finds.
THEOREM TypeCorrect == Spec => []TypeOK
<1>1. IInv => TypeOK
  BY DEF IInv, ReviewInv
<1> QED
  BY <1>1, Invariant, PTL

\* Whoever votes, votes on a comment that is approved, also when the vote is
\* written long after it was checked.
THEOREM VotesAreOnVisible == Spec => []VotesOnVisible
<1>1. IInv => VotesOnVisible
  BY DEF IInv, ReviewInv
<1> QED
  BY <1>1, Invariant, PTL

\* An author is told the verdict that stands, however many moderators review
\* the comment at once.
THEOREM NoticesAreTrue == Spec => []VerdictNoticesTrue
<1>1. IInv => VerdictNoticesTrue
  BY DEF IInv, ReviewInv, NoticesTrue, VerdictNoticesTrue
<1> QED
  BY <1>1, Invariant, PTL

\* What the summary misses has given way to newer comments, is about to be
\* written, or was lost to a failure or to one that had listed less.
THEOREM SummaryMisses == Spec => []SummaryMissesOnlyLost
<1>1. IInv => SummaryMissesOnlyLost
  BY DEF IInv
<1> QED
  BY <1>1, Invariant, PTL

\* Whoever reads the list sees votes before attendance, and attendance before
\* the date.
THEOREM ListIsRanked == Spec => []RankedByVotesFirst
<1>1. IInv => RankedByVotesFirst
  <2> SUFFICES ASSUME IInv, NEW r \in Req, req[r].at = "return",
                      NEW i \in DOMAIN req[r].shown,
                      NEW j \in DOMAIN req[r].shown, i < j
               PROVE  LET e == req[r].shown[i]
                          f == req[r].shown[j]
                          net(x) == x.up - x.down
                      IN  \/ net(e) > net(f)
                          \/ /\ net(e) = net(f)
                             /\ f.verified => e.verified
                             /\ e.verified = f.verified =>
                                  e.comment > f.comment
    BY DEF RankedByVotesFirst
  <2>1. PICK q \in Request : q = req[r]
    BY DEF IInv, ReviewInv, TypeOK
  <2>2. q.at = "return" /\ q.shown \in Seq(Ranked) /\ InOrder(q.shown)
    BY <2>1, Fields DEF IInv, ReviewInv, RequestsGood, Good
  <2>3. PICK e \in Ranked : e = q.shown[i]
    BY <2>1, <2>2
  <2>4. PICK f \in Ranked : f = q.shown[j]
    BY <2>1, <2>2
  <2>5. RanksBefore(e, f)
    BY <2>1, <2>2, <2>3, <2>4 DEF InOrder
  <2>6. \/ e.up - e.down > f.up - f.down
        \/ /\ e.up - e.down = f.up - f.down
           /\ f.verified => e.verified
           /\ e.verified = f.verified => e.comment > f.comment
    BY <2>5, RankingIsByVotes
  <2> QED
    BY <2>1, <2>3, <2>4, <2>6
<1> QED
  BY <1>1, Invariant, PTL

\* One that nobody has overtaken has listed all that the summary was made from.
LEMMA ShrinksOnlyOvertakenStep ==
    ASSUME IInv, [Next]_vars, summary # NotYet,
           ~ \E r \in overtaken : req[r].at = "upsert" /\ SummaryUpsert(r)
    PROVE  /\ summary'.count >= summary.count
           /\ \A c \in Covered \ Covered' : PushedOut(c, Covered')
  <1> USE DEF IInv
  <1>1. CASE \E r \in Req : SummaryUpsert(r)
    <2>1. PICK r \in Req : SummaryUpsert(r)
      BY <1>1
    <2>2. req[r].at = "upsert" /\ r \in Req \ overtaken
      BY <2>1 DEF SummaryUpsert
    <2>3. PICK listed \in SUBSET Approved :
            MadeFrom(listed) /\ ListsNoLess(req[r], listed)
      BY <2>2 DEF SummaryInv
    <2>4. PICK later \in SUBSET Approved :
            /\ listed \subseteq later
            /\ req[r].covers = Prompt(later)
            /\ req[r].count = Cardinality(later)
      BY <2>2, <2>3 DEF ListsNoLess
    <2>5. listed \in SUBSET Comment /\ later \in SUBSET Comment
      BY RowsAreComments DEF ReviewInv
    <2>6. summary' = [covers |-> Prompt(later), count |-> Cardinality(later)]
      BY <2>1, <2>4 DEF SummaryUpsert
    <2>7. summary' \in Summary
      BY <2>5, <2>6, CommentSets DEF Summary, Prompt
    <2>8. Covered' = Prompt(later)
      BY <2>6, <2>7, SummaryAssumption DEF Covered
    <2>9. Covered \subseteq listed /\ summary.count = Cardinality(listed)
      BY <2>3 DEF MadeFrom, Covered, Prompt
    <2>10. /\ Cardinality(listed) <= Cardinality(later)
           /\ Cardinality(listed) \in Nat /\ Cardinality(later) \in Nat
      BY <2>4, <2>5, CommentSets
    <2>11. summary'.count >= summary.count
      BY <2>6, <2>9, <2>10
    <2>12. ASSUME NEW c \in Covered, c \notin Prompt(later)
           PROVE  PushedOut(c, Prompt(later))
      BY <2>4, <2>5, <2>9, <2>12, PromptPushesOut
    <2> QED
      BY <2>8, <2>11, <2>12
  <1>2. CASE ~ \E r \in Req : SummaryUpsert(r)
    <2>1. UNCHANGED summary
      <3>1. ASSUME NEW r \in Req, \E s : KeepsSummary(r, s)
            PROVE  UNCHANGED summary
        BY <3>1 DEF KeepsSummary
      <3>2. ASSUME NEW r \in Req, Review(r) \/ Regenerate(r) \/ Vote(r)
                                    \/ List(r) \/ Abandon(r)
            PROVE  UNCHANGED summary
        BY <1>2, <3>1, <3>2, ReviewKeeps, RegenerateKeeps, VoteKeeps,
           ListKeeps, AbandonKeeps
      <3> QED
        BY <3>2 DEF Next, vars, tables, CreateComment, Attend
    <2>2. summary.count \in Int
      BY DEF ReviewInv, TypeOK, Summary
    <2> QED
      BY <2>1, <2>2 DEF Covered
  <1> QED
    BY <1>1, <1>2

\* The count never falls and the summary loses a comment to newer ones only,
\* unless one that was overtaken writes it.
THEOREM SummaryShrinks == Spec => SummaryShrinksOnlyOvertaken
<1>1. IInv /\ [Next]_vars =>
        [\/ summary = NotYet
         \/ /\ summary'.count >= summary.count
            /\ \A c \in Covered \ Covered' : PushedOut(c, Covered')
         \/ \E r \in overtaken : req[r].at = "upsert" /\ SummaryUpsert(r)]_vars
  BY ShrinksOnlyOvertakenStep
<1> QED
  BY <1>1, Invariant, PTL DEF Spec, SummaryShrinksOnlyOvertaken
=============================================================================
