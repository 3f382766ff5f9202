-------------------------- MODULE HotArticlesProofs --------------------------
(***************************************************************************)
(* The likes of the board, and the job of the hot articles beside its      *)
(* requests, for every number of users, articles, requests and runs.       *)
(***************************************************************************)
EXTENDS HotArticles, FiniteSetTheorems, TLAPS

\* A request in progress, as far as the proofs need it.
JobTyped == DOMAIN job = Jobs /\ \A j \in Jobs : job[j] # NoJob => job[j] \in Job

LEMMA GotoTyped ==
  ASSUME JobTyped, NEW j \in Jobs, job[j] # NoJob,
         NEW pc \in {"read", "write", "insert", "setUp", "setDown", "unhot"}, Goto(j, pc)
  PROVE  /\ JobTyped'
         /\ job'[j] # NoJob /\ job'[j].pc = pc
         /\ job'[j].kind = job[j].kind /\ job'[j].user = job[j].user
         /\ job'[j].target = job[j].target
         /\ \A i \in Jobs \ {j} : job'[i] = job[i]
BY DEF JobTyped, Goto, Job, NoJob, Kinds

LEMMA AnswerTyped ==
  ASSUME JobTyped, NEW j \in Jobs, Answer(j)
  PROVE  JobTyped' /\ job'[j] = NoJob /\ \A i \in Jobs \ {j} : job'[i] = job[i]
BY DEF JobTyped, Answer

LEMMA StartTyped ==
  ASSUME JobTyped, NEW j \in Jobs, NEW kind \in Kinds, NEW u \in Users, NEW t \in Nat,
         NEW x \in Texts \cup {Null}, Start(j, kind, u, t, x)
  PROVE  /\ JobTyped'
         /\ job[j] = NoJob /\ job'[j] # NoJob
         /\ job'[j].kind = kind /\ job'[j].user = u /\ job'[j].target = t
         /\ job'[j].pc = "read"
         /\ \A i \in Jobs \ {j} : job'[i] = job[i]
BY DEF JobTyped, Start, Job, NoJob, Kinds

\* The statements that neither like nor delete an article nor take it from the hot
\* ones: they write other tables.
Plain(j) ==
    /\ job[j].kind # "like" /\ job[j].pc # "unhot"
    /\ UNCHANGED <<ups, downs, deleted, hot>>
    /\ Answer(j) \/ Goto(j, "write")

LEMMA Statements ==
  ASSUME NEW j \in Jobs, Statement(j)
  PROVE  /\ job[j] # NoJob
         /\ UNCHANGED <<calm, requests, failures>>
         /\ \/ MarkDeleted(j) \/ DeleteHotArticle(j) \/ FindLike(j) \/ InsertLike(j)
            \/ ToggleLike(j) \/ Plain(j)
<1> USE DEF Keep, bounds, At
<1> USE DEF articleRows, commentRows, likeRows, windows
<1>1. CASE CheckDuplicateRequest(j)
  BY <1>1 DEF CheckDuplicateRequest, Plain, KeepRows
<1>2. CASE InsertArticle(j)
  BY <1>2 DEF InsertArticle, Plain
<1>3. CASE FindArticle(j)
  BY <1>3 DEF FindArticle, Plain, KeepRows
<1>4. CASE EditArticle(j)
  BY <1>4 DEF EditArticle, Plain
<1>5. CASE MarkDeleted(j) \/ DeleteHotArticle(j)
  BY <1>5 DEF MarkDeleted, DeleteHotArticle
<1>6. CASE CheckDuplicateComment(j)
  BY <1>6 DEF CheckDuplicateComment, Plain, KeepRows
<1>7. CASE InsertComment(j)
  BY <1>7 DEF InsertComment, Plain
<1>8. CASE FindComment(j)
  BY <1>8 DEF FindComment, Plain, KeepRows
<1>9. CASE EditComment(j)
  BY <1>9 DEF EditComment, Plain
<1>10. CASE RemoveComment(j)
  BY <1>10 DEF RemoveComment, Plain
<1>11. CASE FindLike(j) \/ InsertLike(j) \/ ToggleLike(j)
  BY <1>11 DEF FindLike, InsertLike, ToggleLike
<1> QED
  BY <1>1, <1>2, <1>3, <1>4, <1>5, <1>6, <1>7, <1>8, <1>9, <1>10, <1>11 DEF Statement

\* A request names an article, or a comment, that there is.
Addressed(kind, t) ==
    /\ kind = "like" => t \in Articles
    /\ kind \in {"edit", "delete"} => t \in Posted
    /\ kind \in {"editComment", "deleteComment"} => t \in Said

\* The requests that arrive.
LEMMA Arrivals ==
  ASSUME BoardNext
  PROVE  \/ \E j \in Jobs, kind \in Kinds, u \in Users, t \in Nat, x \in Texts \cup {Null} :
              /\ Start(j, kind, u, t, x)
              /\ Addressed(kind, t)
         \/ \E j \in Jobs : Statement(j) \/ JobFails(j)
         \/ LapseArticle \/ LapseComment
<1> USE DEF Kinds, Articles, Comments, Addressed
<1>1. ASSUME NEW j \in Jobs, NEW u \in Users, NEW x \in Texts, CreateArticle(j, u, x)
      PROVE  Start(j, "post", u, 0, x) /\ Addressed("post", 0)
  BY <1>1 DEF CreateArticle
<1>2. ASSUME NEW j \in Jobs, NEW u \in Users, NEW a \in Articles, DeleteArticle(j, u, a)
      PROVE  Start(j, "delete", u, a, Null) /\ Addressed("delete", a)
  BY <1>2 DEF DeleteArticle
<1>3. ASSUME NEW j \in Jobs, NEW u \in Users, NEW a \in Articles, UpdateLikeCount(j, u, a)
      PROVE  Start(j, "like", u, a, Null) /\ Addressed("like", a)
  BY <1>3 DEF UpdateLikeCount
<1>4. ASSUME NEW j \in Jobs, NEW u \in Users, NEW a \in Articles, NEW x \in Texts,
             UpdateArticle(j, u, a, x)
      PROVE  Start(j, "edit", u, a, x) /\ Addressed("edit", a)
  BY <1>4 DEF UpdateArticle
<1>5. ASSUME NEW j \in Jobs, NEW u \in Users, NEW a \in Articles, NEW x \in Texts,
             CreateComment(j, u, a, x)
      PROVE  Start(j, "comment", u, a, x) /\ Addressed("comment", a)
  BY <1>5 DEF CreateComment
<1>6. ASSUME NEW j \in Jobs, NEW u \in Users, NEW k \in Comments, DeleteComment(j, u, k)
      PROVE  Start(j, "deleteComment", u, k, Null) /\ Addressed("deleteComment", k)
  BY <1>6 DEF DeleteComment
<1>7. ASSUME NEW j \in Jobs, NEW u \in Users, NEW k \in Comments, NEW x \in Texts,
             UpdateComment(j, u, k, x)
      PROVE  Start(j, "editComment", u, k, x) /\ Addressed("editComment", k)
  BY <1>7 DEF UpdateComment
<1>8. \A a \in Articles \cup Comments \cup {0} : a \in Nat
  BY BoardAssumption
<1>9. /\ "post" \in Kinds /\ "delete" \in Kinds /\ "edit" \in Kinds /\ "comment" \in Kinds
      /\ "deleteComment" \in Kinds /\ "editComment" \in Kinds /\ "like" \in Kinds
  OBVIOUS
<1> HIDE DEF Kinds, Articles, Comments, Addressed
<1> QED
  BY <1>1, <1>2, <1>3, <1>4, <1>5, <1>6, <1>7, <1>8, <1>9 DEF BoardNext

-----------------------------------------------------------------------------
(* Likes *)

Liking(j, u) == job[j] # NoJob /\ job[j].kind = "like" /\ job[j].user = u

\* A calm user likes in one request at a time: what it has read is still true when
\* it inserts.
LikesTyped ==
    /\ calm \subseteq Users
    /\ ups \in [Users -> [Articles -> Nat]] /\ downs \in [Users -> [Articles -> Nat]]
    /\ \A j \in Jobs, u \in Users : Liking(j, u) => job[j].target \in Articles

Solitary == \A u \in calm, i, j \in Jobs : Liking(i, u) /\ Liking(j, u) => i = j

StillUnliked ==
    \A u \in calm, j \in Jobs : Liking(j, u) /\ job[j].pc = "insert"
      => ups[u][job[j].target] + downs[u][job[j].target] = 0

LikeInv == JobTyped /\ LikesTyped /\ Solitary /\ StillUnliked /\ LikersCountOnce

\* Whatever lets the likes alone and starts none.
LEMMA LikeQuiet ==
  ASSUME LikeInv, JobTyped', UNCHANGED <<ups, downs>>, calm' \subseteq calm,
         \A j \in Jobs : \/ job'[j] = NoJob \/ job'[j] = job[j]
                          \/ job'[j].kind # "like"
  PROVE  LikeInv'
<1>1. \A j \in Jobs, u \in Users : Liking(j, u)' => Liking(j, u) /\ job'[j] = job[j]
  BY DEF Liking
<1> QED BY <1>1 DEF LikeInv, LikesTyped, Solitary, StillUnliked, LikersCountOnce

LEMMA LikeStart ==
  ASSUME LikeInv, NEW j \in Jobs, NEW kind \in Kinds, NEW u \in Users, NEW t \in Nat,
         NEW x \in Texts \cup {Null}, Start(j, kind, u, t, x), kind = "like" => t \in Articles
  PROVE  LikeInv'
<1>1. /\ JobTyped'
      /\ job[j] = NoJob /\ job'[j] # NoJob
      /\ job'[j].kind = kind /\ job'[j].user = u /\ job'[j].target = t
      /\ job'[j].pc = "read"
      /\ \A i \in Jobs \ {j} : job'[i] = job[i]
  BY StartTyped DEF LikeInv
<1>2. UNCHANGED <<ups, downs>> /\ calm' \subseteq calm
  BY DEF Start, likeRows
<1>3. CASE kind # "like"
  BY <1>1, <1>2, <1>3, LikeQuiet
<1>4. CASE kind = "like"
  <2>1. \A i \in Jobs, v \in Users : i # j => (Liking(i, v)' <=> Liking(i, v))
    BY <1>1 DEF Liking
  <2>2. \A v \in Users : Liking(j, v)' => v = u
    BY <1>1 DEF Liking
  <2>3. \A i \in Jobs : Liking(i, u) => u \notin calm'
    BY DEF Liking, Start, Concerned
  <2>4. calm' \subseteq Users
    BY <1>2 DEF LikeInv, LikesTyped
  <2>5. Solitary'
    BY <1>2, <2>1, <2>2, <2>3, <2>4 DEF LikeInv, Solitary
  <2>6. LikesTyped'
    BY <1>1, <1>2, <1>4, <2>1, <2>4 DEF LikeInv, LikesTyped
  <2>7. StillUnliked'
    <3> SUFFICES ASSUME NEW v \in calm', NEW i \in Jobs, Liking(i, v)', job'[i].pc = "insert"
                 PROVE  ups[v][job'[i].target] + downs[v][job'[i].target] = 0
      BY <1>2 DEF StillUnliked
    <3>1. i # j
      BY <1>1
    <3>2. Liking(i, v) /\ job'[i] = job[i] /\ v \in calm
      BY <1>1, <1>2, <2>1, <2>4, <3>1
    <3> QED BY <3>2 DEF LikeInv, StillUnliked
  <2> QED BY <1>1, <1>2, <2>5, <2>6, <2>7 DEF LikeInv, LikersCountOnce
<1> QED BY <1>3, <1>4

LEMMA LikeFind ==
  ASSUME LikeInv, NEW j \in Jobs, FindLike(j), UNCHANGED calm
  PROVE  LikeInv'
<1> DEFINE u == job[j].user  a == job[j].target
<1>1. UNCHANGED <<ups, downs>>
  BY DEF FindLike, KeepRows, likeRows
<1>2. /\ job[j] # NoJob /\ job[j].kind = "like" /\ u \in Users
      /\ Liking(j, u) /\ a \in Articles
  BY DEF FindLike, At, LikeInv, LikesTyped, JobTyped, Job, Liking
<1>3. PICK pc \in {"insert", "setUp", "setDown"} :
        Goto(j, pc) /\ (pc = "insert" => ups[u][a] + downs[u][a] = 0)
  BY DEF FindLike
<1>4. /\ JobTyped'
      /\ job'[j] # NoJob /\ job'[j].pc = pc
      /\ job'[j].kind = job[j].kind /\ job'[j].user = u /\ job'[j].target = a
      /\ \A i \in Jobs \ {j} : job'[i] = job[i]
  BY <1>2, <1>3, GotoTyped DEF LikeInv
<1> HIDE DEF u, a
<1>5. \A i \in Jobs, v \in Users : Liking(i, v)' <=> Liking(i, v)
  BY <1>2, <1>4 DEF Liking, u
<1>6. LikesTyped' /\ Solitary'
  BY <1>1, <1>2, <1>4, <1>5 DEF LikeInv, LikesTyped, Solitary
<1>7. StillUnliked'
  <2> SUFFICES ASSUME NEW v \in calm, NEW i \in Jobs, Liking(i, v)', job'[i].pc = "insert"
               PROVE  ups[v][job'[i].target] + downs[v][job'[i].target] = 0
    BY <1>1 DEF StillUnliked
  <2>1. CASE i = j
    <3>1. v = u
      BY <1>4, <2>1 DEF Liking
    <3> QED BY <1>3, <1>4, <2>1, <3>1
  <2>2. CASE i # j
    <3>1. v \in Users
      BY DEF LikeInv, LikesTyped
    <3> QED BY <1>4, <1>5, <2>2, <3>1 DEF LikeInv, StillUnliked
  <2> QED BY <2>1, <2>2
<1> QED BY <1>1, <1>4, <1>6, <1>7 DEF LikeInv, LikersCountOnce

LEMMA LikeInsert ==
  ASSUME LikeInv, NEW j \in Jobs, InsertLike(j), UNCHANGED calm
  PROVE  LikeInv'
<1> DEFINE u == job[j].user  a == job[j].target
<1>1. /\ ups' = [ups EXCEPT ![u][a] = @ + 1]
      /\ UNCHANGED downs
  BY DEF InsertLike
<1>2. /\ Liking(j, u) /\ u \in Users /\ a \in Articles /\ job[j].pc = "insert"
  BY DEF InsertLike, At, LikeInv, LikesTyped, JobTyped, Job, Liking
<1>3. JobTyped' /\ job'[j] = NoJob /\ \A i \in Jobs \ {j} : job'[i] = job[i]
  BY AnswerTyped DEF InsertLike, LikeInv
<1>4. u \in calm => ups[u][a] + downs[u][a] = 0
  BY <1>2 DEF LikeInv, StillUnliked
<1> HIDE DEF u, a
<1>5. \A i \in Jobs, v \in Users : Liking(i, v)' => Liking(i, v) /\ job'[i] = job[i] /\ i # j
  BY <1>3 DEF Liking
<1>6. ups' \in [Users -> [Articles -> Nat]]
  BY <1>1, <1>2 DEF LikeInv, LikesTyped
<1>7. /\ \A v \in Users \ {u} : ups'[v] = ups[v]
      /\ \A b \in Articles \ {a} : ups'[u][b] = ups[u][b]
      /\ ups'[u][a] = ups[u][a] + 1
  BY <1>1, <1>2 DEF LikeInv, LikesTyped
<1>8. \A i \in Jobs, v \in calm : v = u => ~Liking(i, v)'
  BY <1>2, <1>5 DEF LikeInv, LikesTyped, Solitary
<1>9. LikersCountOnce'
  <2> SUFFICES ASSUME NEW v \in calm, NEW b \in Articles  PROVE ups'[v][b] + downs[v][b] <= 1
    BY <1>1 DEF LikersCountOnce
  <2>1. ups[v][b] \in Nat /\ downs[v][b] \in Nat /\ ups[v][b] + downs[v][b] <= 1 /\ v \in Users
    BY DEF LikeInv, LikesTyped, LikersCountOnce
  <2> QED BY <1>2, <1>4, <1>7, <2>1
<1>10. StillUnliked'
  <2> SUFFICES ASSUME NEW v \in calm, NEW i \in Jobs, Liking(i, v)', job'[i].pc = "insert"
               PROVE  ups'[v][job'[i].target] + downs[v][job'[i].target] = 0
    BY <1>1 DEF StillUnliked
  <2>1. v \in Users /\ v # u
    BY <1>8 DEF LikeInv, LikesTyped
  <2>2. Liking(i, v) /\ job'[i] = job[i] /\ ups'[v] = ups[v]
    BY <1>5, <1>7, <2>1
  <2> QED BY <2>2 DEF LikeInv, StillUnliked
<1>11. LikesTyped' /\ Solitary'
  BY <1>1, <1>5, <1>6 DEF LikeInv, LikesTyped, Solitary
<1> QED BY <1>3, <1>9, <1>10, <1>11 DEF LikeInv

LEMMA LikeToggle ==
  ASSUME LikeInv, NEW j \in Jobs, ToggleLike(j), UNCHANGED calm
  PROVE  LikeInv'
<1> DEFINE u == job[j].user  a == job[j].target  n == ups[u][a] + downs[u][a]
<1>1. \/ ups' = [ups EXCEPT ![u][a] = n] /\ downs' = [downs EXCEPT ![u][a] = 0]
      \/ ups' = [ups EXCEPT ![u][a] = 0] /\ downs' = [downs EXCEPT ![u][a] = n]
  BY DEF ToggleLike
<1>2. /\ Liking(j, u) /\ u \in Users /\ a \in Articles
  BY DEF ToggleLike, At, LikeInv, LikesTyped, JobTyped, Job, Liking
<1>3. JobTyped' /\ job'[j] = NoJob /\ \A i \in Jobs \ {j} : job'[i] = job[i]
  BY AnswerTyped DEF ToggleLike, LikeInv
<1>4. /\ ups[u][a] \in Nat /\ downs[u][a] \in Nat
      /\ n = ups[u][a] + downs[u][a] /\ n \in Nat
  BY <1>2 DEF LikeInv, LikesTyped
<1> HIDE DEF u, a, n
<1>5. ups \in [Users -> [Articles -> Nat]] /\ downs \in [Users -> [Articles -> Nat]]
  BY DEF LikeInv, LikesTyped
<1>6. \A i \in Jobs, v \in Users : Liking(i, v)' => Liking(i, v) /\ job'[i] = job[i]
  BY <1>3 DEF Liking
<1>7. ups' \in [Users -> [Articles -> Nat]] /\ downs' \in [Users -> [Articles -> Nat]]
  <2>1. ASSUME NEW m \in Nat
        PROVE  /\ [ups EXCEPT ![u][a] = m] \in [Users -> [Articles -> Nat]]
               /\ [downs EXCEPT ![u][a] = m] \in [Users -> [Articles -> Nat]]
    BY <1>2, <1>5
  <2>2. 0 \in Nat
    OBVIOUS
  <2> QED BY <1>1, <1>4, <2>1, <2>2
<1>8. /\ \A v \in Users \ {u} : ups'[v] = ups[v] /\ downs'[v] = downs[v]
      /\ \A b \in Articles \ {a} : ups'[u][b] = ups[u][b] /\ downs'[u][b] = downs[u][b]
      /\ ups'[u][a] + downs'[u][a] = n
  BY <1>1, <1>2, <1>4, <1>5
<1>9. \A v \in Users, b \in Articles : ups'[v][b] + downs'[v][b] = ups[v][b] + downs[v][b]
  BY <1>4, <1>8
<1>10. LikesTyped' /\ Solitary'
  BY <1>6, <1>7 DEF LikeInv, LikesTyped, Solitary
<1>11. StillUnliked'
  <2> SUFFICES ASSUME NEW v \in calm, NEW i \in Jobs, Liking(i, v)', job'[i].pc = "insert"
               PROVE  ups'[v][job'[i].target] + downs'[v][job'[i].target] = 0
    BY DEF StillUnliked
  <2>1. v \in Users
    BY DEF LikeInv, LikesTyped
  <2>2. Liking(i, v) /\ job'[i] = job[i] /\ job[i].target \in Articles
    BY <1>6, <2>1 DEF LikeInv, LikesTyped
  <2>3. ups[v][job[i].target] + downs[v][job[i].target] = 0
    BY <2>2 DEF LikeInv, StillUnliked
  <2> QED BY <1>9, <2>1, <2>2, <2>3
<1>12. LikersCountOnce'
  <2>1. calm \subseteq Users
    BY DEF LikeInv, LikesTyped
  <2> QED BY <1>9, <2>1 DEF LikeInv, LikersCountOnce
<1> QED BY <1>3, <1>10, <1>11, <1>12 DEF LikeInv

LEMMA LikeNext == LikeInv /\ [BoardNext]_boardVars => LikeInv'
<1> SUFFICES ASSUME LikeInv, [BoardNext]_boardVars  PROVE LikeInv'
  OBVIOUS
<1>1. ASSUME NEW j \in Jobs, Statement(j)  PROVE LikeInv'
  <2>1. CASE FindLike(j) \/ InsertLike(j) \/ ToggleLike(j)
    BY <1>1, <2>1, Statements, LikeFind, LikeInsert, LikeToggle
  <2>2. CASE MarkDeleted(j)
    <3>1. JobTyped' /\ job'[j].kind # "like" /\ \A i \in Jobs \ {j} : job'[i] = job[i]
      BY <2>2, GotoTyped DEF MarkDeleted, At, LikeInv
    <3>2. UNCHANGED <<ups, downs, calm>>
      BY <2>2 DEF MarkDeleted, likeRows, Keep
    <3> QED BY <3>1, <3>2, LikeQuiet
  <2>3. CASE DeleteHotArticle(j)
    <3>1. JobTyped' /\ job'[j] = NoJob /\ \A i \in Jobs \ {j} : job'[i] = job[i]
      BY <2>3, AnswerTyped DEF DeleteHotArticle, LikeInv
    <3>2. UNCHANGED <<ups, downs, calm>>
      BY <2>3 DEF DeleteHotArticle, likeRows, Keep
    <3> QED BY <3>1, <3>2, LikeQuiet
  <2>4. CASE Plain(j)
    <3>1. job[j] # NoJob /\ UNCHANGED <<ups, downs, calm>> /\ job[j].kind # "like"
      BY <1>1, <2>4, Statements DEF Plain
    <3>2. CASE Answer(j)
      BY <3>1, <3>2, AnswerTyped, LikeQuiet DEF LikeInv
    <3>3. CASE Goto(j, "write")
      BY <3>1, <3>3, GotoTyped, LikeQuiet DEF LikeInv
    <3> QED BY <2>4, <3>2, <3>3 DEF Plain
  <2> QED BY <1>1, <2>1, <2>2, <2>3, <2>4, Statements
<1>2. ASSUME NEW j \in Jobs, JobFails(j)  PROVE LikeInv'
  <2>1. JobTyped' /\ job'[j] = NoJob /\ \A i \in Jobs \ {j} : job'[i] = job[i]
    BY <1>2, AnswerTyped DEF JobFails, LikeInv
  <2>2. UNCHANGED <<ups, downs, calm>>
    BY <1>2 DEF JobFails, KeepRows, likeRows
  <2> QED BY <2>1, <2>2, LikeQuiet
<1>3. ASSUME UNCHANGED <<job, ups, downs, calm>>  PROVE LikeInv'
  BY <1>3, LikeQuiet DEF LikeInv, JobTyped
<1>4. CASE LapseArticle \/ LapseComment \/ UNCHANGED boardVars
  BY <1>3, <1>4 DEF LapseArticle, LapseComment, boardVars, likeRows
<1> QED BY <1>1, <1>2, <1>4, Arrivals, LikeStart DEF Addressed

LEMMA LikeInit == BoardInit => LikeInv
BY DEF BoardInit, LikeInv, LikesTyped, Solitary, StillUnliked, JobTyped, NoJob, Liking,
       LikersCountOnce

\* However often users like an article and take it back, each counts once at most
\* while no two requests of her are worked on at a time.
THEOREM LikersCount == BoardSpec => []LikersCountOnce
<1>1. LikeInv => LikersCountOnce
  BY DEF LikeInv
<1> QED BY <1>1, LikeInit, LikeNext, PTL DEF BoardSpec

-----------------------------------------------------------------------------
(* The newest of what was written lately. *)

\* Every part of a window has a first and a last element.
Ordered(W) ==
    /\ W \subseteq Nat
    /\ \A S \in SUBSET W : S # {} => /\ \E m \in S : \A y \in S : m >= y
                                     /\ \E m \in S : \A y \in S : m <= y

LEMMA OrderedEmpty == Ordered({})
BY DEF Ordered

LEMMA OrderedPart ==
  ASSUME NEW W, Ordered(W), NEW V \in SUBSET W
  PROVE  Ordered(V)
BY DEF Ordered

LEMMA OrderedMore ==
  ASSUME NEW W, Ordered(W), NEW n \in Nat
  PROVE  Ordered(W \cup {n})
<1>1. ASSUME NEW S \in SUBSET (W \cup {n}), S # {}
      PROVE  /\ \E m \in S : \A y \in S : m >= y
             /\ \E m \in S : \A y \in S : m <= y
  <2>1. W \subseteq Nat /\ S \ {n} \in SUBSET W
    BY DEF Ordered
  <2>2. CASE S \ {n} = {}
    <3>1. S = {n}
      BY <1>1, <2>2
    <3> QED BY <3>1
  <2>3. CASE n \notin S
    <3>1. S \in SUBSET W
      BY <2>3
    <3> QED BY <1>1, <3>1 DEF Ordered
  <2>4. CASE S \ {n} # {} /\ n \in S
    <3>1. PICK p \in S \ {n} : \A y \in S \ {n} : p >= y
      BY <2>1, <2>4 DEF Ordered
    <3>2. PICK q \in S \ {n} : \A y \in S \ {n} : q <= y
      BY <2>1, <2>4 DEF Ordered
    <3>3. p \in Nat /\ q \in Nat /\ \A y \in S : y \in Nat
      BY <2>1, <3>1, <3>2
    <3>4. \A y \in S : y = n \/ y \in S \ {n}
      OBVIOUS
    <3>5. \E m \in S : \A y \in S : m >= y
      <4>1. CASE p >= n
        BY <3>1, <3>3, <3>4, <4>1
      <4>2. CASE n > p
        BY <2>4, <3>1, <3>3, <3>4, <4>2
      <4> QED BY <3>3, <4>1, <4>2
    <3>6. \E m \in S : \A y \in S : m <= y
      <4>1. CASE q <= n
        BY <3>2, <3>3, <3>4, <4>1
      <4>2. CASE n < q
        BY <2>4, <3>2, <3>3, <3>4, <4>2
      <4> QED BY <3>3, <4>1, <4>2
    <3> QED BY <3>5, <3>6
  <2> QED BY <2>2, <2>3, <2>4
<1>2. W \cup {n} \subseteq Nat
  BY DEF Ordered
<1> QED BY <1>1, <1>2 DEF Ordered

LEMMA MaxIn ==
  ASSUME NEW W, Ordered(W), NEW R \in SUBSET W, R # {}
  PROVE  Max(R) \in R /\ \A y \in R : Max(R) >= y
<1>1. \E m \in R : \A y \in R : m >= y
  BY DEF Ordered
<1> QED BY <1>1 DEF Max

LEMMA MinIn ==
  ASSUME NEW W, Ordered(W), W # {}
  PROVE  Min(W) \in W /\ \A y \in W : Min(W) <= y
<1>1. \E m \in W : \A y \in W : m <= y
  BY DEF Ordered
<1> QED BY <1>1 DEF Min

\* What leaves a window first is the newest of a part only if it is all of it.
LEMMA LapseMax ==
  ASSUME NEW W, Ordered(W), NEW R \in SUBSET W, R \ {Min(W)} # {}
  PROVE  Max(R \ {Min(W)}) = Max(R)
<1> DEFINE n == Min(W)  V == R \ {n}
<1>1. n \in W /\ \A y \in W : n <= y
  BY MinIn
<1>2. Max(R) \in R /\ \A y \in R : Max(R) >= y
  BY MaxIn
<1>3. Max(V) \in V /\ \A y \in V : Max(V) >= y
  BY MaxIn
<1> HIDE DEF n
<1>4. \A y \in R : y \in Nat
  BY DEF Ordered
<1>5. n \in Nat
  BY <1>1 DEF Ordered
<1>6. Max(R) # n
  <2>1. Max(V) >= n /\ Max(V) # n /\ Max(R) >= Max(V)
    BY <1>1, <1>2, <1>3, <1>4, <1>5
  <2> QED BY <1>2, <1>3, <1>4, <1>5, <2>1
<1>7. Max(R) \in V
  BY <1>2, <1>6
<1>8. Max(V) >= Max(R) /\ Max(R) >= Max(V)
  BY <1>2, <1>3, <1>7
<1>9. Max(V) = Max(R)
  BY <1>2, <1>3, <1>4, <1>8
<1> QED BY <1>9 DEF n

\* What user u wrote within the window, and that x differs from the newest of it.
Newest(win, who, gone, u) == {a \in win : who[a] = u /\ ~gone[a]}
Differs(win, who, what, gone, u, x) ==
    Newest(win, who, gone, u) # {} => what[Max(Newest(win, who, gone, u))] # x

LEMMA DiffersSame ==
  ASSUME NEW win, NEW who, NEW what, NEW gone, NEW win2, NEW who2, NEW what2, NEW gone2,
         NEW u, NEW x, Ordered(win),
         \A a : (a \in win2 /\ who2[a] = u) <=> (a \in win /\ who[a] = u),
         \A a \in win : who[a] = u => what2[a] = what[a] /\ gone2[a] = gone[a],
         Differs(win, who, what, gone, u, x)
  PROVE  Differs(win2, who2, what2, gone2, u, x)
<1>1. Newest(win2, who2, gone2, u) = Newest(win, who, gone, u)
  BY DEF Newest
<1>2. ASSUME Newest(win, who, gone, u) # {}
      PROVE  /\ Max(Newest(win, who, gone, u)) \in win
             /\ who[Max(Newest(win, who, gone, u))] = u
  <2>1. Newest(win, who, gone, u) \in SUBSET win
    BY DEF Newest
  <2>2. Max(Newest(win, who, gone, u)) \in Newest(win, who, gone, u)
    BY <1>2, <2>1, MaxIn
  <2> QED BY <2>2 DEF Newest
<1> QED BY <1>1, <1>2 DEF Differs

LEMMA DiffersLapse ==
  ASSUME NEW win, NEW who, NEW what, NEW gone, NEW u, NEW x, Ordered(win),
         Differs(win, who, what, gone, u, x)
  PROVE  Differs(win \ {Min(win)}, who, what, gone, u, x)
<1> DEFINE R == Newest(win, who, gone, u)
<1>1. Newest(win \ {Min(win)}, who, gone, u) = R \ {Min(win)}
  BY DEF Newest
<1>2. R \in SUBSET win
  BY DEF Newest
<1>3. ASSUME R \ {Min(win)} # {} PROVE Max(R \ {Min(win)}) = Max(R)
  BY <1>2, <1>3, LapseMax
<1> QED BY <1>1, <1>3 DEF Differs

-----------------------------------------------------------------------------
(* The rows, and the requests that are about them. *)

Involves(i, v) == job[i] # NoJob /\ v \in Concerned(job[i].kind, job[i].user, job[i].target)

RowsTyped ==
    /\ author \in [Articles -> Users \cup {Null}]
    /\ text \in [Articles -> Texts \cup {Null}]
    /\ deleted \in [Articles -> BOOLEAN]
    /\ writer \in [Comments -> Users \cup {Null}]
    /\ words \in [Comments -> Texts \cup {Null}]
    /\ removed \in [Comments -> BOOLEAN]

\* Rows are numbered as they are created.
Numbered == (\E n \in Nat : Posted = 1 .. n) /\ (\E n \in Nat : Said = 1 .. n)

Windows ==
    /\ lately \subseteq Posted /\ Ordered(lately)
    /\ justSaid \subseteq Said /\ Ordered(justSaid)

Aimed(j) == job[j] # NoJob => Addressed(job[j].kind, job[j].target)

\* The requests of a calm user, and those about her rows, come one after the other.
AloneInvolved ==
    /\ calm \subseteq Users
    /\ \A j \in Jobs : Aimed(j)
    /\ \A u \in calm, i, j \in Jobs : Involves(i, u) /\ Involves(j, u) => i = j

\* What has been compared with the newest of its author still differs from it.
Compared(j) ==
    job[j] # NoJob /\ job[j].pc = "write" /\ job[j].user \in calm =>
        /\ job[j].kind = "post" =>
              Differs(lately, author, text, deleted, job[j].user, job[j].text)
        /\ job[j].kind = "comment" =>
              Differs(justSaid, writer, words, removed, job[j].user, job[j].text)

RowsInv == RowsTyped /\ Numbered /\ Windows
RepeatInv == JobTyped /\ RowsInv /\ AloneInvolved /\ \A j \in Jobs : Compared(j)

LEMMA Recents ==
  ASSUME RowsInv, NEW u \in Users
  PROVE  /\ RecentArticles(u) = Newest(lately, author, deleted, u)
         /\ RecentComments(u) = Newest(justSaid, writer, removed, u)
BY DEF RowsInv, Windows, RecentArticles, RecentComments, Newest, Shown, ShownComments

\* The next row has a number of its own.
LEMMA NextNumber ==
  ASSUME NEW S, NEW n \in Nat, S = 1 .. n
  PROVE  Cardinality(S) + 1 = n + 1
<1>1. Cardinality(1 .. n) = IF 1 > n THEN 0 ELSE n - 1 + 1
  BY FS_Interval
<1> QED BY <1>1

\* The rows of v that a window shows stay what they are.
SameFor(v) ==
    /\ \A a : (a \in lately' /\ author'[a] = v) <=> (a \in lately /\ author[a] = v)
    /\ \A a \in lately : author[a] = v => text'[a] = text[a] /\ deleted'[a] = deleted[a]
    /\ \A k : (k \in justSaid' /\ writer'[k] = v) <=> (k \in justSaid /\ writer[k] = v)
    /\ \A k \in justSaid : writer[k] = v => words'[k] = words[k] /\ removed'[k] = removed[k]

\* What a statement of j does to the rows: those of others stay, none changes hands.
RowsStep(j) ==
    /\ RowsInv'
    /\ \A a \in Posted : a \in Posted' /\ author'[a] = author[a]
    /\ \A k \in Said : k \in Said' /\ writer'[k] = writer[k]
    /\ \A v \in Users : ~Involves(j, v) => SameFor(v)

LEMMA RowsUnchanged ==
  ASSUME RowsInv, NEW j, UNCHANGED <<articleRows, commentRows, windows>>
  PROVE  RowsStep(j)
<1>1. UNCHANGED <<author, text, deleted, writer, words, removed, lately, justSaid>>
  BY DEF articleRows, commentRows, windows
<1>2. Posted' = Posted /\ Said' = Said
  BY <1>1 DEF Posted, Said
<1>3. RowsInv'
  BY <1>1, <1>2 DEF RowsInv, RowsTyped, Numbered, Windows
<1> QED BY <1>1, <1>2, <1>3 DEF RowsStep, SameFor

LEMMA InsertArticleRows ==
  ASSUME JobTyped, RowsInv, NEW j \in Jobs, InsertArticle(j)
  PROVE  RowsStep(j)
<1>0. PICK a : a = Cardinality(Posted) + 1
  OBVIOUS
<1>1. PICK n \in Nat : Posted = 1 .. n
  BY DEF RowsInv, Numbered
<1>2. a = n + 1 /\ a \notin Posted /\ a \in Articles
  BY <1>0, <1>1, NextNumber DEF InsertArticle
<1>3. /\ job[j] \in Job /\ job[j].user \in Users
  BY DEF InsertArticle, At, JobTyped, Job
<1>4. /\ author' = [author EXCEPT ![a] = job[j].user]
      /\ text' = [text EXCEPT ![a] = job[j].text]
      /\ lately' = lately \cup {a}
      /\ UNCHANGED <<deleted, writer, words, removed, justSaid>>
  BY <1>0 DEF InsertArticle, commentRows
<1>5. job[j].user # Null /\ job[j].text \in Texts \cup {Null}
  BY <1>3, BoardAssumption DEF Job
<1>6. RowsTyped'
  BY <1>2, <1>3, <1>4, <1>5 DEF RowsInv, RowsTyped
<1>7. /\ author'[a] = job[j].user
      /\ \A b \in Articles \ {a} : author'[b] = author[b] /\ text'[b] = text[b]
  BY <1>2, <1>4 DEF RowsInv, RowsTyped
<1>8. Posted' = Posted \cup {a} /\ Said' = Said
  BY <1>2, <1>4, <1>5, <1>7 DEF Posted, Said
<1>9. Numbered'
  <2>1. Posted' = 1 .. n + 1
    BY <1>1, <1>2, <1>8
  <2>2. n + 1 \in Nat
    OBVIOUS
  <2> QED BY <1>8, <2>1, <2>2 DEF RowsInv, Numbered
<1>10. Windows'
  <2>1. a \in Nat
    BY <1>2
  <2>2. Ordered(lately \cup {a})
    BY <2>1, OrderedMore DEF RowsInv, Windows
  <2> QED BY <1>4, <1>8, <2>2 DEF RowsInv, Windows
<1>11. \A b \in Posted : b \in Articles \ {a}
  BY <1>2 DEF Posted
<1>12. ASSUME NEW v \in Users, ~Involves(j, v)  PROVE SameFor(v)
  <2>1. job[j].user # v
    BY <1>12 DEF Involves, Concerned, InsertArticle, At
  <2>2. \A b \in lately : b \in Articles \ {a}
    BY <1>11 DEF RowsInv, Windows
  <2> QED BY <1>4, <1>7, <2>1, <2>2 DEF SameFor
<1> QED BY <1>4, <1>6, <1>7, <1>8, <1>9, <1>10, <1>11, <1>12 DEF RowsStep, RowsInv

LEMMA InsertCommentRows ==
  ASSUME JobTyped, RowsInv, NEW j \in Jobs, InsertComment(j)
  PROVE  RowsStep(j)
<1>0. PICK k : k = Cardinality(Said) + 1
  OBVIOUS
<1>1. PICK n \in Nat : Said = 1 .. n
  BY DEF RowsInv, Numbered
<1>2. k = n + 1 /\ k \notin Said /\ k \in Comments
  BY <1>0, <1>1, NextNumber DEF InsertComment
<1>3. /\ job[j] \in Job /\ job[j].user \in Users
  BY DEF InsertComment, At, JobTyped, Job
<1>4. /\ writer' = [writer EXCEPT ![k] = job[j].user]
      /\ words' = [words EXCEPT ![k] = job[j].text]
      /\ justSaid' = justSaid \cup {k}
      /\ UNCHANGED <<removed, author, text, deleted, lately>>
  BY <1>0 DEF InsertComment, articleRows
<1>5. job[j].user # Null /\ job[j].text \in Texts \cup {Null}
  BY <1>3, BoardAssumption DEF Job
<1>6. RowsTyped'
  BY <1>2, <1>3, <1>4, <1>5 DEF RowsInv, RowsTyped
<1>7. /\ writer'[k] = job[j].user
      /\ \A b \in Comments \ {k} : writer'[b] = writer[b] /\ words'[b] = words[b]
  BY <1>2, <1>4 DEF RowsInv, RowsTyped
<1>8. Said' = Said \cup {k} /\ Posted' = Posted
  BY <1>2, <1>4, <1>5, <1>7 DEF Posted, Said
<1>9. Numbered'
  <2>1. Said' = 1 .. n + 1
    BY <1>1, <1>2, <1>8
  <2>2. n + 1 \in Nat
    OBVIOUS
  <2> QED BY <1>8, <2>1, <2>2 DEF RowsInv, Numbered
<1>10. Windows'
  <2>1. k \in Nat
    BY <1>2
  <2>2. Ordered(justSaid \cup {k})
    BY <2>1, OrderedMore DEF RowsInv, Windows
  <2> QED BY <1>4, <1>8, <2>2 DEF RowsInv, Windows
<1>11. \A b \in Said : b \in Comments \ {k}
  BY <1>2 DEF Said
<1>12. ASSUME NEW v \in Users, ~Involves(j, v)  PROVE SameFor(v)
  <2>1. job[j].user # v
    BY <1>12 DEF Involves, Concerned, InsertComment, At
  <2>2. \A b \in justSaid : b \in Comments \ {k}
    BY <1>11 DEF RowsInv, Windows
  <2> QED BY <1>4, <1>7, <2>1, <2>2 DEF SameFor
<1> QED BY <1>4, <1>6, <1>7, <1>8, <1>9, <1>10, <1>11, <1>12 DEF RowsStep, RowsInv

\* An edit or a deletion is of one row, whose author or writer is concerned.
LEMMA ChangeRows ==
  ASSUME JobTyped, RowsInv, AloneInvolved, NEW j \in Jobs,
         EditArticle(j) \/ MarkDeleted(j) \/ EditComment(j) \/ RemoveComment(j)
  PROVE  RowsStep(j)
<1>0. PICK t : t = job[j].target
  OBVIOUS
<1>1. /\ job[j] \in Job /\ job[j] # NoJob /\ job[j].text \in Texts \cup {Null}
      /\ UNCHANGED <<author, writer, lately, justSaid>>
  BY DEF EditArticle, MarkDeleted, EditComment, RemoveComment, At, JobTyped, Job, articleRows,
         commentRows, windows
<1>2. Posted' = Posted /\ Said' = Said
  BY <1>1 DEF Posted, Said
<1>3. CASE EditArticle(j) \/ MarkDeleted(j)
  <2>1. t \in Posted /\ \A v \in Users : ~Involves(j, v) => author[t] # v
    BY <1>0, <1>1, <1>3 DEF AloneInvolved, Aimed, Addressed, Involves, Concerned, EditArticle,
                            MarkDeleted, At
  <2>2. t \in Articles
    BY <2>1 DEF Posted
  <2>3. /\ text' \in [Articles -> Texts \cup {Null}] /\ deleted' \in [Articles -> BOOLEAN]
        /\ \A a \in Articles \ {t} : text'[a] = text[a] /\ deleted'[a] = deleted[a]
        /\ UNCHANGED <<words, removed>>
    <3>1. CASE EditArticle(j)
      BY <1>0, <1>1, <2>2, <3>1 DEF EditArticle, RowsInv, RowsTyped, commentRows
    <3>2. CASE MarkDeleted(j)
      BY <1>0, <2>2, <3>2 DEF MarkDeleted, RowsInv, RowsTyped, commentRows
    <3> QED BY <1>3, <3>1, <3>2
  <2>4. RowsInv'
    BY <1>1, <1>2, <2>3 DEF RowsInv, RowsTyped, Numbered, Windows
  <2>5. \A a \in lately : a \in Articles
    BY DEF RowsInv, Windows, Posted
  <2>6. ASSUME NEW v \in Users, ~Involves(j, v)  PROVE SameFor(v)
    BY <1>1, <2>1, <2>3, <2>5, <2>6 DEF SameFor
  <2> QED BY <1>1, <1>2, <2>4, <2>6 DEF RowsStep
<1>4. CASE EditComment(j) \/ RemoveComment(j)
  <2>1. t \in Said /\ \A v \in Users : ~Involves(j, v) => writer[t] # v
    BY <1>0, <1>1, <1>4 DEF AloneInvolved, Aimed, Addressed, Involves, Concerned, EditComment,
                            RemoveComment, At
  <2>2. t \in Comments
    BY <2>1 DEF Said
  <2>3. /\ words' \in [Comments -> Texts \cup {Null}] /\ removed' \in [Comments -> BOOLEAN]
        /\ \A a \in Comments \ {t} : words'[a] = words[a] /\ removed'[a] = removed[a]
        /\ UNCHANGED <<text, deleted>>
    <3>1. CASE EditComment(j)
      BY <1>0, <1>1, <2>2, <3>1 DEF EditComment, RowsInv, RowsTyped, articleRows
    <3>2. CASE RemoveComment(j)
      BY <1>0, <2>2, <3>2 DEF RemoveComment, RowsInv, RowsTyped, articleRows
    <3> QED BY <1>4, <3>1, <3>2
  <2>4. RowsInv'
    BY <1>1, <1>2, <2>3 DEF RowsInv, RowsTyped, Numbered, Windows
  <2>5. \A a \in justSaid : a \in Comments
    BY DEF RowsInv, Windows, Said
  <2>6. ASSUME NEW v \in Users, ~Involves(j, v)  PROVE SameFor(v)
    BY <1>1, <2>1, <2>3, <2>5, <2>6 DEF SameFor
  <2> QED BY <1>1, <1>2, <2>4, <2>6 DEF RowsStep
<1> QED BY <1>3, <1>4

LEMMA StatementRows ==
  ASSUME JobTyped, RowsInv, AloneInvolved, NEW j \in Jobs, Statement(j)
  PROVE  RowsStep(j)
<1>1. CASE CheckDuplicateRequest(j) \/ CheckDuplicateComment(j) \/ FindArticle(j)
           \/ FindComment(j) \/ FindLike(j)
  <2>1. UNCHANGED <<articleRows, commentRows, windows>>
    BY <1>1 DEF CheckDuplicateRequest, CheckDuplicateComment, FindArticle, FindComment, FindLike,
                KeepRows
  <2> QED BY <2>1, RowsUnchanged
<1>2. CASE DeleteHotArticle(j) \/ InsertLike(j) \/ ToggleLike(j)
  <2>1. UNCHANGED <<articleRows, commentRows, windows>>
    BY <1>2 DEF DeleteHotArticle, InsertLike, ToggleLike
  <2> QED BY <2>1, RowsUnchanged
<1> QED BY <1>1, <1>2, InsertArticleRows, InsertCommentRows, ChangeRows DEF Statement

\* What a statement does to its request.
LEMMA StatementJob ==
  ASSUME JobTyped, NEW j \in Jobs, Statement(j)
  PROVE  /\ JobTyped' /\ calm' = calm /\ job[j] # NoJob
         /\ \A i \in Jobs \ {j} : job'[i] = job[i]
         /\ \/ job'[j] = NoJob
            \/ /\ job'[j] # NoJob
               /\ job'[j].kind = job[j].kind /\ job'[j].user = job[j].user
               /\ job'[j].target = job[j].target /\ job'[j].text = job[j].text
               /\ \/ job'[j].pc # "write" \/ job[j].kind \notin {"post", "comment"}
                  \/ CheckDuplicateRequest(j) /\ Goto(j, "write")
                  \/ CheckDuplicateComment(j) /\ Goto(j, "write")
<1>1. job[j] # NoJob /\ calm' = calm
  BY Statements
<1>2. CASE Answer(j)
  BY <1>1, <1>2, AnswerTyped
<1>3. CASE ~ Answer(j)
  <2>1. PICK pc \in {"read", "write", "insert", "setUp", "setDown", "unhot"} :
          /\ Goto(j, pc)
          /\ \/ pc # "write" \/ job[j].kind \notin {"post", "comment"}
             \/ CheckDuplicateRequest(j) \/ CheckDuplicateComment(j)
    BY <1>3 DEF Statement, CheckDuplicateRequest, InsertArticle, FindArticle, EditArticle,
                MarkDeleted, DeleteHotArticle, CheckDuplicateComment, InsertComment,
                FindComment, EditComment, RemoveComment, FindLike, InsertLike, ToggleLike, At
  <2>2. job'[j].text = job[j].text
    BY <1>1, <2>1 DEF Goto, JobTyped, Job
  <2> QED BY <1>1, <2>1, <2>2, GotoTyped
<1> QED BY <1>2, <1>3

\* A request that goes on to its insertion has just been compared.
LEMMA JustCompared ==
  ASSUME RepeatInv, NEW j \in Jobs,
         CheckDuplicateRequest(j) \/ CheckDuplicateComment(j), Goto(j, "write")
  PROVE  Compared(j)'
<1>1. /\ job[j] \in Job /\ job[j] # NoJob /\ job[j].user \in Users
      /\ UNCHANGED <<author, text, deleted, writer, words, removed, lately, justSaid>>
  BY DEF CheckDuplicateRequest, CheckDuplicateComment, At, RepeatInv, JobTyped, Job, KeepRows,
         articleRows, commentRows, windows
<1>2. /\ job'[j].kind = job[j].kind /\ job'[j].user = job[j].user /\ job'[j].text = job[j].text
      /\ job'[j].pc = "write"
  BY <1>1 DEF RepeatInv, JobTyped, Goto, Job
<1>3. job'[j] # job[j] /\ job'[j] # NoJob
  <2>1. job[j].pc = "read"
    BY DEF CheckDuplicateRequest, CheckDuplicateComment, At
  <2> QED BY <1>1, <1>2, <2>1, GotoTyped DEF RepeatInv
<1>4. ~ Answer(j)
  BY <1>3, AnswerTyped DEF RepeatInv
<1>5. CASE CheckDuplicateRequest(j)
  <2>1. Differs(lately, author, text, deleted, job[j].user, job[j].text)
    BY <1>1, <1>4, <1>5, Recents DEF CheckDuplicateRequest, Differs, RepeatInv
  <2>2. job[j].kind = "post"
    BY <1>5 DEF CheckDuplicateRequest, At
  <2> QED BY <1>1, <1>2, <2>1, <2>2 DEF Compared
<1>6. CASE CheckDuplicateComment(j)
  <2>1. Differs(justSaid, writer, words, removed, job[j].user, job[j].text)
    BY <1>1, <1>4, <1>6, Recents DEF CheckDuplicateComment, Differs, RepeatInv
  <2>2. job[j].kind = "comment"
    BY <1>6 DEF CheckDuplicateComment, At
  <2> QED BY <1>1, <1>2, <2>1, <2>2 DEF Compared
<1> QED BY <1>5, <1>6

\* What stays the same for the author of a request has been compared with it still.
LEMMA StillCompared ==
  ASSUME RowsInv, NEW i \in Jobs, Compared(i), job'[i] = job[i], calm' \subseteq calm,
         job[i] # NoJob => SameFor(job[i].user)
  PROVE  Compared(i)'
<1> SUFFICES ASSUME job[i] # NoJob, job[i].pc = "write", job[i].user \in calm'
             PROVE  Compared(i)'
  BY DEF Compared
<1> DEFINE v == job[i].user
<1>1. v' = v /\ SameFor(v) /\ v \in calm
  OBVIOUS
<1>2. ASSUME Differs(lately, author, text, deleted, v, job[i].text)
      PROVE  Differs(lately', author', text', deleted', v, job[i].text)
  BY <1>1, <1>2, DiffersSame DEF SameFor, RowsInv, Windows
<1>3. ASSUME Differs(justSaid, writer, words, removed, v, job[i].text)
      PROVE  Differs(justSaid', writer', words', removed', v, job[i].text)
  BY <1>1, <1>3, DiffersSame DEF SameFor, RowsInv, Windows
<1> QED BY <1>1, <1>2, <1>3 DEF Compared

LEMMA RepeatStatement ==
  ASSUME RepeatInv, NEW j \in Jobs, Statement(j)
  PROVE  RepeatInv'
<1> USE DEF RepeatInv
<1>1. RowsStep(j)
  BY StatementRows
<1>2. /\ JobTyped' /\ calm' = calm /\ job[j] # NoJob
      /\ \A i \in Jobs \ {j} : job'[i] = job[i]
      /\ \/ job'[j] = NoJob
         \/ /\ job'[j] # NoJob
            /\ job'[j].kind = job[j].kind /\ job'[j].user = job[j].user
            /\ job'[j].target = job[j].target /\ job'[j].text = job[j].text
            /\ \/ job'[j].pc # "write" \/ job[j].kind \notin {"post", "comment"}
               \/ CheckDuplicateRequest(j) /\ Goto(j, "write")
               \/ CheckDuplicateComment(j) /\ Goto(j, "write")
  BY StatementJob
<1>3. ASSUME NEW i \in Jobs, job'[i] # NoJob
      PROVE  /\ job[i] # NoJob /\ job'[i].kind = job[i].kind /\ job'[i].user = job[i].user
             /\ job'[i].target = job[i].target
  BY <1>2, <1>3
<1>4. \A i \in Jobs : Aimed(i)'
  BY <1>1, <1>3 DEF AloneInvolved, Aimed, Addressed, RowsStep
<1>5. ASSUME NEW i \in Jobs, NEW v, Involves(i, v)'  PROVE Involves(i, v)
  <2>1. Addressed(job[i].kind, job[i].target) /\ job[i] # NoJob
    BY <1>3, <1>5 DEF AloneInvolved, Aimed, Involves
  <2> QED BY <1>1, <1>3, <1>5, <2>1 DEF Involves, Concerned, Addressed, RowsStep
<1>6. AloneInvolved'
  BY <1>2, <1>4, <1>5 DEF AloneInvolved
<1>7. ASSUME NEW i \in Jobs \ {j}  PROVE Compared(i)'
  <2>1. CASE job[i] # NoJob /\ job[i].user \in calm
    <3>1. Involves(i, job[i].user) /\ job[i].user \in Users
      BY <2>1 DEF Involves, Concerned, AloneInvolved
    <3>2. ~ Involves(j, job[i].user)
      BY <2>1, <3>1 DEF AloneInvolved
    <3> QED BY <1>1, <1>2, <3>1, <3>2, StillCompared DEF RowsStep
  <2>2. CASE ~ (job[i] # NoJob /\ job[i].user \in calm)
    BY <1>2, <2>2 DEF Compared
  <2> QED BY <2>1, <2>2
<1>8. Compared(j)'
  <2>1. CASE job'[j] = NoJob \/ job'[j].pc # "write" \/ job'[j].kind \notin {"post", "comment"}
    BY <2>1 DEF Compared
  <2>2. CASE ~ (job'[j] = NoJob \/ job'[j].pc # "write" \/ job'[j].kind \notin {"post", "comment"})
    BY <1>2, <2>2, JustCompared
  <2> QED BY <2>1, <2>2
<1> QED BY <1>1, <1>2, <1>6, <1>7, <1>8 DEF RowsStep

LEMMA RepeatStart ==
  ASSUME RepeatInv, NEW j \in Jobs, NEW kind \in Kinds, NEW u \in Users, NEW t \in Nat,
         NEW x \in Texts \cup {Null}, Start(j, kind, u, t, x), Addressed(kind, t)
  PROVE  RepeatInv'
<1> USE DEF RepeatInv
<1>1. /\ JobTyped'
      /\ job[j] = NoJob /\ job'[j] # NoJob
      /\ job'[j].kind = kind /\ job'[j].user = u /\ job'[j].target = t
      /\ job'[j].pc = "read"
      /\ \A i \in Jobs \ {j} : job'[i] = job[i]
  BY StartTyped
<1>2. /\ UNCHANGED <<articleRows, commentRows, windows>>
      /\ \A v \in calm' : v \in calm
      /\ \A v \in calm', i \in Jobs : v \in Concerned(kind, u, t) => ~ Involves(i, v)
  BY DEF Start, Involves
<1>3. RowsStep(j) /\ UNCHANGED <<author, writer>>
  BY <1>2, RowsUnchanged DEF articleRows, commentRows
<1>4. \A i \in Jobs \ {j}, v \in Users : Involves(i, v)' <=> Involves(i, v)
  BY <1>1, <1>3 DEF Involves, Concerned
<1>5. \A v \in Users : Involves(j, v)' => v \in Concerned(kind, u, t)
  BY <1>1, <1>3 DEF Involves, Concerned
<1>6. \A i \in Jobs : Aimed(i)'
  BY <1>1, <1>3 DEF AloneInvolved, Aimed, Addressed, RowsStep
<1>7. AloneInvolved'
  <2>1. calm' \subseteq Users
    BY <1>2 DEF AloneInvolved
  <2>2. ASSUME NEW v \in calm', NEW i \in Jobs, NEW k \in Jobs, Involves(i, v)', Involves(k, v)'
        PROVE  i = k
    <3>1. v \in Users /\ v \in calm
      BY <1>2 DEF AloneInvolved
    <3>2. CASE i # j /\ k # j
      BY <1>4, <2>2, <3>1, <3>2 DEF AloneInvolved
    <3>3. CASE i = j /\ k # j
      BY <1>2, <1>4, <1>5, <2>2, <3>1, <3>3
    <3>4. CASE i # j /\ k = j
      BY <1>2, <1>4, <1>5, <2>2, <3>1, <3>4
    <3> QED BY <3>2, <3>3, <3>4
  <2> QED BY <1>6, <2>1, <2>2 DEF AloneInvolved
<1>8. ASSUME NEW i \in Jobs \ {j}  PROVE Compared(i)'
  <2>1. \A v : SameFor(v)
    BY <1>2 DEF SameFor, articleRows, commentRows, windows
  <2> QED BY <1>1, <1>2, <2>1, StillCompared
<1>9. Compared(j)'
  BY <1>1 DEF Compared
<1> QED BY <1>1, <1>3, <1>7, <1>8, <1>9 DEF RowsStep

\* A request ends, or nothing happens, or what was written first leaves a window.
LEMMA RepeatEnd ==
  ASSUME RepeatInv, JobTyped', calm' = calm, UNCHANGED <<articleRows, commentRows, windows>>,
         \A i \in Jobs : job'[i] = job[i] \/ job'[i] = NoJob
  PROVE  RepeatInv'
<1> USE DEF RepeatInv
<1>1. PICK j : RowsStep(j)
  BY RowsUnchanged
<1>2. UNCHANGED <<author, writer>> /\ \A v : SameFor(v)
  BY DEF SameFor, articleRows, commentRows, windows
<1>3. AloneInvolved'
  BY <1>1, <1>2 DEF AloneInvolved, Aimed, Addressed, Involves, Concerned, RowsStep
<1>4. ASSUME NEW i \in Jobs  PROVE Compared(i)'
  <2>1. CASE job'[i] = NoJob
    BY <2>1 DEF Compared
  <2>2. CASE job'[i] = job[i]
    BY <1>2, <2>2, StillCompared
  <2> QED BY <2>1, <2>2
<1> QED BY <1>1, <1>3, <1>4 DEF RowsStep

LEMMA RepeatLapse ==
  ASSUME RepeatInv, LapseArticle \/ LapseComment
  PROVE  RepeatInv'
<1> USE DEF RepeatInv
<1>1. /\ UNCHANGED <<author, text, deleted, writer, words, removed, job, calm>>
      /\ lately' = lately \ {Min(lately)} \/ lately' = lately
      /\ justSaid' = justSaid \ {Min(justSaid)} \/ justSaid' = justSaid
  BY DEF LapseArticle, LapseComment, articleRows, commentRows
<1>2. Posted' = Posted /\ Said' = Said
  BY <1>1 DEF Posted, Said
<1>3. RowsInv'
  <2>1. Ordered(lately') /\ Ordered(justSaid')
    BY <1>1, OrderedPart DEF RowsInv, Windows
  <2> QED BY <1>1, <1>2, <2>1 DEF RowsInv, RowsTyped, Numbered, Windows
<1>4. AloneInvolved' /\ JobTyped'
  BY <1>1, <1>2 DEF AloneInvolved, Aimed, Addressed, Involves, Concerned, JobTyped
<1>5. ASSUME NEW i \in Jobs  PROVE Compared(i)'
  <2>1. \A v, x : Differs(lately, author, text, deleted, v, x)
                    => Differs(lately', author, text, deleted, v, x)
    BY <1>1, DiffersLapse DEF RowsInv, Windows
  <2>2. \A v, x : Differs(justSaid, writer, words, removed, v, x)
                    => Differs(justSaid', writer, words, removed, v, x)
    BY <1>1, DiffersLapse DEF RowsInv, Windows
  <2> QED BY <1>1, <2>1, <2>2 DEF Compared
<1> QED BY <1>3, <1>4, <1>5

LEMMA RepeatNext == RepeatInv /\ [BoardNext]_boardVars => RepeatInv'
<1> SUFFICES ASSUME RepeatInv, [BoardNext]_boardVars  PROVE RepeatInv'
  OBVIOUS
<1>1. ASSUME NEW j \in Jobs, JobFails(j)  PROVE RepeatInv'
  <2>1. /\ JobTyped' /\ \A i \in Jobs : job'[i] = job[i] \/ job'[i] = NoJob
        /\ calm' = calm /\ UNCHANGED <<articleRows, commentRows, windows>>
    BY <1>1, AnswerTyped DEF JobFails, KeepRows, RepeatInv
  <2> QED BY <2>1, RepeatEnd
<1>2. CASE UNCHANGED boardVars
  <2>1. UNCHANGED <<job, calm, articleRows, commentRows, windows>>
    BY <1>2 DEF boardVars
  <2>2. JobTyped'
    BY <2>1 DEF JobTyped, RepeatInv
  <2> QED BY <2>1, <2>2, RepeatEnd
<1> QED BY <1>1, <1>2, Arrivals, RepeatStatement, RepeatStart, RepeatLapse

LEMMA RepeatInit == BoardInit => RepeatInv
<1> SUFFICES ASSUME BoardInit PROVE RepeatInv
  OBVIOUS
<1>1. Posted = {} /\ Said = {}
  BY DEF BoardInit, Posted, Said
<1>2. 1 .. 0 = {} /\ 0 \in Nat
  OBVIOUS
<1>3. RowsInv
  BY <1>1, <1>2, OrderedEmpty DEF BoardInit, RowsInv, RowsTyped, Numbered, Windows
<1> QED BY <1>3 DEF BoardInit, RepeatInv, JobTyped, AloneInvolved, Aimed, Involves, Compared, NoJob

\* Nobody whose requests come one after the other says the same twice in a row
\* within the windows, although the comparison and the insertion are two statements.
THEOREM NothingRepeated == BoardSpec => NoInstantRepeat
<1> DEFINE Fine == /\ \A a \in Articles : LET recent == RecentArticles(author'[a]) IN
                         author[a] # author'[a] /\ author'[a] \in calm /\ recent # {}
                           => text'[a] # text[Max(recent)]
                   /\ \A k \in Comments : LET recent == RecentComments(writer'[k]) IN
                         writer[k] # writer'[k] /\ writer'[k] \in calm /\ recent # {}
                           => words'[k] # words[Max(recent)]
<1>1. RepeatInv /\ [BoardNext]_boardVars => [Fine]_boardVars
  <2> SUFFICES ASSUME RepeatInv, BoardNext  PROVE Fine
    BY DEF boardVars, articleRows, commentRows
  <2>1. CASE \E j \in Jobs : InsertArticle(j)
    <3>1. PICK j \in Jobs : InsertArticle(j)
      BY <2>1
    <3>2. PICK b : b = Cardinality(Posted) + 1
      OBVIOUS
    <3>3. /\ author' = [author EXCEPT ![b] = job[j].user]
          /\ text' = [text EXCEPT ![b] = job[j].text]
          /\ b \in Articles /\ UNCHANGED writer
          /\ job[j] # NoJob /\ job[j].kind = "post" /\ job[j].pc = "write"
      BY <3>1, <3>2 DEF InsertArticle, commentRows, At
    <3>4. job[j].user \in Users /\ Compared(j)
      BY <3>3 DEF RepeatInv, JobTyped, Job
    <3>5. /\ author'[b] = job[j].user /\ text'[b] = job[j].text
          /\ \A a \in Articles \ {b} : author'[a] = author[a]
      BY <3>3 DEF RepeatInv, RowsInv, RowsTyped
    <3>6. RecentArticles(job[j].user) = Newest(lately, author, deleted, job[j].user)
      BY <3>4, Recents DEF RepeatInv
    <3> QED BY <3>3, <3>4, <3>5, <3>6 DEF Compared, Differs
  <2>2. CASE \E j \in Jobs : InsertComment(j)
    <3>1. PICK j \in Jobs : InsertComment(j)
      BY <2>2
    <3>2. PICK b : b = Cardinality(Said) + 1
      OBVIOUS
    <3>3. /\ writer' = [writer EXCEPT ![b] = job[j].user]
          /\ words' = [words EXCEPT ![b] = job[j].text]
          /\ b \in Comments /\ UNCHANGED author
          /\ job[j] # NoJob /\ job[j].kind = "comment" /\ job[j].pc = "write"
      BY <3>1, <3>2 DEF InsertComment, articleRows, At
    <3>4. job[j].user \in Users /\ Compared(j)
      BY <3>3 DEF RepeatInv, JobTyped, Job
    <3>5. /\ writer'[b] = job[j].user /\ words'[b] = job[j].text
          /\ \A k \in Comments \ {b} : writer'[k] = writer[k]
      BY <3>3 DEF RepeatInv, RowsInv, RowsTyped
    <3>6. RecentComments(job[j].user) = Newest(justSaid, writer, removed, job[j].user)
      BY <3>4, Recents DEF RepeatInv
    <3> QED BY <3>3, <3>4, <3>5, <3>6 DEF Compared, Differs
  <2>3. CASE ~ (\E j \in Jobs : InsertArticle(j) \/ InsertComment(j))
    <3>1. ASSUME NEW j \in Jobs, Statement(j)  PROVE UNCHANGED <<author, writer>>
      BY <2>3, <3>1 DEF Statement, CheckDuplicateRequest, FindArticle, EditArticle, MarkDeleted,
           DeleteHotArticle, CheckDuplicateComment, FindComment, EditComment, RemoveComment,
           FindLike, InsertLike, ToggleLike, KeepRows, articleRows, commentRows
    <3>2. UNCHANGED <<author, writer>>
      BY <3>1, Arrivals DEF Start, JobFails, KeepRows, LapseArticle, LapseComment, articleRows,
           commentRows
    <3> QED BY <3>2
  <2> QED BY <2>1, <2>2, <2>3
<1> QED BY <1>1, RepeatInit, RepeatNext, PTL DEF BoardSpec, NoInstantRepeat

-----------------------------------------------------------------------------
(* The job of the hot articles. *)

Unhotting(j, a) == job[j] # NoJob /\ job[j].pc = "unhot" /\ job[j].target = a
Holding(r) == phase[r] \notin {"none", "lock"}

HotShape ==
    /\ JobTyped
    /\ deleted \in [Articles -> BOOLEAN]
    /\ hot \in [Articles -> Nat]
    /\ failures \in Nat
    /\ phase \in [Runs -> Phases]
    /\ chosen \in [Runs -> SUBSET Articles]
    /\ found \in [Runs -> SUBSET Articles]

OneHolds == \A r, q \in Runs : Holding(r) /\ Holding(q) => r = q

\* What a run is about to insert is not hot yet, because no other run is at work.
NotHotYet ==
    \A r \in Runs, a \in Articles :
        a \in found[r] => phase[r] = "commit" /\ hot[a] = 0 /\ a \in chosen[r]

Doomed == \A r \in Runs, a \in Articles : a \in chosen[r] /\ deleted[a] => a \in excused

HotRest ==
    \A a \in Articles :
        a \notin excused /\ deleted[a] /\ hot[a] > 0 => \E j \in Jobs : Unhotting(j, a)

HotInv == HotShape /\ OneHolds /\ NotHotYet /\ Doomed /\ HotOnce /\ HotRest

LEMMA HotInitInv == HotInit => HotInv
BY DEF HotInit, BoardInit, HotInv, HotShape, OneHolds, Holding, NotHotYet, Doomed, HotOnce,
       HotRest, JobTyped, NoJob, Phases, BoardAssumption

\* What a request of the board does to an article, to its hot row, and to the
\* deletions that are under way.
LEMMA BoardEffect ==
  ASSUME JobTyped, BoardNext
  PROVE  /\ JobTyped'
         /\ \/ \E j \in Jobs :
                 /\ deleted' = [deleted EXCEPT ![job[j].target] = TRUE]
                 /\ Unhotting(j, job[j].target)'
                 /\ job'[j].target = job[j].target
                 /\ \A i \in Jobs \ {j} : job'[i] = job[i]
                 /\ job[j].pc # "unhot"
                 /\ UNCHANGED <<hot, failures>>
            \/ \E j \in Jobs :
                 /\ hot' = [hot EXCEPT ![job[j].target] = 0]
                 /\ \A i \in Jobs \ {j} : job'[i] = job[i]
                 /\ UNCHANGED <<deleted, failures>>
            \/ \E j \in Jobs :
                 /\ job[j] # NoJob /\ job'[j] = NoJob
                 /\ \A i \in Jobs \ {j} : job'[i] = job[i]
                 /\ failures' = failures + 1
                 /\ UNCHANGED <<deleted, hot>>
            \/ /\ \A i \in Jobs : job[i] # NoJob /\ job[i].pc = "unhot" => job'[i] = job[i]
               /\ UNCHANGED <<deleted, hot, failures>>
<1>1. ASSUME NEW j \in Jobs, NEW kind \in Kinds, NEW u \in Users, NEW t \in Nat,
             NEW x \in Texts \cup {Null}, Start(j, kind, u, t, x)
      PROVE  /\ JobTyped'
             /\ \A i \in Jobs : job[i] # NoJob => job'[i] = job[i]
             /\ UNCHANGED <<deleted, hot, failures>>
  <2>1. UNCHANGED <<deleted, hot, failures>>
    BY <1>1 DEF Start, articleRows
  <2> QED BY <1>1, <2>1, StartTyped
<1>2. ASSUME NEW j \in Jobs, Statement(j), MarkDeleted(j)
      PROVE  /\ JobTyped'
             /\ deleted' = [deleted EXCEPT ![job[j].target] = TRUE]
             /\ Unhotting(j, job[j].target)'
             /\ job'[j].target = job[j].target
             /\ \A i \in Jobs \ {j} : job'[i] = job[i]
             /\ job[j].pc # "unhot"
             /\ UNCHANGED <<hot, failures>>
  <2>1. job[j] # NoJob /\ job[j].pc # "unhot" /\ Goto(j, "unhot")
    BY <1>2 DEF MarkDeleted, At
  <2>2. deleted' = [deleted EXCEPT ![job[j].target] = TRUE] /\ UNCHANGED <<hot, failures>>
    BY <1>2 DEF MarkDeleted, Keep, bounds
  <2>3. /\ JobTyped' /\ job'[j] # NoJob /\ job'[j].pc = "unhot"
        /\ job'[j].target = job[j].target
        /\ \A i \in Jobs \ {j} : job'[i] = job[i]
    BY <2>1, GotoTyped
  <2> QED BY <2>1, <2>2, <2>3 DEF Unhotting
<1>3. ASSUME NEW j \in Jobs, DeleteHotArticle(j)
      PROVE  /\ JobTyped'
             /\ hot' = [hot EXCEPT ![job[j].target] = 0]
             /\ \A i \in Jobs \ {j} : job'[i] = job[i]
             /\ UNCHANGED <<deleted, failures>>
  <2>1. Answer(j) /\ hot' = [hot EXCEPT ![job[j].target] = 0] /\ UNCHANGED <<deleted, failures>>
    BY <1>3 DEF DeleteHotArticle, Keep, bounds, articleRows
  <2> QED BY <2>1, AnswerTyped
<1>4. ASSUME NEW j \in Jobs, JobFails(j)
      PROVE  /\ JobTyped'
             /\ job[j] # NoJob /\ job'[j] = NoJob
             /\ \A i \in Jobs \ {j} : job'[i] = job[i]
             /\ failures' = failures + 1
             /\ UNCHANGED <<deleted, hot>>
  <2>1. /\ job[j] # NoJob /\ Answer(j) /\ failures' = failures + 1
        /\ UNCHANGED <<deleted, hot>>
    BY <1>4 DEF JobFails, KeepRows, articleRows
  <2> QED BY <2>1, AnswerTyped
<1>5. ASSUME NEW j \in Jobs, Statement(j),
             FindLike(j) \/ InsertLike(j) \/ ToggleLike(j) \/ Plain(j)
      PROVE  /\ JobTyped'
             /\ \A i \in Jobs : job[i] # NoJob /\ job[i].pc = "unhot" => job'[i] = job[i]
             /\ UNCHANGED <<deleted, hot, failures>>
  <2>1. job[j] # NoJob /\ UNCHANGED failures
    BY <1>5, Statements
  <2>2. UNCHANGED <<deleted, hot>>
    BY <1>5 DEF FindLike, InsertLike, ToggleLike, Plain, KeepRows, articleRows
  <2>3. job[j].pc # "unhot"
    BY <1>5 DEF FindLike, InsertLike, ToggleLike, Plain, At
  <2>4. Answer(j) \/ \E pc \in {"write", "insert", "setUp", "setDown"} : Goto(j, pc)
    BY <1>5 DEF FindLike, InsertLike, ToggleLike, Plain
  <2>5. JobTyped' /\ \A i \in Jobs \ {j} : job'[i] = job[i]
    BY <2>1, <2>4, AnswerTyped, GotoTyped
  <2> QED BY <2>1, <2>2, <2>3, <2>5
<1>6. ASSUME LapseArticle \/ LapseComment
      PROVE  JobTyped' /\ UNCHANGED <<job, deleted, hot, failures>>
  BY <1>6 DEF LapseArticle, LapseComment, articleRows, bounds, JobTyped
<1>7. ASSUME NEW j \in Jobs, Statement(j)
      PROVE  \/ MarkDeleted(j) \/ DeleteHotArticle(j)
             \/ FindLike(j) \/ InsertLike(j) \/ ToggleLike(j) \/ Plain(j)
  BY <1>7, Statements
<1> QED
  BY <1>1, <1>2, <1>3, <1>4, <1>5, <1>6, <1>7, Arrivals, Zenon

\* A deletion removes the hot row after it has marked the article; if it fails in
\* between, or if a run has selected the article before, the article is excused.
LEMMA BoardStepInv ==
  ASSUME HotInv, BoardStep
  PROVE  HotInv'
<1> USE DEF HotInv
<1>1. /\ BoardNext
      /\ UNCHANGED <<phase, chosen, found>>
      /\ excused \subseteq excused'
      /\ \A j \in Jobs : Interrupted(j) => job[j].target \in excused'
      /\ \A a \in Articles, r \in Runs : deleted'[a] # deleted[a] /\ a \in chosen[r] => a \in excused'
  BY DEF BoardStep, runVars
<1>2. JobTyped'
  BY <1>1, BoardEffect DEF HotShape
<1>3. /\ OneHolds'
      /\ phase' \in [Runs -> Phases]
      /\ chosen' \in [Runs -> SUBSET Articles] /\ found' \in [Runs -> SUBSET Articles]
  BY <1>1 DEF HotShape, OneHolds, Holding
<1>4. CASE \E j \in Jobs :
             /\ deleted' = [deleted EXCEPT ![job[j].target] = TRUE]
             /\ Unhotting(j, job[j].target)'
             /\ job'[j].target = job[j].target
             /\ \A i \in Jobs \ {j} : job'[i] = job[i]
             /\ job[j].pc # "unhot"
             /\ UNCHANGED <<hot, failures>>
  <2>1. PICK j \in Jobs :
             /\ deleted' = [deleted EXCEPT ![job[j].target] = TRUE]
             /\ Unhotting(j, job[j].target)'
             /\ job'[j].target = job[j].target
             /\ \A i \in Jobs \ {j} : job'[i] = job[i]
             /\ job[j].pc # "unhot"
             /\ UNCHANGED <<hot, failures>>
    BY <1>4
  <2>2. deleted' \in [Articles -> BOOLEAN]
    BY <2>1, Zenon DEF HotShape
  <2>3. HotShape'
    BY <1>2, <1>3, <2>1, <2>2 DEF HotShape
  <2>4. NotHotYet' /\ HotOnce'
    BY <1>1, <2>1 DEF NotHotYet, HotOnce
  <2>5. \A a \in Articles : a # job[j].target => deleted'[a] = deleted[a]
    BY <2>1 DEF HotShape
  <2>6. \A a \in Articles : ~deleted[a] /\ deleted'[a] => deleted'[a] # deleted[a]
    BY Zenon
  <2>7. Doomed'
    BY <1>1, <2>6 DEF Doomed
  <2>8. HotRest'
    <3> SUFFICES ASSUME NEW a \in Articles, a \notin excused', deleted'[a], hot'[a] > 0
                 PROVE  \E i \in Jobs : Unhotting(i, a)'
      BY DEF HotRest
    <3>1. CASE a = job[j].target
      BY <2>1, <3>1 DEF Unhotting
    <3>2. CASE a # job[j].target
      <4>1. PICK i \in Jobs : Unhotting(i, a)
        BY <1>1, <2>1, <2>5, <3>2 DEF HotRest
      <4> QED BY <2>1, <4>1 DEF Unhotting
    <3> QED BY <3>1, <3>2
  <2> QED BY <1>3, <2>3, <2>4, <2>7, <2>8
<1>5. CASE \E j \in Jobs :
             /\ hot' = [hot EXCEPT ![job[j].target] = 0]
             /\ \A i \in Jobs \ {j} : job'[i] = job[i]
             /\ UNCHANGED <<deleted, failures>>
  <2>1. PICK j \in Jobs :
             /\ hot' = [hot EXCEPT ![job[j].target] = 0]
             /\ \A i \in Jobs \ {j} : job'[i] = job[i]
             /\ UNCHANGED <<deleted, failures>>
    BY <1>5
  <2>2. \A a \in Articles : hot'[a] = IF a = job[j].target THEN 0 ELSE hot[a]
    BY <2>1 DEF HotShape
  <2>3. HotShape'
    BY <1>2, <1>3, <2>1 DEF HotShape
  <2>4. NotHotYet' /\ HotOnce'
    BY <1>1, <2>2 DEF NotHotYet, HotOnce
  <2>5. Doomed'
    BY <1>1, <2>1 DEF Doomed
  <2>6. HotRest'
    <3> SUFFICES ASSUME NEW a \in Articles, a \notin excused', deleted'[a], hot'[a] > 0
                 PROVE  \E i \in Jobs : Unhotting(i, a)'
      BY DEF HotRest
    <3>1. PICK i \in Jobs : Unhotting(i, a)
      BY <1>1, <2>1, <2>2 DEF HotRest
    <3>2. i # j
      BY <2>2, <3>1 DEF Unhotting
    <3> QED BY <2>1, <3>1, <3>2 DEF Unhotting
  <2> QED BY <1>3, <2>3, <2>4, <2>5, <2>6
<1>6. CASE \E j \in Jobs :
             /\ job[j] # NoJob /\ job'[j] = NoJob
             /\ \A i \in Jobs \ {j} : job'[i] = job[i]
             /\ failures' = failures + 1
             /\ UNCHANGED <<deleted, hot>>
  <2>1. PICK j \in Jobs :
             /\ job[j] # NoJob /\ job'[j] = NoJob
             /\ \A i \in Jobs \ {j} : job'[i] = job[i]
             /\ failures' = failures + 1
             /\ UNCHANGED <<deleted, hot>>
    BY <1>6
  <2>2. failures' > failures /\ failures' \in Nat
    BY <2>1 DEF HotShape
  <2>3. job[j].pc = "unhot" => job[j].target \in excused'
    BY <1>1, <2>1, <2>2 DEF Interrupted
  <2>4. HotShape'
    BY <1>2, <1>3, <2>1, <2>2 DEF HotShape
  <2>5. NotHotYet' /\ HotOnce' /\ Doomed'
    BY <1>1, <2>1 DEF NotHotYet, HotOnce, Doomed
  <2>6. HotRest'
    <3> SUFFICES ASSUME NEW a \in Articles, a \notin excused', deleted'[a], hot'[a] > 0
                 PROVE  \E i \in Jobs : Unhotting(i, a)'
      BY DEF HotRest
    <3>1. PICK i \in Jobs : Unhotting(i, a)
      BY <1>1, <2>1 DEF HotRest
    <3>2. i # j
      BY <2>3, <3>1 DEF Unhotting
    <3> QED BY <2>1, <3>1, <3>2 DEF Unhotting
  <2> QED BY <1>3, <2>4, <2>5, <2>6
<1>7. CASE /\ \A i \in Jobs : job[i] # NoJob /\ job[i].pc = "unhot" => job'[i] = job[i]
           /\ UNCHANGED <<deleted, hot, failures>>
  <2>1. HotShape'
    BY <1>2, <1>3, <1>7 DEF HotShape
  <2>2. NotHotYet' /\ HotOnce' /\ Doomed'
    BY <1>1, <1>7 DEF NotHotYet, HotOnce, Doomed
  <2>3. HotRest'
    BY <1>1, <1>7 DEF HotRest, Unhotting
  <2> QED BY <1>3, <2>1, <2>2, <2>3
<1> HIDE DEF HotInv
<1>8. JobTyped
  BY DEF HotInv, HotShape
<1> QED BY <1>1, <1>4, <1>5, <1>6, <1>7, <1>8, BoardEffect

-----------------------------------------------------------------------------
(* A run. *)

\* The statements before the insert: they know of no article to insert, and select
\* none that is deleted.
LEMMA RunQuiet ==
  ASSUME HotInv, NEW r \in Runs, NEW next \in Phases,
         UNCHANGED <<job, deleted, hot, excused>>, failures' \in Nat,
         phase' = [phase EXCEPT ![r] = next],
         next \notin {"none", "lock"} => Holding(r) \/ \A q \in Runs : ~Holding(q),
         NEW recent \in SUBSET Articles, chosen' = [chosen EXCEPT ![r] = recent],
         \A a \in recent : deleted[a] => a \in excused,
         NEW popular \in SUBSET recent, found' = [found EXCEPT ![r] = popular],
         popular # {} => next = "commit", \A a \in popular : hot[a] = 0
  PROVE  HotInv'
<1> USE DEF HotInv
<1>1. HotShape'
  BY DEF HotShape, JobTyped
<1>2. OneHolds'
  BY DEF OneHolds, Holding, HotShape
<1>3. NotHotYet'
  BY DEF NotHotYet, HotShape
<1>4. Doomed'
  BY DEF Doomed, HotShape
<1>5. HotOnce' /\ HotRest'
  BY DEF HotOnce, HotRest, Unhotting
<1> QED BY <1>1, <1>2, <1>3, <1>4, <1>5

LEMMA EndInv ==
  ASSUME HotInv, NEW r \in Runs, End(r), UNCHANGED <<job, deleted, hot, excused>>,
         failures' \in Nat
  PROVE  HotInv'
<1>1. /\ phase' = [phase EXCEPT ![r] = "none"]
      /\ chosen' = [chosen EXCEPT ![r] = {}]
      /\ found' = [found EXCEPT ![r] = {}]
  BY DEF End, Turn
<1>2. "none" \in Phases /\ {} \in SUBSET Articles /\ {} \in SUBSET {}
  BY DEF Phases
<1>3. \A a \in {} : (deleted[a] => a \in excused) /\ hot[a] = 0
  OBVIOUS
<1> DEFINE none == {}
<1> HIDE DEF none
<1>4. /\ chosen' = [chosen EXCEPT ![r] = none] /\ found' = [found EXCEPT ![r] = none]
      /\ none \in SUBSET Articles /\ none \in SUBSET none /\ none = {}
      /\ \A a \in none : (deleted[a] => a \in excused) /\ hot[a] = 0
  BY <1>1, <1>2, <1>3 DEF none
<1> QED BY <1>1, <1>2, <1>4, RunQuiet

LEMMA CommitInv ==
  ASSUME HotInv, NEW r \in Runs, Commit(r)
  PROVE  HotInv'
<1> USE DEF HotInv
<1>1. /\ hot' = [a \in Articles |-> IF a \in found[r] THEN hot[a] + 1 ELSE hot[a]]
      /\ phase' = [phase EXCEPT ![r] = "none"]
      /\ chosen' = [chosen EXCEPT ![r] = {}]
      /\ found' = [found EXCEPT ![r] = {}]
      /\ phase[r] = "commit"
      /\ UNCHANGED <<job, deleted, failures, excused>>
  BY DEF Commit, End, Turn, bounds, articleRows
<1>2. \A a \in found[r] : hot[a] = 0 /\ a \in chosen[r]
  BY DEF NotHotYet, HotShape
<1>3. HotShape'
  BY <1>1 DEF HotShape, JobTyped, Phases
<1>4. OneHolds'
  BY <1>1 DEF OneHolds, Holding, HotShape
<1>5. \A q \in Runs : q # r => found[q] = {}
  <2> SUFFICES ASSUME NEW q \in Runs, q # r, NEW a \in found[q]  PROVE FALSE
    OBVIOUS
  <2>1. phase[q] = "commit"
    BY DEF NotHotYet, HotShape
  <2> QED BY <1>1, <2>1 DEF OneHolds, Holding
<1>6. NotHotYet'
  BY <1>1, <1>5 DEF NotHotYet, HotShape
<1>7. Doomed'
  BY <1>1 DEF Doomed, HotShape
<1>8. HotOnce'
  BY <1>1, <1>2 DEF HotOnce, HotShape
<1>9. HotRest'
  BY <1>1, <1>2 DEF HotRest, Unhotting, Doomed, HotShape
<1> QED BY <1>3, <1>4, <1>6, <1>7, <1>8, <1>9

LEMMA RunInv ==
  ASSUME HotInv, NEW r \in Runs, RunStep(r)
  PROVE  HotInv'
<1>0. /\ failures \in Nat
      /\ phase \in [Runs -> Phases] /\ chosen \in [Runs -> SUBSET Articles]
      /\ found \in [Runs -> SUBSET Articles]
      /\ \A a \in found[r] : phase[r] = "commit"
      /\ \A a \in chosen[r] : deleted[a] => a \in excused
      /\ chosen = [chosen EXCEPT ![r] = chosen[r]]
      /\ found = [found EXCEPT ![r] = found[r]]
      /\ phase = [phase EXCEPT ![r] = phase[r]]
  BY DEF HotInv, HotShape, NotHotYet, Doomed
<1>1. KeepBoard => UNCHANGED <<job, deleted, hot, failures, excused>>
  BY DEF KeepBoard, boardVars, articleRows, bounds
<1>2. CASE StartRun(r)
  <2>1. "lock" \in Phases /\ found[r] = {}
    BY <1>0, <1>2 DEF StartRun, Phases
  <2> QED BY <1>0, <1>1, <1>2, <2>1, RunQuiet, ZenonT(40) DEF StartRun, Turn
<1>3. CASE Lock(r)
  <2>1. "select" \in Phases /\ found[r] = {} /\ \A q \in Runs : ~Holding(q)
    BY <1>0, <1>3 DEF Lock, Phases, Holding
  <2> QED BY <1>0, <1>1, <1>3, <2>1, RunQuiet, ZenonT(40) DEF Lock, Turn
<1>4. CASE SelectRecent(r)
  <2> DEFINE recent == today \cap Shown
  <2>1. /\ phase[r] = "select" /\ KeepBoard
        /\ \/ End(r)
           \/ Turn(r, "count") /\ chosen' = [chosen EXCEPT ![r] = recent] /\ UNCHANGED found
    BY <1>4 DEF SelectRecent, Select
  <2>2. recent \in SUBSET Articles /\ \A a \in recent : ~deleted[a]
    BY DEF Shown, Posted
  <2>3. "count" \in Phases /\ found[r] = {} /\ Holding(r)
    BY <1>0, <2>1 DEF Phases, Holding
  <2> HIDE DEF recent
  <2>4. CASE End(r)
    BY <1>0, <1>1, <2>1, <2>4, EndInv
  <2>5. CASE Turn(r, "count") /\ chosen' = [chosen EXCEPT ![r] = recent] /\ UNCHANGED found
    <3>1. /\ phase' = [phase EXCEPT ![r] = "count"]
          /\ found' = [found EXCEPT ![r] = {}]
          /\ UNCHANGED <<job, deleted, hot, excused>> /\ failures' \in Nat
      BY <1>0, <1>1, <2>1, <2>3, <2>5 DEF Turn
    <3>2. \A a \in recent : deleted[a] => a \in excused
      BY <2>2
    <3> QED BY <2>2, <2>3, <2>5, <3>1, <3>2, RunQuiet
  <2> QED BY <2>1, <2>4, <2>5
<1>5. CASE CountLikes(r) \/ CountComments(r)
  <2>1. PICK next \in {"count", "find"} :
          /\ phase[r] = "count" /\ KeepBoard
          /\ phase' = [phase EXCEPT ![r] = next]
          /\ UNCHANGED <<chosen, found>>
    BY <1>0, <1>5 DEF CountLikes, CountComments, Turn
  <2>2. next \in Phases /\ found[r] = {} /\ Holding(r)
    BY <1>0, <2>1 DEF Phases, Holding
  <2> QED BY <1>0, <1>1, <2>1, <2>2, RunQuiet
<1>6. CASE FindHot(r)
  <2> DEFINE popular == {a \in {b \in chosen[r] : score[r][b] >= Threshold} : hot[a] = 0}
  <2>1. /\ phase[r] = "find" /\ KeepBoard
        /\ phase' = [phase EXCEPT ![r] = "commit"]
        /\ found' = [found EXCEPT ![r] = popular]
        /\ UNCHANGED chosen
    BY <1>6 DEF FindHot, Insert, Turn
  <2>2. "commit" \in Phases /\ Holding(r)
    BY <2>1 DEF Phases, Holding
  <2>3. popular \in SUBSET chosen[r] /\ \A a \in popular : hot[a] = 0
    OBVIOUS
  <2>4. chosen[r] \in SUBSET Articles
    BY <1>0
  <2> HIDE DEF popular
  <2> QED BY <1>0, <1>1, <2>1, <2>2, <2>3, <2>4, RunQuiet, ZenonT(40)
<1> QED BY <1>2, <1>3, <1>4, <1>5, <1>6, CommitInv DEF RunStep

LEMMA HotNextInv == HotInv /\ [HotNext]_hotVars => HotInv'
<1> SUFFICES ASSUME HotInv, [HotNext]_hotVars  PROVE HotInv'
  OBVIOUS
<1>1. ASSUME UNCHANGED <<job, deleted, hot, failures, phase, chosen, found, excused>>
      PROVE  HotInv'
  BY <1>1 DEF HotInv, HotShape, JobTyped, OneHolds, Holding, NotHotYet, Doomed, HotOnce,
         HotRest, Unhotting
<1>2. ASSUME NEW a \in Articles, NEW n \in Syncs, WorkInViews(a, n)  PROVE HotInv'
  BY <1>1, <1>2 DEF WorkInViews, boardVars, articleRows, bounds, runVars
<1>3. CASE LapseToday
  BY <1>1, <1>3 DEF LapseToday, boardVars, articleRows, bounds, runVars
<1>4. CASE UNCHANGED hotVars
  BY <1>1, <1>4 DEF hotVars, boardVars, articleRows, bounds, runVars
<1>5. ASSUME NEW r \in Runs, RunFails(r)  PROVE HotInv'
  <2>1. /\ End(r) /\ failures' = failures + 1
        /\ UNCHANGED <<job, deleted, hot, excused>>
    BY <1>5 DEF RunFails, articleRows
  <2>2. failures' \in Nat
    BY <2>1 DEF HotInv, HotShape
  <2> QED BY <2>1, <2>2, EndInv
<1> QED
  BY <1>2, <1>3, <1>4, <1>5, RunInv, BoardStepInv, Zenon DEF HotNext

THEOREM HotInvariant == HotSpec => []HotInv
BY HotInitInv, HotNextInv, PTL DEF HotSpec

\* No article is hot twice, however many runs the instances of the server have open:
\* only the run that holds the lock looks for articles that are not hot yet.
THEOREM NeverHotTwice == HotSpec => []HotOnce
<1>1. HotInv => HotOnce
  BY DEF HotInv
<1> QED BY <1>1, HotInvariant, PTL

\* A deleted article is not hot, unless a run had selected it before, or its
\* deletion was interrupted.
THEOREM DeletedAreNotHot == HotSpec => []DeletedNotHot
<1>1. HotInv => DeletedNotHot
  BY DEF HotInv, HotRest, DeletedNotHot, Unhotting
<1> QED BY <1>1, HotInvariant, PTL
=============================================================================
