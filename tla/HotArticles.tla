----------------------------- MODULE HotArticles -----------------------------
(***************************************************************************)
(* The hourly job that makes popular articles hot (hot-article.service.ts), *)
(* beside the requests of the board.  A run is one transaction at read     *)
(* committed: each of its statements sees what has been committed when it  *)
(* starts, and what it inserts is seen by others when it commits.  An      *)
(* advisory lock of the transaction keeps the runs of several instances of *)
(* the server, or of one that is slow, apart.                              *)
(***************************************************************************)
EXTENDS Board, Functions

CONSTANTS
    Runs,           \* runs that may be open at the same time
    Threshold,      \* hot-article-calculator.ts:14 says 110
    Syncs,          \* how many views are worked in at a time
    MaxViews        \* bound of the model

ASSUME HotAssumption == {Threshold, MaxViews} \subseteq Nat /\ Syncs \subseteq Nat

VARIABLES
    today,          \* articles of the last 24 hours
    readCount,      \* views worked into the rows of articles, see ViewCounts
    phase,          \* what a run does next
    chosen, score,  \* the articles it has selected, and what has been added up for each
    likes, comments,\* those whose counts are still to come
    found,          \* those to insert
    excused         \* history: articles whose deletion was interrupted, or came
                    \* after a run had selected them and before it ended

runVars == <<phase, chosen, score, likes, comments, found>>
hotVars == <<boardVars, today, readCount, runVars, excused>>

Phases == {"none", "lock", "select", "count", "find", "commit"}
Zero == [a \in Articles |-> 0]

LikeCount(a) == SumFunctionOnSet([u \in Users |-> ups[u][a]], Users)
CommentCount(a) == Cardinality({k \in ShownComments : under[k] = a})
LikePoints(a) == 10 * LikeCount(a)
CommentPoints(a) == 15 * CommentCount(a)
Score(a) == readCount[a] + LikePoints(a) + CommentPoints(a)

HotInit ==
    /\ BoardInit
    /\ today = {}
    /\ readCount = Zero
    /\ phase = [r \in Runs |-> "none"]
    /\ chosen = [r \in Runs |-> {}]
    /\ score = [r \in Runs |-> Zero]
    /\ likes = [r \in Runs |-> {}]
    /\ comments = [r \in Runs |-> {}]
    /\ found = [r \in Runs |-> {}]
    /\ excused = {}

-----------------------------------------------------------------------------
(* The board's requests, views and time. *)

\* The deletion of an article that fails before it has removed the hot row.
Interrupted(j) == job[j] # NoJob /\ job[j].pc = "unhot" /\ failures' > failures
                  /\ job'[j] = NoJob

BoardStep ==
    /\ BoardNext
    /\ today' = today \cup {a \in Articles : author'[a] # author[a]}
    /\ excused' = excused
         \cup {job[j].target : j \in {i \in Jobs : Interrupted(i)}}
         \cup {a \in Articles : deleted'[a] # deleted[a] /\ \E r \in Runs : a \in chosen[r]}
    /\ UNCHANGED <<readCount, runVars>>

\* The views of an article are worked in.
WorkInViews(a, n) ==
    /\ a \in Posted
    /\ readCount[a] + n <= MaxViews
    /\ readCount' = [readCount EXCEPT ![a] = @ + n]
    /\ UNCHANGED <<boardVars, today, runVars, excused>>

LapseToday ==
    /\ today \ lately # {}
    /\ today' = today \ {Min(today)}
    /\ UNCHANGED <<boardVars, readCount, runVars, excused>>

-----------------------------------------------------------------------------
(* checkHotArticles *)

KeepBoard == UNCHANGED <<boardVars, today, readCount, excused>>
Turn(r, next) == phase' = [phase EXCEPT ![r] = next]

\* The transaction ends, and the run.
End(r) ==
    /\ Turn(r, "none")
    /\ chosen' = [chosen EXCEPT ![r] = {}]
    /\ score' = [score EXCEPT ![r] = Zero]
    /\ likes' = [likes EXCEPT ![r] = {}]
    /\ comments' = [comments EXCEPT ![r] = {}]
    /\ found' = [found EXCEPT ![r] = {}]

StartRun(r) ==
    /\ phase[r] = "none"
    /\ Turn(r, "lock")
    /\ UNCHANGED <<chosen, score, likes, comments, found>> /\ KeepBoard

\* Mutant: the lock is not waited for.
LockAtOnce(r) ==
    /\ phase[r] = "lock"
    /\ Turn(r, "select")
    /\ UNCHANGED <<chosen, score, likes, comments, found>> /\ KeepBoard

\* The lock is free once the transaction that holds it has ended.
Lock(r) ==
    /\ phase[r] = "lock"
    /\ \A q \in Runs : phase[q] \in {"none", "lock"}
    /\ Turn(r, "select")
    /\ UNCHANGED <<chosen, score, likes, comments, found>> /\ KeepBoard

Select(r, recent) ==
    /\ phase[r] = "select"
    /\ \/ recent = {} /\ End(r)
       \/ /\ recent # {}
          /\ Turn(r, "count")
          /\ chosen' = [chosen EXCEPT ![r] = recent]
          /\ score' = [score EXCEPT ![r] =
                         [a \in Articles |-> IF a \in recent THEN readCount[a] ELSE 0]]
          /\ likes' = [likes EXCEPT ![r] = recent]
          /\ comments' = [comments EXCEPT ![r] = recent]
          /\ UNCHANGED found
    /\ KeepBoard

\* Mutant: deleted articles are selected too.
SelectDeletedToo(r) == Select(r, today)

SelectRecent(r) == Select(r, today \cap Shown)

\* The counts of the likes are queried for all articles before the first count
\* of comments.
CountLikes(r) ==
    /\ phase[r] = "count" /\ likes[r] # {}
    /\ LET a == Min(likes[r]) IN
         /\ score' = [score EXCEPT ![r][a] = @ + LikePoints(a)]
         /\ likes' = [likes EXCEPT ![r] = @ \ {a}]
    /\ UNCHANGED <<phase, chosen, comments, found>> /\ KeepBoard

CountComments(r) ==
    /\ phase[r] = "count" /\ likes[r] = {}
    /\ LET a == Min(comments[r]) IN
         /\ score' = [score EXCEPT ![r][a] = @ + CommentPoints(a)]
         /\ comments' = [comments EXCEPT ![r] = @ \ {a}]
         /\ Turn(r, IF comments[r] = {a} THEN "find" ELSE "count")
    /\ UNCHANGED <<chosen, likes, found>> /\ KeepBoard

Insert(r, popular) ==
    /\ phase[r] = "find"
    /\ Turn(r, "commit")
    /\ score' = [score EXCEPT ![r] = Zero]
    /\ found' = [found EXCEPT ![r] = {a \in popular : hot[a] = 0}]
    /\ UNCHANGED <<chosen, likes, comments>> /\ KeepBoard

\* Mutant: the score has to be above the threshold.
FindHotAbove(r) == Insert(r, {a \in chosen[r] : score[r][a] > Threshold})

FindHot(r) == Insert(r, {a \in chosen[r] : score[r][a] >= Threshold})

\* What was inserted is committed, and the lock released.
Commit(r) ==
    /\ phase[r] = "commit"
    /\ hot' = [a \in Articles |-> IF a \in found[r] THEN hot[a] + 1 ELSE hot[a]]
    /\ End(r)
    /\ UNCHANGED <<articleRows, commentRows, likeRows, windows, job, calm, bounds,
                   today, readCount, excused>>

\* A statement fails: the transaction is rolled back, the error dropped, and the
\* next hour tries again.
RunFails(r) ==
    /\ phase[r] # "none"
    /\ failures < MaxFailures
    /\ failures' = failures + 1
    /\ End(r)
    /\ UNCHANGED <<articleRows, commentRows, likeRows, hot, windows, job, calm, requests,
                   today, readCount, excused>>

RunStep(r) ==
    \/ StartRun(r) \/ Lock(r) \/ SelectRecent(r) \/ CountLikes(r) \/ CountComments(r)
    \/ FindHot(r) \/ Commit(r)

HotNext ==
    \/ BoardStep
    \/ \E a \in Articles, n \in Syncs : WorkInViews(a, n)
    \/ LapseToday
    \/ \E r \in Runs : RunStep(r) \/ RunFails(r)

\* Cron starts a run every hour, a statement and a commit of the database are
\* answered in the end.  Nothing is assumed of the users and of time.
HotSpec == HotInit /\ [][HotNext]_hotVars /\ \A r \in Runs : WF_hotVars(RunStep(r))

-----------------------------------------------------------------------------
(* Properties. *)

HotTypeOK ==
    /\ BoardTypeOK
    /\ today \subseteq Posted
    /\ readCount \in [Articles -> Nat]
    /\ phase \in [Runs -> Phases]
    /\ score \in [Runs -> [Articles -> Nat]]
    /\ {chosen, likes, comments, found} \subseteq [Runs -> SUBSET Articles]
    /\ excused \subseteq Articles

\* However many runs there are at a time, and whatever is deleted meanwhile, no
\* article is hot twice: the list of hot articles joins over these rows.
HotOnce == \A a \in Articles : hot[a] <= 1

\* A deleted article is not hot: the list of hot articles does not look at
\* articles.deleted_at again.  The two exceptions are those of the history
\* variable; while the request is not finished, the row may still be there.
DeletedNotHot ==
    \A a \in Articles \ excused :
        deleted[a] /\ hot[a] > 0
          => \E j \in Jobs : job[j] # NoJob /\ job[j].pc = "unhot" /\ job[j].target = a

\* An article that reaches the threshold, and keeps its likes and comments, is
\* made hot, unless it is deleted or turns a day old first.
PopularTurnsHot ==
    \A a \in Articles :
        []<>(hot[a] > 0 \/ a \notin today \cap Shown \/ Score(a) < Threshold)
=============================================================================
