-------------------------------- MODULE Board --------------------------------
(***************************************************************************)
(* The board: articles, comments and likes (article.service.ts,            *)
(* comment.service.ts and their repositories).  A request reads first and  *)
(* writes later, each statement by itself, without a transaction or a      *)
(* lock; any other request may run in between.                             *)
(***************************************************************************)
EXTENDS Naturals, FiniteSets, FiniteSetsExt

CONSTANTS
    Users, Admins,
    Texts,          \* title and content of an article, content of a comment
    Jobs,           \* requests that may be worked on at the same time
    Null,
    MaxArticles, MaxComments, MaxRequests, MaxFailures  \* bounds of the model

ASSUME BoardAssumption ==
    /\ Admins \subseteq Users
    /\ Null \notin Users \cup Texts
    /\ {MaxArticles, MaxComments, MaxRequests, MaxFailures} \subseteq Nat

Articles == 1 .. MaxArticles
Comments == 1 .. MaxComments

VARIABLES
    author, text, deleted,      \* articles, numbered as they are created
    writer, words, under, removed,  \* comments, numbered as they are created
    ups, downs,     \* how many rows of likes a user has of an article
    hot,            \* how many rows hot_articles has of an article
    lately,         \* articles of the last ten seconds
    justSaid,       \* comments of the last five seconds
    job,
    calm,           \* history: users whose requests never overlapped
    requests, failures

articleRows == <<author, text, deleted>>
commentRows == <<writer, words, under, removed>>
likeRows == <<ups, downs>>
windows == <<lately, justSaid>>
bounds == <<requests, failures>>
boardVars == <<articleRows, commentRows, likeRows, hot, windows, job, calm, bounds>>

Kinds == {"post", "edit", "delete", "comment", "editComment", "deleteComment", "like"}
\* target: the article or the comment, 0 for a new article.
Job == [kind : Kinds, user : Users, target : Nat, text : Texts \cup {Null},
        pc : {"read", "write", "insert", "setUp", "setDown", "unhot"}]
NoJob == [kind |-> "none"]

Posted == {a \in Articles : author[a] # Null}
Said == {k \in Comments : writer[k] # Null}
Shown == {a \in Posted : ~deleted[a]}
ShownComments == {k \in Said : ~removed[k]}

BoardInit ==
    /\ author = [a \in Articles |-> Null]
    /\ text = [a \in Articles |-> Null]
    /\ deleted = [a \in Articles |-> FALSE]
    /\ writer = [k \in Comments |-> Null]
    /\ words = [k \in Comments |-> Null]
    /\ under = [k \in Comments |-> 0]
    /\ removed = [k \in Comments |-> FALSE]
    /\ ups = [u \in Users |-> [a \in Articles |-> 0]]
    /\ downs = [u \in Users |-> [a \in Articles |-> 0]]
    /\ hot = [a \in Articles |-> 0]
    /\ lately = {}
    /\ justSaid = {}
    /\ job = [j \in Jobs |-> NoJob]
    /\ calm = Users
    /\ requests = 0
    /\ failures = 0

-----------------------------------------------------------------------------
(* A request arrives. *)

\* The users whose rows a request is about.
Concerned(kind, u, t) ==
    {u} \cup (IF kind \in {"edit", "delete"} THEN {author[t]} ELSE {})
        \cup (IF kind \in {"editComment", "deleteComment"} THEN {writer[t]} ELSE {})

Start(j, kind, u, t, x) ==
    LET us == Concerned(kind, u, t) IN
    /\ job[j] = NoJob
    /\ requests < MaxRequests
    /\ requests' = requests + 1
    /\ job' = [job EXCEPT ![j] = [kind |-> kind, user |-> u, target |-> t,
                                  text |-> x, pc |-> "read"]]
    /\ calm' = calm \ {v \in us : \E i \in Jobs : /\ job[i] # NoJob
                         /\ v \in Concerned(job[i].kind, job[i].user, job[i].target)}
    /\ UNCHANGED <<articleRows, commentRows, likeRows, hot, windows, failures>>

CreateArticle(j, u, x) == Start(j, "post", u, 0, x)
UpdateArticle(j, u, a, x) == a \in Posted /\ Start(j, "edit", u, a, x)
DeleteArticle(j, u, a) == a \in Posted /\ Start(j, "delete", u, a, Null)
UpdateLikeCount(j, u, a) == a \in Posted /\ Start(j, "like", u, a, Null)
CreateComment(j, u, a, x) == a \in Posted /\ Start(j, "comment", u, a, x)
UpdateComment(j, u, k, x) == k \in Said /\ Start(j, "editComment", u, k, x)
DeleteComment(j, u, k) == k \in Said /\ Start(j, "deleteComment", u, k, Null)

-----------------------------------------------------------------------------
(* The statements of a request. *)

At(j, kinds, pc) == job[j] # NoJob /\ job[j].kind \in kinds /\ job[j].pc = pc
Goto(j, pc) == job' = [job EXCEPT ![j].pc = pc]
Answer(j) == job' = [job EXCEPT ![j] = NoJob]
KeepRows == UNCHANGED <<articleRows, commentRows, likeRows, hot, windows>>
Keep == UNCHANGED <<calm, bounds>>

Permitted(j, owner) == job[j].user \in Admins \cup {owner}

\* The newest of a user's articles, or comments, that were created just now.
RecentArticles(u) == {a \in lately \cap Shown : author[a] = u}
RecentComments(u) == {k \in justSaid \cap ShownComments : writer[k] = u}

CheckDuplicateRequest(j) ==
    LET recent == RecentArticles(job[j].user) IN
    /\ At(j, {"post"}, "read")
    /\ IF recent # {} /\ text[Max(recent)] = job[j].text
         THEN Answer(j) ELSE Goto(j, "write")
    /\ KeepRows /\ Keep

InsertArticle(j) ==
    LET a == Cardinality(Posted) + 1 IN
    /\ At(j, {"post"}, "write")
    /\ a \in Articles
    /\ author' = [author EXCEPT ![a] = job[j].user]
    /\ text' = [text EXCEPT ![a] = job[j].text]
    /\ lately' = lately \cup {a}
    /\ Answer(j)
    /\ UNCHANGED <<deleted, commentRows, likeRows, hot, justSaid>> /\ Keep

\* updateArticle and deleteArticle look for the article and its author.
FindArticle(j) ==
    /\ At(j, {"edit", "delete"}, "read")
    /\ IF job[j].target \in Shown /\ Permitted(j, author[job[j].target])
         THEN Goto(j, "write") ELSE Answer(j)
    /\ KeepRows /\ Keep

EditArticle(j) ==
    /\ At(j, {"edit"}, "write")
    /\ text' = [text EXCEPT ![job[j].target] =
                  IF job[j].target \in Shown THEN job[j].text ELSE @]
    /\ Answer(j)
    /\ UNCHANGED <<author, deleted, commentRows, likeRows, hot, windows>> /\ Keep

MarkDeleted(j) ==
    /\ At(j, {"delete"}, "write")
    /\ deleted' = [deleted EXCEPT ![job[j].target] = TRUE]
    /\ Goto(j, "unhot")
    /\ UNCHANGED <<author, text, commentRows, likeRows, hot, windows>> /\ Keep

DeleteHotArticle(j) ==
    /\ At(j, {"delete"}, "unhot")
    /\ hot' = [hot EXCEPT ![job[j].target] = 0]
    /\ Answer(j)
    /\ UNCHANGED <<articleRows, commentRows, likeRows, windows>> /\ Keep

\* Mutant: only the comments on the same article are compared.
CheckDuplicateCommentHere(j) ==
    LET recent == {k \in RecentComments(job[j].user) : under[k] = job[j].target} IN
    /\ At(j, {"comment"}, "read")
    /\ IF \/ job[j].target \notin Shown
          \/ recent # {} /\ words[Max(recent)] = job[j].text
         THEN Answer(j) ELSE Goto(j, "write")
    /\ KeepRows /\ Keep

\* createComment looks for the article and for the user's newest comment.
CheckDuplicateComment(j) ==
    LET recent == RecentComments(job[j].user) IN
    /\ At(j, {"comment"}, "read")
    /\ IF \/ job[j].target \notin Shown
          \/ recent # {} /\ words[Max(recent)] = job[j].text
         THEN Answer(j) ELSE Goto(j, "write")
    /\ KeepRows /\ Keep

InsertComment(j) ==
    LET k == Cardinality(Said) + 1 IN
    /\ At(j, {"comment"}, "write")
    /\ k \in Comments
    /\ writer' = [writer EXCEPT ![k] = job[j].user]
    /\ words' = [words EXCEPT ![k] = job[j].text]
    /\ under' = [under EXCEPT ![k] = job[j].target]
    /\ justSaid' = justSaid \cup {k}
    /\ Answer(j)
    /\ UNCHANGED <<removed, articleRows, likeRows, hot, lately>> /\ Keep

FindComment(j) ==
    /\ At(j, {"editComment", "deleteComment"}, "read")
    /\ IF job[j].target \in ShownComments /\ Permitted(j, writer[job[j].target])
         THEN Goto(j, "write") ELSE Answer(j)
    /\ KeepRows /\ Keep

EditComment(j) ==
    /\ At(j, {"editComment"}, "write")
    /\ words' = [words EXCEPT ![job[j].target] =
                   IF job[j].target \in ShownComments THEN job[j].text ELSE @]
    /\ Answer(j)
    /\ UNCHANGED <<writer, under, removed, articleRows, likeRows, hot, windows>> /\ Keep

RemoveComment(j) ==
    /\ At(j, {"deleteComment"}, "write")
    /\ removed' = [removed EXCEPT ![job[j].target] = TRUE]
    /\ Answer(j)
    /\ UNCHANGED <<writer, words, under, articleRows, likeRows, hot, windows>> /\ Keep

\* One of the user's rows for the article is read, if there is one.
FindLike(j) ==
    LET u == job[j].user  a == job[j].target IN
    /\ At(j, {"like"}, "read")
    /\ \/ ups[u][a] + downs[u][a] = 0 /\ Goto(j, "insert")
       \/ ups[u][a] > 0 /\ Goto(j, "setDown")
       \/ downs[u][a] > 0 /\ Goto(j, "setUp")
    /\ KeepRows /\ Keep

InsertLike(j) ==
    /\ At(j, {"like"}, "insert")
    /\ ups' = [ups EXCEPT ![job[j].user][job[j].target] = @ + 1]
    /\ Answer(j)
    /\ UNCHANGED <<downs, articleRows, commentRows, hot, windows>> /\ Keep

\* Mutant: what is taken back is written as one more row.
ToggleLikeByRow(j) ==
    LET u == job[j].user  a == job[j].target IN
    /\ \/ /\ At(j, {"like"}, "setUp")
          /\ ups' = [ups EXCEPT ![u][a] = @ + 1]
          /\ UNCHANGED downs
       \/ /\ At(j, {"like"}, "setDown")
          /\ downs' = [downs EXCEPT ![u][a] = @ + 1]
          /\ UNCHANGED ups
    /\ Answer(j)
    /\ UNCHANGED <<articleRows, commentRows, hot, windows>> /\ Keep

\* All of the user's rows for the article get the opposite of what was read.
ToggleLike(j) ==
    LET u == job[j].user  a == job[j].target  n == ups[u][a] + downs[u][a] IN
    /\ \/ /\ At(j, {"like"}, "setUp")
          /\ ups' = [ups EXCEPT ![u][a] = n]
          /\ downs' = [downs EXCEPT ![u][a] = 0]
       \/ /\ At(j, {"like"}, "setDown")
          /\ ups' = [ups EXCEPT ![u][a] = 0]
          /\ downs' = [downs EXCEPT ![u][a] = n]
    /\ Answer(j)
    /\ UNCHANGED <<articleRows, commentRows, hot, windows>> /\ Keep

\* A call fails, and the request with it; what it has written stays.
JobFails(j) ==
    /\ job[j] # NoJob
    /\ failures < MaxFailures
    /\ failures' = failures + 1
    /\ Answer(j)
    /\ KeepRows /\ UNCHANGED <<calm, requests>>

-----------------------------------------------------------------------------
(* Time passes: what was created first leaves a window first. *)

LapseArticle ==
    /\ lately # {}
    /\ lately' = lately \ {Min(lately)}
    /\ UNCHANGED <<articleRows, commentRows, likeRows, hot, justSaid, job, calm, bounds>>

LapseComment ==
    /\ justSaid # {}
    /\ justSaid' = justSaid \ {Min(justSaid)}
    /\ UNCHANGED <<articleRows, commentRows, likeRows, hot, lately, job, calm, bounds>>

Statement(j) ==
    \/ CheckDuplicateRequest(j) \/ InsertArticle(j)
    \/ FindArticle(j) \/ EditArticle(j) \/ MarkDeleted(j) \/ DeleteHotArticle(j)
    \/ CheckDuplicateComment(j) \/ InsertComment(j)
    \/ FindComment(j) \/ EditComment(j) \/ RemoveComment(j)
    \/ FindLike(j) \/ InsertLike(j) \/ ToggleLike(j)

BoardNext ==
    \/ \E j \in Jobs, u \in Users :
         \/ \E x \in Texts : CreateArticle(j, u, x)
         \/ \E a \in Articles : \/ DeleteArticle(j, u, a) \/ UpdateLikeCount(j, u, a)
                                \/ \E x \in Texts : UpdateArticle(j, u, a, x)
                                \/ \E x \in Texts : CreateComment(j, u, a, x)
         \/ \E k \in Comments : \/ DeleteComment(j, u, k)
                                \/ \E x \in Texts : UpdateComment(j, u, k, x)
    \/ \E j \in Jobs : Statement(j) \/ JobFails(j)
    \/ LapseArticle \/ LapseComment

BoardSpec == BoardInit /\ [][BoardNext]_boardVars

-----------------------------------------------------------------------------
(* Properties. *)

BoardTypeOK ==
    /\ author \in [Articles -> Users \cup {Null}]
    /\ text \in [Articles -> Texts \cup {Null}]
    /\ deleted \in [Articles -> BOOLEAN]
    /\ writer \in [Comments -> Users \cup {Null}]
    /\ words \in [Comments -> Texts \cup {Null}]
    /\ under \in [Comments -> Articles \cup {0}]
    /\ removed \in [Comments -> BOOLEAN]
    /\ {ups, downs} \subseteq [Users -> [Articles -> Nat]]
    /\ hot \in [Articles -> Nat]
    /\ lately \subseteq Posted /\ justSaid \subseteq Said
    /\ job \in [Jobs -> Job \cup {NoJob}]
    /\ calm \subseteq Users

\* A user of whom one request is worked on at a time never posts the same
\* article twice in a row within ten seconds, nor the same comment within five,
\* wherever it is put, whatever was edited and deleted in between.
NoInstantRepeat ==
    [][/\ \A a \in Articles : LET recent == RecentArticles(author'[a]) IN
            author[a] # author'[a] /\ author'[a] \in calm /\ recent # {}
              => text'[a] # text[Max(recent)]
       /\ \A k \in Comments : LET recent == RecentComments(writer'[k]) IN
            writer[k] # writer'[k] /\ writer'[k] \in calm /\ recent # {}
              => words'[k] # words[Max(recent)]]_boardVars

\* However often users like an article and take it back, each counts once at
\* most while none of them has two requests worked on at a time.
LikersCountOnce ==
    \A u \in calm, a \in Articles : ups[u][a] + downs[u][a] <= 1
=============================================================================
