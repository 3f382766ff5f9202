------------------------------ MODULE ViewCounts ------------------------------
(***************************************************************************)
(* The view counts of the articles.  A view is counted in Redis            *)
(* (article-view.service.ts); a job moves the counters to the articles     *)
(* every ten minutes (view-count-sync/*.ts).  Redis and PostgreSQL are     *)
(* told apart, and so is every call between two awaits: requests and runs  *)
(* of the job meet between the calls.  Nothing keeps a run of the job from *)
(* starting while an earlier one is still going, in the same process or    *)
(* in another.                                                             *)
(***************************************************************************)
EXTENDS Naturals, FiniteSets

CONSTANTS
    Articles, Users,
    Clients,        \* browsers and phones; each has one request at a time
    Owner,          \* the user of a client, if it has signed in
    Nobody,         \* no user
    Runs,           \* runs of the job that may go on at the same time
    MaxViews,       \* bound: views counted per article
    MaxFailures,    \* bound: calls that fail, requests and runs cut off
    MaxExpiries     \* bound: marks that expire

ASSUME OwnerAssumption == /\ Owner \in [Clients -> Users \cup {Nobody}]
                          /\ Nobody \notin Users
ASSUME BoundAssumption == /\ MaxViews \in Nat
                          /\ MaxFailures \in Nat
                          /\ MaxExpiries \in Nat

VARIABLES
    redis,      \* the values under "article:view:", 0 where there is no key
    readCount,  \* articles.read_count
    view,       \* the request each client waits for
    phase,      \* how far each run of the job is with each key
    count,      \* the count it has read under the key
    views,      \* history: the views counted
    counted,    \* history: the views counted for each user
    unmarked,   \* history: how often a user's mark was removed
    late,       \* history: views counted while a run held an older count
    failures, expiries,
    untouched   \* history: no call failed and no two runs met

vars == <<redis, readCount, view, phase, count, views, counted, unmarked,
          late, failures, expiries, untouched>>

(***************************************************************************)
(* The counter of an article has the key article:view:<article>, the mark  *)
(* that a user has seen it article:view:<article>:user:<user>: one prefix, *)
(* one pattern, and whatever follows the prefix is taken for an article.   *)
(***************************************************************************)
Key == [article : Articles, user : Users \cup {Nobody}]
ViewCountKey(a) == [article |-> a, user |-> Nobody]
UserViewKey(a, u) == [article |-> a, user |-> u]
ViewCountKeys == {k \in Key : redis[k] > 0}

Phases == {"none", "listed", "read", "updated"}
Idle == [pc |-> "idle", article |-> Nobody]
Going(r) == \E k \in Key : phase[r][k] # "none"

TypeOK ==
    /\ redis \in [Key -> Nat]
    /\ readCount \in [Articles -> Nat]
    /\ view \in [Clients -> [pc : {"idle"}, article : {Nobody}]
                   \cup [pc : {"look", "mark", "count"}, article : Articles]]
    /\ phase \in [Runs -> [Key -> Phases]]
    /\ count \in [Runs -> [Key -> Nat]]
    /\ views \in [Articles -> 0 .. MaxViews]
    /\ counted \in [Articles -> [Users -> Nat]]
    /\ unmarked \in [Articles -> [Users -> Nat]]
    /\ late \in [Articles -> Nat]
    /\ failures \in 0 .. MaxFailures
    /\ expiries \in 0 .. MaxExpiries
    /\ untouched \in BOOLEAN

Init ==
    /\ redis = [k \in Key |-> 0]
    /\ readCount = [a \in Articles |-> 0]
    /\ view = [c \in Clients |-> Idle]
    /\ phase = [r \in Runs |-> [k \in Key |-> "none"]]
    /\ count = [r \in Runs |-> [k \in Key |-> 0]]
    /\ views = [a \in Articles |-> 0]
    /\ counted = [a \in Articles |-> [u \in Users |-> 0]]
    /\ unmarked = [a \in Articles |-> [u \in Users |-> 0]]
    /\ late = [a \in Articles |-> 0]
    /\ failures = 0
    /\ expiries = 0
    /\ untouched = TRUE

-----------------------------------------------------------------------------
(* A request for an article: incrementViewCount, await by await. *)

\* The article has been read; a client without a token is counted unasked.
GetArticleById(c, a) ==
    /\ view[c].pc = "idle"
    /\ views[a] < MaxViews
    /\ view' = [view EXCEPT ![c] =
                  [pc |-> IF Owner[c] = Nobody THEN "count" ELSE "look",
                   article |-> a]]
    /\ UNCHANGED <<redis, readCount, phase, count, views, counted,
                   unmarked, late, failures, expiries, untouched>>

HasViewed(c) ==
    /\ view[c].pc = "look"
    /\ view' = IF redis[UserViewKey(view[c].article, Owner[c])] > 0
                 THEN [view EXCEPT ![c] = Idle]
                 ELSE [view EXCEPT ![c].pc = "mark"]
    /\ UNCHANGED <<redis, readCount, phase, count, views, counted,
                   unmarked, late, failures, expiries, untouched>>

\* Mutant: the mark is never set.
SetUserViewForgotten(c) ==
    /\ view[c].pc = "mark"
    /\ view' = [view EXCEPT ![c].pc = "count"]
    /\ UNCHANGED <<redis, readCount, phase, count, views, counted,
                   unmarked, late, failures, expiries, untouched>>

SetUserView(c) ==
    /\ view[c].pc = "mark"
    /\ redis' = [redis EXCEPT ![UserViewKey(view[c].article, Owner[c])] = 1]
    /\ view' = [view EXCEPT ![c].pc = "count"]
    /\ UNCHANGED <<readCount, phase, count, views, counted, unmarked, late,
                   failures, expiries, untouched>>

\* Some run has read the counter of a and has not yet deleted it.
Held(a) == \E r \in Runs : phase[r][ViewCountKey(a)] \in {"read", "updated"}

Incr(c) ==
    LET a == view[c].article IN
    /\ view[c].pc = "count"
    /\ views[a] < MaxViews
    /\ redis' = [redis EXCEPT ![ViewCountKey(a)] = @ + 1]
    /\ views' = [views EXCEPT ![a] = @ + 1]
    /\ counted' = IF Owner[c] = Nobody THEN counted
                    ELSE [counted EXCEPT ![a][Owner[c]] = @ + 1]
    /\ late' = IF Held(a) THEN [late EXCEPT ![a] = @ + 1] ELSE late
    /\ view' = [view EXCEPT ![c] = Idle]
    /\ UNCHANGED <<readCount, phase, count, unmarked, failures, expiries,
                   untouched>>

\* A call to Redis fails, or the process ends; the client gets an error.
RequestFails(c) ==
    /\ view[c].pc # "idle"
    /\ failures < MaxFailures
    /\ failures' = failures + 1
    /\ untouched' = FALSE
    /\ view' = [view EXCEPT ![c] = Idle]
    /\ UNCHANGED <<redis, readCount, phase, count, views, counted,
                   unmarked, late, expiries>>

\* The mark has a time to live of a day.
Expire(a, u) ==
    /\ redis[UserViewKey(a, u)] > 0
    /\ expiries < MaxExpiries
    /\ expiries' = expiries + 1
    /\ redis' = [redis EXCEPT ![UserViewKey(a, u)] = 0]
    /\ unmarked' = [unmarked EXCEPT ![a][u] = @ + 1]
    /\ UNCHANGED <<readCount, view, phase, count, views, counted, late,
                   failures, untouched>>

-----------------------------------------------------------------------------
(* A run of the job. *)

\* The cron job starts and asks for the keys of the pattern.
GetViewCountKeys(r) ==
    /\ ~Going(r)
    /\ ViewCountKeys # {}
    /\ phase' = [phase EXCEPT ![r] =
                 [k \in Key |-> IF k \in ViewCountKeys THEN "listed" ELSE "none"]]
    /\ untouched' = (untouched /\ \A s \in Runs : ~Going(s))
    /\ UNCHANGED <<redis, readCount, view, count, views, counted, unmarked,
                   late, failures, expiries>>

\* Mutant: a counter of one is taken for nothing to do.
GetAboveOne(r, k) ==
    /\ phase[r][k] = "listed"
    /\ phase' = [phase EXCEPT ![r][k] = IF redis[k] > 1 THEN "read" ELSE "none"]
    /\ count' = [count EXCEPT ![r][k] = redis[k]]
    /\ UNCHANGED <<redis, readCount, view, views, counted, unmarked, late,
                   failures, expiries, untouched>>

\* A GET of the pipeline; a key that has gone meanwhile is left alone.
Get(r, k) ==
    /\ phase[r][k] = "listed"
    /\ phase' = [phase EXCEPT ![r][k] = IF redis[k] > 0 THEN "read" ELSE "none"]
    /\ count' = [count EXCEPT ![r][k] = redis[k]]
    /\ UNCHANGED <<redis, readCount, view, views, counted, unmarked, late,
                   failures, expiries, untouched>>

\* Mutant: the count replaces what the article had.
UpdateArticleViewCountSets(r, k) ==
    /\ phase[r][k] = "read"
    /\ \A l \in Key : phase[r][l] # "listed"
    /\ readCount' = IF k.user = Nobody
                      THEN [readCount EXCEPT ![k.article] = count[r][k]]
                      ELSE readCount
    /\ phase' = [phase EXCEPT ![r][k] = "updated"]
    /\ UNCHANGED <<redis, view, count, views, counted, unmarked, late,
                   failures, expiries, untouched>>

\* Once the pipeline is through, the counts are added; for a mark no row has
\* the id, and an UPDATE of no row is no error.
UpdateArticleViewCount(r, k) ==
    /\ phase[r][k] = "read"
    /\ \A l \in Key : phase[r][l] # "listed"
    /\ readCount' = IF k.user = Nobody
                      THEN [readCount EXCEPT ![k.article] = @ + count[r][k]]
                      ELSE readCount
    /\ phase' = [phase EXCEPT ![r][k] = "updated"]
    /\ UNCHANGED <<redis, view, count, views, counted, unmarked, late,
                   failures, expiries, untouched>>

\* Mutant: the key is left for the next run.
DeleteRedisKeyKeeps(r, k) ==
    /\ phase[r][k] = "updated"
    /\ phase' = [phase EXCEPT ![r][k] = "none"]
    /\ count' = [count EXCEPT ![r][k] = 0]
    /\ UNCHANGED <<redis, readCount, view, views, counted, unmarked, late,
                   failures, expiries, untouched>>

DeleteRedisKey(r, k) ==
    /\ phase[r][k] = "updated"
    /\ redis' = [redis EXCEPT ![k] = 0]
    /\ unmarked' = IF k.user # Nobody /\ redis[k] > 0
                     THEN [unmarked EXCEPT ![k.article][k.user] = @ + 1]
                     ELSE unmarked
    /\ phase' = [phase EXCEPT ![r][k] = "none"]
    /\ count' = [count EXCEPT ![r][k] = 0]
    /\ UNCHANGED <<readCount, view, views, counted, late, failures,
                   expiries, untouched>>

\* A call for one key fails: the error is logged, the other keys go on.
KeyFails(r, k) ==
    /\ phase[r][k] # "none"
    /\ failures < MaxFailures
    /\ failures' = failures + 1
    /\ untouched' = FALSE
    /\ phase' = [phase EXCEPT ![r][k] = "none"]
    /\ count' = [count EXCEPT ![r][k] = 0]
    /\ UNCHANGED <<redis, readCount, view, views, counted, unmarked, late,
                   expiries>>

\* The pipeline is rejected, or the process ends: nothing of the run is left.
RunFails(r) ==
    /\ Going(r)
    /\ failures < MaxFailures
    /\ failures' = failures + 1
    /\ untouched' = FALSE
    /\ phase' = [phase EXCEPT ![r] = [k \in Key |-> "none"]]
    /\ count' = [count EXCEPT ![r] = [k \in Key |-> 0]]
    /\ UNCHANGED <<redis, readCount, view, views, counted, unmarked, late,
                   expiries>>

View(c) == HasViewed(c) \/ SetUserView(c) \/ Incr(c)
SyncViewCountsToDB(r) ==
    \/ GetViewCountKeys(r)
    \/ \E k \in Key : Get(r, k) \/ UpdateArticleViewCount(r, k) \/ DeleteRedisKey(r, k)

Next ==
    \/ \E c \in Clients : \/ \E a \in Articles : GetArticleById(c, a)
                          \/ View(c)
                          \/ RequestFails(c)
    \/ \E a \in Articles, u \in Users : Expire(a, u)
    \/ \E r \in Runs : \/ SyncViewCountsToDB(r)
                       \/ \E k \in Key : KeyFails(r, k)
                       \/ RunFails(r)

Spec == Init /\ [][Next]_vars

(* The scheduler starts the job again and again and the calls of a run     *)
(* answer.  Requests come or stay away.                                    *)
FairSpec == Spec /\ \A r \in Runs : WF_vars(SyncViewCountsToDB(r))

-----------------------------------------------------------------------------
(* What the counts promise. *)

\* No view is lost but those counted while a run of the job held an older
\* count of the article (between its GET and its DEL): whatever fails, is
\* repeated or overlaps, the article and its counter together have the rest.
LostOnlyWhileHeld ==
    \A a \in Articles :
        readCount[a] + redis[ViewCountKey(a)] + late[a] >= views[a]

\* As long as no call failed and no two runs met, an article never has more
\* views than were counted: the run adds a count once and deletes what it added.
NeverMoreThanViews ==
    untouched => \A a \in Articles : readCount[a] <= views[a]

\* A user with one client is counted again only after the mark was removed,
\* by its time to live or by the job, which takes the marks for counters.
OnlyClient(u) == \A c, d \in Clients : Owner[c] = u /\ Owner[d] = u => c = d
OncePerMark ==
    \A a \in Articles, u \in Users :
        OnlyClient(u) => counted[a][u] <= 1 + unmarked[a][u]

\* A counter is worked into its article sooner or later.
WorkedIn ==
    \A a \in Articles :
        redis[ViewCountKey(a)] > 0 ~> redis[ViewCountKey(a)] = 0 /\ readCount[a] > 0

=============================================================================
