--------------------------- MODULE ViewCountsProofs ---------------------------
(***************************************************************************)
(* What the view counts promise, for every number of articles, users,      *)
(* clients and runs that overlap, and for every sequence of failures.      *)
(***************************************************************************)
EXTENDS ViewCounts, TLAPS

USE OwnerAssumption, BoundAssumption

LEMMA KeysOfArticles ==
  ASSUME NEW a \in Articles
  PROVE  /\ ViewCountKey(a) \in Key
         /\ ViewCountKey(a).article = a /\ ViewCountKey(a).user = Nobody
         /\ \A u \in Users : /\ UserViewKey(a, u) \in Key
                             /\ UserViewKey(a, u).article = a
                             /\ UserViewKey(a, u).user = u
BY DEF Key, ViewCountKey, UserViewKey

LEMMA KeyIsOne ==
  ASSUME NEW k \in Key
  PROVE  /\ k.article \in Articles /\ k.user \in Users \cup {Nobody}
         /\ k.user = Nobody => k = ViewCountKey(k.article)
         /\ k.user # Nobody => k = UserViewKey(k.article, k.user)
BY DEF Key, ViewCountKey, UserViewKey

Request == [pc : {"idle"}, article : {Nobody}]
             \cup [pc : {"look", "mark", "count"}, article : Articles]

LEMMA Requests ==
  ASSUME NEW v \in Request
  PROVE  /\ v.pc \in {"idle", "look", "mark", "count"}
         /\ v.pc # "idle" => /\ v.article \in Articles
                             /\ [v EXCEPT !.pc = "mark"] \in Request
                             /\ [v EXCEPT !.pc = "count"] \in Request
BY DEF Request

LEMMA Idles == Idle \in Request
BY DEF Idle, Request

\* Only those who have signed in have a mark looked up and set.
SignedIn == \A c \in Clients : view[c].pc \in {"look", "mark"} => Owner[c] \in Users
Typed == TypeOK /\ SignedIn

LEMMA InitTyped == Init => Typed
BY Idles DEF Init, Typed, TypeOK, SignedIn, Idle, Request, Phases, Key

\* The requests keep the types.
LEMMA ViewTyped ==
  ASSUME Typed, NEW c \in Clients,
         \/ \E a \in Articles : GetArticleById(c, a)
         \/ View(c)
         \/ RequestFails(c)
  PROVE  Typed'
<1>0. /\ view \in [Clients -> Request]
      /\ \A a \in Articles, o \in Users \cup {Nobody} : UserViewKey(a, o) \in Key
  BY DEF Typed, TypeOK, Request, Key, UserViewKey
<1>1. \A v \in Request : [view EXCEPT ![c] = v] \in [Clients -> Request]
  BY <1>0
<1>2. ASSUME NEW a \in Articles, GetArticleById(c, a)  PROVE Typed'
  <2> DEFINE v == [pc |-> IF Owner[c] = Nobody THEN "count" ELSE "look", article |-> a]
  <2>1. v \in Request /\ (v.pc = "look" => Owner[c] \in Users) /\ v.pc # "mark"
    BY DEF Request
  <2>. HIDE DEF v
  <2>2. view' = [view EXCEPT ![c] = v]
    BY <1>2 DEF GetArticleById, v
  <2>3. view' \in [Clients -> Request] /\ SignedIn'
    BY <1>0, <1>1, <2>1, <2>2 DEF Typed, SignedIn
  <2>. QED  BY <1>2, <2>3 DEF GetArticleById, Typed, TypeOK, Request
<1>3. CASE HasViewed(c)
  <2>1. view' \in [Clients -> Request] /\ SignedIn'
    BY <1>0, <1>1, <1>3, Requests, Idles DEF HasViewed, Typed, SignedIn, Idle
  <2>. QED  BY <1>3, <2>1 DEF HasViewed, Typed, TypeOK, Request
<1>4. CASE SetUserView(c)
  <2>1. view' \in [Clients -> Request] /\ SignedIn'
    BY <1>0, <1>1, <1>4, Requests DEF SetUserView, Typed, SignedIn
  <2>2. view[c].article \in Articles
    BY <1>0, <1>4, Requests DEF SetUserView
  <2>3. redis' \in [Key -> Nat]
    BY <1>0, <1>4, <2>2 DEF SetUserView, Typed, TypeOK
  <2>. QED  BY <1>4, <2>1, <2>3 DEF SetUserView, Typed, TypeOK, Request
<1>5. CASE Incr(c)
  <2>1. view' \in [Clients -> Request] /\ SignedIn'
    BY <1>0, <1>1, <1>5, Idles DEF Incr, Typed, SignedIn, Idle
  <2>2. view[c].article \in Articles
    BY <1>0, <1>5, Requests DEF Incr
  <2>3. Owner[c] # Nobody => Owner[c] \in Users
    OBVIOUS
  <2>4. UNCHANGED <<readCount, phase, count, unmarked, failures, expiries, untouched>>
    BY <1>5 DEF Incr
  <2>5. redis' \in [Key -> Nat] /\ views' \in [Articles -> 0 .. MaxViews]
    BY <1>5, <2>2, KeysOfArticles DEF Incr, Typed, TypeOK
  <2>6. counted' \in [Articles -> [Users -> Nat]] /\ late' \in [Articles -> Nat]
    BY <1>5, <2>2, <2>3 DEF Incr, Typed, TypeOK
  <2>. QED  BY <2>1, <2>4, <2>5, <2>6 DEF Typed, TypeOK, Request
<1>6. CASE RequestFails(c)
  <2>1. view' \in [Clients -> Request] /\ SignedIn'
    BY <1>0, <1>1, <1>6, Idles DEF RequestFails, Typed, SignedIn, Idle
  <2>2. failures' \in 0 .. MaxFailures
    BY <1>6 DEF RequestFails, Typed, TypeOK
  <2>3. untouched' \in BOOLEAN
    BY <1>6, Zenon DEF RequestFails
  <2>4. UNCHANGED <<redis, readCount, phase, count, views, counted, unmarked, late, expiries>>
    BY <1>6 DEF RequestFails
  <2>. QED  BY <2>1, <2>2, <2>3, <2>4 DEF Typed, TypeOK, Request
<1>. QED  BY <1>2, <1>3, <1>4, <1>5, <1>6 DEF View

\* The runs of the job keep the types.
LEMMA RunTyped ==
  ASSUME Typed, NEW r \in Runs,
         \/ SyncViewCountsToDB(r)
         \/ \E k \in Key : KeyFails(r, k)
         \/ RunFails(r)
  PROVE  Typed'
<1>0. \A f \in [Key -> Phases] : [phase EXCEPT ![r] = f] \in [Runs -> [Key -> Phases]]
  BY DEF Typed, TypeOK
<1>1. CASE GetViewCountKeys(r)
  <2> DEFINE f == [k \in Key |-> IF k \in ViewCountKeys THEN "listed" ELSE "none"]
  <2>1. f \in [Key -> Phases]
    BY DEF Phases
  <2>2. phase' = [phase EXCEPT ![r] = f]
    BY <1>1 DEF GetViewCountKeys
  <2>. HIDE DEF f
  <2>3. phase' \in [Runs -> [Key -> Phases]] /\ untouched' \in BOOLEAN
    BY <1>0, <1>1, <2>1, <2>2 DEF GetViewCountKeys, Typed, TypeOK
  <2>. QED  BY <1>1, <2>3 DEF GetViewCountKeys, Typed, TypeOK, SignedIn
<1>2. ASSUME NEW k \in Key, Get(r, k)  PROVE Typed'
  BY <1>2 DEF Get, Typed, TypeOK, SignedIn, Phases
<1>3. ASSUME NEW k \in Key, UpdateArticleViewCount(r, k)  PROVE Typed'
  BY <1>3, KeyIsOne DEF UpdateArticleViewCount, Typed, TypeOK, SignedIn, Phases
<1>6. ASSUME NEW k \in Key, DeleteRedisKey(r, k)  PROVE Typed'
  <2>1. redis' \in [Key -> Nat] /\ unmarked' \in [Articles -> [Users -> Nat]]
    BY <1>6, KeyIsOne DEF DeleteRedisKey, Typed, TypeOK
  <2>2. phase' \in [Runs -> [Key -> Phases]] /\ count' \in [Runs -> [Key -> Nat]]
    BY <1>6 DEF DeleteRedisKey, Typed, TypeOK, Phases
  <2>. QED  BY <1>6, <2>1, <2>2 DEF DeleteRedisKey, Typed, TypeOK, SignedIn
<1>7. ASSUME NEW k \in Key, KeyFails(r, k)  PROVE Typed'
  <2>1. failures' \in 0 .. MaxFailures
    BY <1>7 DEF KeyFails, Typed, TypeOK
  <2>2. untouched' \in BOOLEAN
    BY <1>7, Zenon DEF KeyFails
  <2>3. UNCHANGED <<redis, readCount, view, views, counted, unmarked, late, expiries>>
    BY <1>7 DEF KeyFails
  <2>4. phase' \in [Runs -> [Key -> Phases]] /\ count' \in [Runs -> [Key -> Nat]]
    BY <1>7 DEF KeyFails, Typed, TypeOK, Phases
  <2>. QED  BY <2>1, <2>2, <2>3, <2>4 DEF Typed, TypeOK, SignedIn
<1>8. CASE RunFails(r)
  <2>1. [k \in Key |-> "none"] \in [Key -> Phases] /\ [k \in Key |-> 0] \in [Key -> Nat]
    BY DEF Phases
  <2>2. phase' \in [Runs -> [Key -> Phases]] /\ count' \in [Runs -> [Key -> Nat]]
    BY <1>8, <2>1 DEF RunFails, Typed, TypeOK
  <2>3. failures' \in 0 .. MaxFailures
    BY <1>8 DEF RunFails, Typed, TypeOK
  <2>4. untouched' \in BOOLEAN
    BY <1>8, Zenon DEF RunFails
  <2>5. UNCHANGED <<redis, readCount, view, views, counted, unmarked, late, expiries>>
    BY <1>8 DEF RunFails
  <2>. QED  BY <2>2, <2>3, <2>4, <2>5 DEF Typed, TypeOK, SignedIn
<1>. QED  BY <1>1, <1>2, <1>3, <1>6, <1>7, <1>8 DEF SyncViewCountsToDB

LEMMA NextTyped == Typed /\ [Next]_vars => Typed'
<1>1. ASSUME Typed, NEW a \in Articles, NEW u \in Users, Expire(a, u)  PROVE Typed'
  BY <1>1, KeysOfArticles DEF Expire, Typed, TypeOK, SignedIn
<1>2. ASSUME Typed, UNCHANGED vars  PROVE Typed'
  BY <1>2 DEF vars, Typed, TypeOK, SignedIn
<1>. QED  BY <1>1, <1>2, ViewTyped, RunTyped DEF Next

\* Counters, requests, runs and histories keep their types, and the bounds
\* of the instance are kept.
THEOREM TypeCorrect == Spec => []TypeOK
<1>1. Typed => TypeOK
  BY DEF Typed
<1>. QED  BY <1>1, InitTyped, NextTyped, PTL DEF Spec

-----------------------------------------------------------------------------
\* What a run that has read a counter, or has added it, may still delete is
\* covered by the article and by the views counted since.
Covered(a) ==
    LET k == ViewCountKey(a) IN
    /\ readCount[a] + redis[k] + late[a] >= views[a]
    /\ \A r \in Runs :
         /\ phase[r][k] = "read" => readCount[a] + count[r][k] + late[a] >= views[a]
         /\ phase[r][k] = "updated" => readCount[a] + late[a] >= views[a]

LEMMA InitCovered == Init => \A a \in Articles : Covered(a)
BY KeysOfArticles DEF Init, Covered

LEMMA NextCovered ==
  ASSUME Typed, NEW a \in Articles, Covered(a), [Next]_vars
  PROVE  Covered(a)'
<1> DEFINE k == ViewCountKey(a)
<1>1. /\ k \in Key /\ k.article = a /\ k.user = Nobody
      /\ \A l \in Key : l.user = Nobody /\ l.article = a => l = k
      /\ \A b \in Articles : ViewCountKey(b) = k => b = a
      /\ \A b \in Articles, u \in Users : UserViewKey(b, u) # k
      /\ \A b \in Articles, u \in Users : UserViewKey(b, u) \in Key
      /\ \A b \in Articles : ViewCountKey(b) \in Key
  BY KeysOfArticles, KeyIsOne
<1>2. /\ redis[k] \in Nat /\ readCount[a] \in Nat /\ late[a] \in Nat /\ views[a] \in Nat
      /\ \A r \in Runs : count[r][k] \in Nat
  BY <1>1 DEF Typed, TypeOK
<1>3. /\ redis \in [Key -> Nat] /\ readCount \in [Articles -> Nat]
      /\ late \in [Articles -> Nat] /\ views \in [Articles -> 0 .. MaxViews]
      /\ phase \in [Runs -> [Key -> Phases]] /\ count \in [Runs -> [Key -> Nat]]
  BY DEF Typed, TypeOK
<1>4. \A c \in Clients : view[c].pc # "idle" => view[c].article \in Articles
  BY Requests DEF Typed, TypeOK, Request
<1> HIDE DEF k
<1>0. /\ readCount[a] + redis[k] + late[a] >= views[a]
      /\ \A r \in Runs :
           /\ phase[r][k] = "read" => readCount[a] + count[r][k] + late[a] >= views[a]
           /\ phase[r][k] = "updated" => readCount[a] + late[a] >= views[a]
  BY DEF Covered, k
<1> DEFINE Goal == /\ readCount'[a] + redis'[k] + late'[a] >= views'[a]
                   /\ \A r \in Runs :
                        /\ phase'[r][k] = "read" =>
                             readCount'[a] + count'[r][k] + late'[a] >= views'[a]
                        /\ phase'[r][k] = "updated" =>
                             readCount'[a] + late'[a] >= views'[a]
<1>5. ASSUME NEW c \in Clients,
             \/ \E b \in Articles : GetArticleById(c, b)
             \/ HasViewed(c)
             \/ RequestFails(c)
      PROVE  Goal
  BY <1>0, <1>5 DEF GetArticleById, HasViewed, RequestFails
<1>6. ASSUME NEW c \in Clients, SetUserView(c)  PROVE Goal
  <2>1. view[c].article \in Articles /\ Owner[c] \in Users
    BY <1>4, <1>6 DEF SetUserView, Typed, SignedIn
  <2>2. redis'[k] = redis[k]
    BY <1>1, <1>3, <1>6, <2>1 DEF SetUserView
  <2>. QED  BY <1>0, <1>6, <2>2 DEF SetUserView
<1>7. ASSUME NEW c \in Clients, Incr(c)  PROVE Goal
  <2> DEFINE b == view[c].article
  <2>1. b \in Articles
    BY <1>4, <1>7 DEF Incr
  <2>2. UNCHANGED <<readCount, phase, count>>
    BY <1>7 DEF Incr
  <2>3. CASE b = a
    <3>1. redis'[k] = redis[k] + 1 /\ views'[a] = views[a] + 1
      BY <1>1, <1>3, <1>7, <2>3 DEF Incr, k
    <3>2. late'[a] = IF Held(a) THEN late[a] + 1 ELSE late[a]
      BY <1>3, <1>7, <2>3 DEF Incr
    <3>3. \A r \in Runs : phase[r][k] \in {"read", "updated"} => Held(a)
      BY DEF Held, k
    <3>. QED  BY <1>0, <1>2, <2>2, <3>1, <3>2, <3>3
  <2>4. CASE b # a
    <3>1. redis'[k] = redis[k] /\ views'[a] = views[a] /\ late'[a] = late[a]
      BY <1>1, <1>3, <1>7, <2>1, <2>4 DEF Incr
    <3>. QED  BY <1>0, <2>2, <3>1
  <2>. QED  BY <2>3, <2>4
<1>8. ASSUME NEW b \in Articles, NEW u \in Users, Expire(b, u)  PROVE Goal
  BY <1>0, <1>1, <1>3, <1>8 DEF Expire
<1>9. ASSUME NEW r \in Runs, GetViewCountKeys(r)  PROVE Goal
  <2>1. \A s \in Runs : phase'[s][k] \in {"read", "updated"} => phase'[s][k] = phase[s][k]
    BY <1>1, <1>3, <1>9 DEF GetViewCountKeys
  <2>2. UNCHANGED <<redis, readCount, count, late, views>>
    BY <1>9 DEF GetViewCountKeys
  <2>. QED  BY <1>0, <2>1, <2>2
<1>10. ASSUME NEW r \in Runs, NEW l \in Key, Get(r, l)  PROVE Goal
  <2>1. \A s \in Runs : \/ /\ phase'[s][k] = phase[s][k]
                           /\ count'[s][k] = count[s][k]
                        \/ phase'[s][k] # "updated" /\ count'[s][k] = redis[k]
    BY <1>1, <1>3, <1>10 DEF Get
  <2>2. UNCHANGED <<redis, readCount, late, views>>
    BY <1>10 DEF Get
  <2>. QED  BY <1>0, <2>1, <2>2
<1>11. ASSUME NEW r \in Runs, NEW l \in Key, UpdateArticleViewCount(r, l)  PROVE Goal
  <2>1. UNCHANGED <<redis, count, late, views>>
    BY <1>11 DEF UpdateArticleViewCount
  <2>2. CASE l = k
    <3>1. /\ readCount'[a] = readCount[a] + count[r][k]
          /\ phase[r][k] = "read"
          /\ \A s \in Runs : s # r => phase'[s][k] = phase[s][k]
          /\ phase'[r][k] = "updated"
      BY <1>1, <1>3, <1>11, <2>2 DEF UpdateArticleViewCount
    <3>. QED  BY <1>0, <1>2, <2>1, <3>1
  <2>3. CASE l # k
    <3>1. readCount'[a] = readCount[a] /\ \A s \in Runs : phase'[s][k] = phase[s][k]
      BY <1>1, <1>3, <1>11, <2>3, KeyIsOne DEF UpdateArticleViewCount
    <3>. QED  BY <1>0, <2>1, <3>1
  <2>. QED  BY <2>2, <2>3
<1>12. ASSUME NEW r \in Runs, NEW l \in Key, DeleteRedisKey(r, l)  PROVE Goal
  <2>1. UNCHANGED <<readCount, late, views>>
    BY <1>12 DEF DeleteRedisKey
  <2>2. \A s \in Runs : \/ /\ phase'[s][k] = phase[s][k]
                           /\ count'[s][k] = count[s][k]
                        \/ phase'[s][k] = "none"
    BY <1>1, <1>3, <1>12 DEF DeleteRedisKey
  <2>3. CASE l = k
    <3>1. phase[r][k] = "updated" /\ redis'[k] = 0
      BY <1>1, <1>3, <1>12, <2>3 DEF DeleteRedisKey
    <3>. QED  BY <1>0, <1>2, <2>1, <2>2, <3>1
  <2>4. CASE l # k
    <3>1. redis'[k] = redis[k]
      BY <1>1, <1>3, <1>12, <2>4 DEF DeleteRedisKey
    <3>. QED  BY <1>0, <2>1, <2>2, <3>1
  <2>. QED  BY <2>3, <2>4
<1>13. ASSUME NEW r \in Runs, (\E l \in Key : KeyFails(r, l)) \/ RunFails(r)  PROVE Goal
  <2>1. UNCHANGED <<redis, readCount, late, views>>
    BY <1>13 DEF KeyFails, RunFails
  <2>2. \A s \in Runs : \/ /\ phase'[s][k] = phase[s][k]
                           /\ count'[s][k] = count[s][k]
                        \/ phase'[s][k] = "none"
    BY <1>1, <1>3, <1>13 DEF KeyFails, RunFails
  <2>. QED  BY <1>0, <2>1, <2>2
<1>14. ASSUME UNCHANGED vars  PROVE Goal
  <2>1. UNCHANGED <<redis, readCount, late, views, phase, count>>
    BY <1>14 DEF vars
  <2>. QED  BY <1>0, <2>1
<1> HIDE DEF Goal
<1>15. Goal
  BY Zenon, <1>5, <1>6, <1>7, <1>8, <1>9, <1>10, <1>11, <1>12, <1>13, <1>14
     DEF Next, View, SyncViewCountsToDB
<1>. QED  BY <1>15 DEF Goal, Covered, k

\* Whatever fails, is repeated or overlaps, no view is lost but those that
\* were counted while a run held an older count.
THEOREM NothingElseLost == Spec => []LostOnlyWhileHeld
<1> DEFINE All == \A a \in Articles : Covered(a)
<1>1. Init => All
  BY InitCovered
<1>2. Typed /\ All /\ [Next]_vars => All'
  BY NextCovered
<1>3. All => LostOnlyWhileHeld
  BY DEF Covered, LostOnlyWhileHeld
<1>. QED  BY <1>1, <1>2, <1>3, InitTyped, NextTyped, PTL DEF Spec

-----------------------------------------------------------------------------
\* With no failure and no overlap, the run that has read a counter has read no
\* more than it still is, and what it has added it has yet to delete.
Alone == \A r, s \in Runs : Going(r) /\ Going(s) => r = s
Exact(a) ==
    LET k == ViewCountKey(a) IN
    /\ \A r \in Runs :
         /\ phase[r][k] \in {"read", "updated"} => count[r][k] <= redis[k]
         /\ phase[r][k] = "updated" =>
              readCount[a] + redis[k] <= views[a] + count[r][k]
    /\ (\A r \in Runs : phase[r][k] # "updated") => readCount[a] + redis[k] <= views[a]
Untouched == untouched => Alone /\ \A a \in Articles : Exact(a)

LEMMA InitUntouched == Init => Untouched
BY KeysOfArticles DEF Init, Untouched, Alone, Going, Exact

LEMMA NextAlone ==
  ASSUME Typed, Untouched, [Next]_vars, untouched'
  PROVE  Alone' /\ untouched
<1>1. untouched
  BY DEF Next, vars, View, SyncViewCountsToDB, GetArticleById, HasViewed, SetUserView,
         Incr, RequestFails, Expire, GetViewCountKeys, Get, UpdateArticleViewCount,
         DeleteRedisKey, KeyFails, RunFails
<1>2. phase \in [Runs -> [Key -> Phases]]
  BY DEF Typed, TypeOK
<1>3. ASSUME \A r \in Runs : Going(r)' => Going(r)  PROVE Alone'
  BY <1>1, <1>3 DEF Untouched, Alone
<1>4. ASSUME UNCHANGED phase  PROVE Alone'
  BY <1>3, <1>4 DEF Going
<1>5. ASSUME NEW r \in Runs, GetViewCountKeys(r)  PROVE Alone'
  <2>1. \A s \in Runs : ~Going(s)
    BY <1>5 DEF GetViewCountKeys
  <2>2. \A s \in Runs : s # r => phase'[s] = phase[s]
    BY <1>2, <1>5 DEF GetViewCountKeys
  <2>3. \A s \in Runs : s # r => ~Going(s)'
    BY <2>1, <2>2 DEF Going
  <2>. QED  BY <2>3 DEF Alone
<1>6. ASSUME NEW r \in Runs, NEW k \in Key,
             Get(r, k) \/ UpdateArticleViewCount(r, k) \/ DeleteRedisKey(r, k)
      PROVE  Alone'
  <2>1. phase[r][k] # "none" /\ \A s \in Runs : s # r => phase'[s] = phase[s]
    BY <1>2, <1>6 DEF Get, UpdateArticleViewCount, DeleteRedisKey
  <2>2. \A s \in Runs : Going(s)' => Going(s)
    BY <2>1 DEF Going
  <2>. QED  BY <2>2, <1>3
<1>7. CASE \E c \in Clients : \/ \E a \in Articles : GetArticleById(c, a)
                              \/ View(c)
                              \/ RequestFails(c)
  BY <1>4, <1>7 DEF GetArticleById, View, HasViewed, SetUserView, Incr, RequestFails
<1>8. CASE \E a \in Articles, u \in Users : Expire(a, u)
  BY <1>4, <1>8 DEF Expire
<1>9. CASE \E r \in Runs : (\E k \in Key : KeyFails(r, k)) \/ RunFails(r)
  BY <1>9 DEF KeyFails, RunFails
<1>10. CASE UNCHANGED vars
  BY <1>4, <1>10 DEF vars
<1>. QED  BY <1>1, <1>5, <1>6, <1>7, <1>8, <1>9, <1>10 DEF Next, SyncViewCountsToDB

LEMMA NextExact ==
  ASSUME Typed, Untouched, [Next]_vars, untouched', NEW a \in Articles
  PROVE  Exact(a)'
<1> DEFINE k == ViewCountKey(a)
<1>1. /\ k \in Key /\ k.article = a /\ k.user = Nobody
      /\ \A l \in Key : l.user = Nobody /\ l.article = a => l = k
      /\ \A b \in Articles : ViewCountKey(b) = k => b = a
      /\ \A b \in Articles, u \in Users : UserViewKey(b, u) # k
      /\ \A b \in Articles, u \in Users : UserViewKey(b, u) \in Key
      /\ \A b \in Articles : ViewCountKey(b) \in Key
  BY KeysOfArticles, KeyIsOne
<1>2. /\ redis[k] \in Nat /\ readCount[a] \in Nat /\ views[a] \in Nat
      /\ \A r \in Runs : count[r][k] \in Nat
  BY <1>1 DEF Typed, TypeOK
<1>3. /\ redis \in [Key -> Nat] /\ readCount \in [Articles -> Nat]
      /\ views \in [Articles -> 0 .. MaxViews]
      /\ phase \in [Runs -> [Key -> Phases]] /\ count \in [Runs -> [Key -> Nat]]
  BY DEF Typed, TypeOK
<1>4. \A c \in Clients : view[c].pc # "idle" => view[c].article \in Articles
  BY Requests DEF Typed, TypeOK, Request
<1>5. Alone /\ Exact(a)
  BY NextAlone DEF Untouched
<1> HIDE DEF k
<1>0. /\ \A r \in Runs :
           /\ phase[r][k] \in {"read", "updated"} => count[r][k] <= redis[k]
           /\ phase[r][k] = "updated" =>
                readCount[a] + redis[k] <= views[a] + count[r][k]
      /\ (\A r \in Runs : phase[r][k] # "updated") => readCount[a] + redis[k] <= views[a]
  BY <1>5 DEF Exact, k
<1> DEFINE Goal ==
      /\ \A r \in Runs :
           /\ phase'[r][k] \in {"read", "updated"} => count'[r][k] <= redis'[k]
           /\ phase'[r][k] = "updated" =>
                readCount'[a] + redis'[k] <= views'[a] + count'[r][k]
      /\ (\A r \in Runs : phase'[r][k] # "updated") => readCount'[a] + redis'[k] <= views'[a]
<1>6. ASSUME \/ \E c \in Clients : \/ \E b \in Articles : GetArticleById(c, b)
                                   \/ HasViewed(c)
             \/ UNCHANGED vars
      PROVE  Goal
  <2>1. UNCHANGED <<redis, readCount, phase, count, views>>
    BY <1>6 DEF GetArticleById, HasViewed, vars
  <2>. QED  BY <1>0, <2>1
<1>7. ASSUME NEW c \in Clients, SetUserView(c)  PROVE Goal
  <2>1. view[c].article \in Articles /\ Owner[c] \in Users
    BY <1>4, <1>7 DEF SetUserView, Typed, SignedIn
  <2>2. redis'[k] = redis[k]
    BY <1>1, <1>3, <1>7, <2>1 DEF SetUserView
  <2>. QED  BY <1>0, <1>7, <2>2 DEF SetUserView
<1>8. ASSUME NEW c \in Clients, Incr(c)  PROVE Goal
  <2>1. view[c].article \in Articles /\ UNCHANGED <<readCount, phase, count>>
    BY <1>4, <1>8 DEF Incr
  <2>2. \/ redis'[k] = redis[k] + 1 /\ views'[a] = views[a] + 1
        \/ redis'[k] = redis[k] /\ views'[a] = views[a]
    <3>1. CASE view[c].article = a
      BY <1>1, <1>3, <1>8, <3>1 DEF Incr, k
    <3>2. CASE view[c].article # a
      BY <1>1, <1>3, <1>8, <2>1, <3>2 DEF Incr
    <3>. QED  BY <3>1, <3>2
  <2>. QED  BY <1>0, <1>2, <2>1, <2>2
<1>9. ASSUME NEW b \in Articles, NEW u \in Users, Expire(b, u)  PROVE Goal
  BY <1>0, <1>1, <1>3, <1>9 DEF Expire
<1>10. ASSUME NEW r \in Runs, GetViewCountKeys(r)  PROVE Goal
  <2>1. \A s \in Runs : ~Going(s)
    BY <1>10 DEF GetViewCountKeys
  <2>2. \A s \in Runs : phase[s][k] = "none" /\ phase'[s][k] \in {"none", "listed"}
    BY <1>1, <1>3, <1>10, <2>1 DEF GetViewCountKeys, Going
  <2>3. UNCHANGED <<redis, readCount, count, views>>
    BY <1>10 DEF GetViewCountKeys
  <2>. QED  BY <1>0, <2>2, <2>3
\* Only r is going.
<1>11. ASSUME NEW r \in Runs, NEW l \in Key, phase[r][l] # "none"
       PROVE  \A s \in Runs : s # r => phase[s][k] = "none"
  BY <1>1, <1>5, <1>11 DEF Alone, Going
<1>12. ASSUME NEW r \in Runs, NEW l \in Key, Get(r, l)  PROVE Goal
  <2>1. \A s \in Runs : s # r => phase[s][k] = "none" /\ phase'[s][k] = "none"
    BY <1>1, <1>3, <1>11, <1>12 DEF Get
  <2>2. UNCHANGED <<redis, readCount, views>>
    BY <1>12 DEF Get
  <2>3. CASE l = k
    <3>1. phase[r][k] = "listed" /\ phase'[r][k] # "updated" /\ count'[r][k] = redis[k]
      BY <1>1, <1>3, <1>12, <2>3 DEF Get
    <3>2. readCount[a] + redis[k] <= views[a]
      BY <1>0, <2>1, <3>1
    <3>. QED  BY <1>2, <2>1, <2>2, <3>1, <3>2
  <2>4. CASE l # k
    <3>1. \A s \in Runs : phase'[s][k] = phase[s][k] /\ count'[s][k] = count[s][k]
      BY <1>1, <1>3, <1>12, <2>4 DEF Get
    <3>. QED  BY <1>0, <2>2, <3>1
  <2>. QED  BY <2>3, <2>4
<1>13. ASSUME NEW r \in Runs, NEW l \in Key, UpdateArticleViewCount(r, l)  PROVE Goal
  <2>1. UNCHANGED <<redis, count, views>>
    BY <1>13 DEF UpdateArticleViewCount
  <2>2. CASE l = k
    <3>1. /\ readCount'[a] = readCount[a] + count[r][k]
          /\ phase[r][k] = "read" /\ phase'[r][k] = "updated"
          /\ \A s \in Runs : s # r => phase[s][k] = "none" /\ phase'[s][k] = "none"
      BY <1>1, <1>3, <1>11, <1>13, <2>2 DEF UpdateArticleViewCount
    <3>2. readCount[a] + redis[k] <= views[a] /\ count[r][k] <= redis[k]
      BY <1>0, <3>1
    <3>. QED  BY <1>2, <2>1, <3>1, <3>2
  <2>3. CASE l # k
    <3>1. readCount'[a] = readCount[a] /\ \A s \in Runs : phase'[s][k] = phase[s][k]
      BY <1>1, <1>3, <1>13, <2>3, KeyIsOne DEF UpdateArticleViewCount
    <3>. QED  BY <1>0, <2>1, <3>1
  <2>. QED  BY <2>2, <2>3
<1>14. ASSUME NEW r \in Runs, NEW l \in Key, DeleteRedisKey(r, l)  PROVE Goal
  <2>1. UNCHANGED <<readCount, views>>
    BY <1>14 DEF DeleteRedisKey
  <2>2. CASE l = k
    <3>1. /\ redis'[k] = 0 /\ phase[r][k] = "updated"
          /\ \A s \in Runs : phase'[s][k] = "none"
      BY <1>1, <1>3, <1>11, <1>14, <2>2 DEF DeleteRedisKey
    <3>2. readCount[a] <= views[a]
      BY <1>0, <1>2, <3>1
    <3>. QED  BY <1>2, <2>1, <3>1, <3>2
  <2>3. CASE l # k
    <3>1. /\ redis'[k] = redis[k]
          /\ \A s \in Runs : phase'[s][k] = phase[s][k] /\ count'[s][k] = count[s][k]
      BY <1>1, <1>3, <1>14, <2>3 DEF DeleteRedisKey
    <3>. QED  BY <1>0, <2>1, <3>1
  <2>. QED  BY <2>2, <2>3
<1>15. ASSUME \/ \E c \in Clients : RequestFails(c)
              \/ \E r \in Runs : (\E l \in Key : KeyFails(r, l)) \/ RunFails(r)
       PROVE  Goal
  BY <1>15 DEF RequestFails, KeyFails, RunFails
<1> HIDE DEF Goal
<1>16. Goal
  BY Zenon, <1>6, <1>7, <1>8, <1>9, <1>10, <1>12, <1>13, <1>14, <1>15
     DEF Next, View, SyncViewCountsToDB
<1>. QED  BY <1>16 DEF Goal, Exact, k

\* While no call fails and no two runs meet, an article has at most the views
\* that were counted.
THEOREM NothingCountedTwice == Spec => []NeverMoreThanViews
<1>1. Typed /\ Untouched /\ [Next]_vars => Untouched'
  BY NextAlone, NextExact DEF Untouched
<1>2. ASSUME Typed, Untouched  PROVE NeverMoreThanViews
  <2> SUFFICES ASSUME untouched, NEW a \in Articles  PROVE readCount[a] <= views[a]
    BY DEF NeverMoreThanViews
  <2> DEFINE k == ViewCountKey(a)
  <2>1. /\ k \in Key /\ redis[k] \in Nat /\ readCount[a] \in Nat /\ views[a] \in Nat
        /\ \A r \in Runs : count[r][k] \in Nat
    BY <1>2, KeysOfArticles DEF Typed, TypeOK
  <2>2. Exact(a)
    BY <1>2 DEF Untouched
  <2> HIDE DEF k
  <2>3. CASE \A r \in Runs : phase[r][k] # "updated"
    <3>1. readCount[a] + redis[k] <= views[a]
      BY <2>2, <2>3 DEF Exact, k
    <3>. QED  BY <2>1, <3>1
  <2>4. ASSUME NEW r \in Runs, phase[r][k] = "updated"  PROVE readCount[a] <= views[a]
    <3>1. count[r][k] <= redis[k] /\ readCount[a] + redis[k] <= views[a] + count[r][k]
      BY <2>2, <2>4 DEF Exact, k
    <3>. QED  BY <2>1, <3>1
  <2>. QED  BY <2>3, <2>4
<1>. QED  BY <1>1, <1>2, InitUntouched, InitTyped, NextTyped, PTL DEF Spec

-----------------------------------------------------------------------------
\* A view is counted for a user on the mark its only client has just set; what
\* is counted, or about to be, is covered by the mark and the marks removed.
Marked(a, u) == IF redis[UserViewKey(a, u)] > 0 THEN 1 ELSE 0
Coming(a, u) ==
    IF \E c \in Clients : Owner[c] = u /\ view[c].pc = "count" /\ view[c].article = a
      THEN 1 ELSE 0
Accounted(a, u) ==
    /\ counted[a][u] + Coming(a, u) <= Marked(a, u) + unmarked[a][u]
    /\ \A c \in Clients :
         Owner[c] = u /\ view[c].pc = "mark" /\ view[c].article = a => Marked(a, u) = 0

LEMMA InitAccounted ==
  ASSUME Init, NEW a \in Articles, NEW u \in Users
  PROVE  Accounted(a, u)
BY KeysOfArticles DEF Init, Idle, Accounted, Marked, Coming

LEMMA NextAccounted ==
  ASSUME Typed, NEW a \in Articles, NEW u \in Users, OnlyClient(u), Accounted(a, u), [Next]_vars
  PROVE  Accounted(a, u)'
<1> DEFINE m == UserViewKey(a, u)
           Mine(c) == Owner[c] = u /\ view[c].article = a
<1>1. /\ m \in Key /\ m.article = a /\ m.user = u /\ u # Nobody
      /\ \A b \in Articles, v \in Users : UserViewKey(b, v) = m => b = a /\ v = u
      /\ \A b \in Articles, v \in Users : UserViewKey(b, v) \in Key
      /\ \A b \in Articles : ViewCountKey(b) \in Key /\ ViewCountKey(b) # m
      /\ \A l \in Key : l.user = u /\ l.article = a => l = m
  BY KeysOfArticles, KeyIsOne
<1>2. /\ redis \in [Key -> Nat] /\ view \in [Clients -> Request]
      /\ counted \in [Articles -> [Users -> Nat]] /\ unmarked \in [Articles -> [Users -> Nat]]
      /\ counted[a][u] \in Nat /\ unmarked[a][u] \in Nat /\ redis[m] \in Nat
  BY <1>1 DEF Typed, TypeOK, Request
<1>3. \A c \in Clients : /\ view[c].pc # "idle" => view[c].article \in Articles
                         /\ view[c].pc \in {"look", "mark"} => Owner[c] \in Users
  BY <1>2, Requests DEF Typed, SignedIn
<1>4. \A c, d \in Clients : Owner[c] = u /\ Owner[d] = u => c = d
  BY DEF OnlyClient
<1> HIDE DEF m
<1>5. /\ Marked(a, u) = IF redis[m] > 0 THEN 1 ELSE 0
      /\ Marked(a, u)' = IF redis'[m] > 0 THEN 1 ELSE 0
  BY DEF Marked, m
<1>6. /\ Coming(a, u) \in {0, 1} /\ Coming(a, u)' \in {0, 1}
      /\ Marked(a, u) \in {0, 1} /\ Marked(a, u)' \in {0, 1}
  BY DEF Coming, Marked
<1>7. /\ counted[a][u] + Coming(a, u) <= Marked(a, u) + unmarked[a][u]
      /\ \A c \in Clients : Mine(c) /\ view[c].pc = "mark" => Marked(a, u) = 0
  BY DEF Accounted
<1> DEFINE Goal == Accounted(a, u)'
\* Requests that give up, and runs of the job that touch no mark.
<1>8. ASSUME UNCHANGED <<view, redis, counted, unmarked>>  PROVE Goal
  BY <1>8 DEF Accounted, Marked, Coming
<1>9. ASSUME NEW c \in Clients, NEW b \in Articles, GetArticleById(c, b)  PROVE Goal
  <2>1. UNCHANGED <<redis, counted, unmarked>>
    BY <1>9 DEF GetArticleById
  <2>2. Owner[c] = u => view'[c].pc = "look"
    BY <1>1, <1>2, <1>9 DEF GetArticleById
  <2>3. \A d \in Clients : d # c => view'[d] = view[d]
    BY <1>2, <1>9 DEF GetArticleById
  <2>4. Coming(a, u)' = 1 => Coming(a, u) = 1
    BY <2>2, <2>3 DEF Coming
  <2>5. Marked(a, u)' = Marked(a, u)
    BY <1>5, <2>1
  <2>. QED  BY <1>2, <1>6, <1>7, <2>1, <2>2, <2>3, <2>4, <2>5 DEF Accounted
<1>10. ASSUME NEW c \in Clients, HasViewed(c)  PROVE Goal
  <2>1. UNCHANGED <<redis, counted, unmarked>>
    BY <1>10 DEF HasViewed
  <2>2. /\ view'[c].pc \in {"idle", "mark"}
        /\ Owner[c] = u /\ view'[c].pc = "mark" /\ view'[c].article = a => redis[m] = 0
    BY <1>2, <1>10 DEF HasViewed, Idle, m
  <2>3. \A d \in Clients : d # c => view'[d] = view[d]
    BY <1>2, <1>10 DEF HasViewed
  <2>4. Coming(a, u)' = 1 => Coming(a, u) = 1
    BY <2>2, <2>3 DEF Coming
  <2>5. Marked(a, u)' = Marked(a, u) /\ (redis[m] = 0 => Marked(a, u) = 0)
    BY <1>5, <2>1
  <2>. QED  BY <1>2, <1>6, <1>7, <2>1, <2>2, <2>3, <2>4, <2>5 DEF Accounted
<1>11. ASSUME NEW c \in Clients, SetUserView(c)  PROVE Goal
  <2>1. UNCHANGED <<counted, unmarked>> /\ view[c].pc = "mark"
    BY <1>11 DEF SetUserView
  <2>2. view'[c].pc = "count" /\ view'[c].article = view[c].article
    BY <1>2, <1>11 DEF SetUserView
  <2>3. \A d \in Clients : d # c => view'[d] = view[d]
    BY <1>2, <1>11 DEF SetUserView
  <2>4. CASE Mine(c)
    <3>1. redis'[m] = 1
      BY <1>1, <1>2, <1>11, <2>4 DEF SetUserView, m
    <3>2. Marked(a, u)' = 1 /\ Marked(a, u) = 0
      BY <1>5, <1>7, <2>1, <2>4, <3>1
    <3>3. Coming(a, u) = 0
      BY <1>4, <2>1, <2>4 DEF Coming
    <3>4. \A d \in Clients : Owner[d] = u => view'[d].pc # "mark"
      BY <1>4, <2>2, <2>4
    <3>. QED  BY <1>2, <1>6, <1>7, <2>1, <3>2, <3>3, <3>4 DEF Accounted
  <2>5. CASE ~Mine(c)
    <3>1. redis'[m] = redis[m]
      BY <1>1, <1>2, <1>3, <1>11, <2>5 DEF SetUserView
    <3>2. Coming(a, u)' = 1 => Coming(a, u) = 1
      BY <2>2, <2>3, <2>5 DEF Coming
    <3>3. Marked(a, u)' = Marked(a, u)
      BY <1>5, <3>1
    <3>. QED  BY <1>2, <1>6, <1>7, <2>1, <2>2, <2>3, <2>5, <3>2, <3>3 DEF Accounted
  <2>. QED  BY <2>4, <2>5
<1>12. ASSUME NEW c \in Clients, Incr(c)  PROVE Goal
  <2>1. view[c].pc = "count" /\ view[c].article \in Articles /\ UNCHANGED unmarked
    BY <1>3, <1>12 DEF Incr
  <2>2. view'[c].pc = "idle" /\ \A d \in Clients : d # c => view'[d] = view[d]
    BY <1>2, <1>12 DEF Incr, Idle
  <2>3. redis'[m] = redis[m]
    BY <1>1, <1>2, <1>12, <2>1 DEF Incr
  <2>4. Marked(a, u)' = Marked(a, u)
    BY <1>5, <2>3
  <2>5. CASE Mine(c)
    <3>1. counted'[a][u] = counted[a][u] + 1
      BY <1>1, <1>2, <1>12, <2>5 DEF Incr
    <3>2. Coming(a, u) = 1
      BY <2>1, <2>5 DEF Coming
    <3>3. Coming(a, u)' = 0
      BY <1>4, <2>2, <2>5 DEF Coming
    <3>. QED  BY <1>2, <1>6, <1>7, <2>1, <2>2, <2>4, <3>1, <3>2, <3>3 DEF Accounted
  <2>6. CASE ~Mine(c)
    <3>0. Owner[c] # Nobody => Owner[c] \in Users
      OBVIOUS
    <3>1. counted'[a][u] = counted[a][u]
      BY <1>1, <1>2, <1>12, <2>1, <2>6, <3>0 DEF Incr
    <3>2. Coming(a, u)' = 1 => Coming(a, u) = 1
      BY <2>2 DEF Coming
    <3>. QED  BY <1>2, <1>6, <1>7, <2>1, <2>2, <2>4, <3>1, <3>2 DEF Accounted
  <2>. QED  BY <2>5, <2>6
<1>13. ASSUME NEW c \in Clients, RequestFails(c)  PROVE Goal
  <2>1. UNCHANGED <<redis, counted, unmarked>>
    BY <1>13 DEF RequestFails
  <2>2. view'[c].pc = "idle" /\ \A d \in Clients : d # c => view'[d] = view[d]
    BY <1>2, <1>13 DEF RequestFails, Idle
  <2>3. Coming(a, u)' = 1 => Coming(a, u) = 1
    BY <2>2 DEF Coming
  <2>4. Marked(a, u)' = Marked(a, u)
    BY <1>5, <2>1
  <2>. QED  BY <1>2, <1>6, <1>7, <2>1, <2>2, <2>3, <2>4 DEF Accounted
\* A mark that goes, by its time to live or by the job, is written down.
<1>14. ASSUME UNCHANGED <<view, counted>>,
              \/ redis'[m] = redis[m] /\ unmarked'[a][u] = unmarked[a][u]
              \/ redis[m] = 0 /\ redis'[m] = 0 /\ unmarked'[a][u] = unmarked[a][u]
              \/ redis'[m] = 0 /\ unmarked'[a][u] = unmarked[a][u] + 1
       PROVE  Goal
  <2>1. Coming(a, u)' = Coming(a, u)
    BY <1>14 DEF Coming
  <2>2. \/ Marked(a, u)' = Marked(a, u) /\ unmarked'[a][u] = unmarked[a][u]
        \/ Marked(a, u)' = 0 /\ unmarked'[a][u] = unmarked[a][u] + 1
    BY <1>5, <1>14
  <2>. QED  BY <1>2, <1>6, <1>7, <1>14, <2>1, <2>2 DEF Accounted
<1>15. ASSUME NEW b \in Articles, NEW v \in Users, Expire(b, v)  PROVE Goal
  <2>1. UNCHANGED <<view, counted>>
    BY <1>15 DEF Expire
  <2>2. CASE b = a /\ v = u
    BY <1>1, <1>2, <1>14, <1>15, <2>1, <2>2 DEF Expire, m
  <2>3. CASE ~(b = a /\ v = u)
    BY <1>1, <1>2, <1>14, <1>15, <2>1, <2>3 DEF Expire
  <2>. QED  BY <2>2, <2>3
<1>16. ASSUME NEW r \in Runs, NEW l \in Key, DeleteRedisKey(r, l)  PROVE Goal
  <2>1. UNCHANGED <<view, counted>>
    BY <1>16 DEF DeleteRedisKey
  <2>2. CASE l = m /\ redis[m] > 0
    <3>1. redis'[m] = 0 /\ unmarked'[a][u] = unmarked[a][u] + 1
      BY <1>1, <1>2, <1>16, <2>2 DEF DeleteRedisKey
    <3>. QED  BY <1>14, <2>1, <3>1
  <2>3. CASE l = m /\ ~(redis[m] > 0)
    <3>1. redis[m] = 0 /\ redis'[m] = 0 /\ unmarked'[a][u] = unmarked[a][u]
      BY <1>1, <1>2, <1>16, <2>3 DEF DeleteRedisKey
    <3>. QED  BY <1>14, <2>1, <3>1
  <2>4. CASE l # m
    <3>1. ~(l.user = u /\ l.article = a) /\ l.article \in Articles
      BY <1>1, <2>4, KeyIsOne
    <3>2. l.user # Nobody => l.user \in Users
      BY KeyIsOne
    <3>3. redis'[m] = redis[m] /\ unmarked'[a][u] = unmarked[a][u]
      BY <1>1, <1>2, <1>16, <2>4, <3>1, <3>2 DEF DeleteRedisKey
    <3>. QED  BY <1>14, <2>1, <3>3
  <2>. QED  BY <2>2, <2>3, <2>4
<1>17. ASSUME \E r \in Runs :
                \/ GetViewCountKeys(r)
                \/ \E l \in Key : Get(r, l) \/ UpdateArticleViewCount(r, l) \/ KeyFails(r, l)
                \/ RunFails(r)
       PROVE  Goal
  <2>1. UNCHANGED <<view, redis, counted, unmarked>>
    BY <1>17 DEF GetViewCountKeys, Get, UpdateArticleViewCount, KeyFails, RunFails
  <2>. QED  BY <1>8, <2>1
<1>18. ASSUME UNCHANGED vars  PROVE Goal
  BY <1>8, <1>18 DEF vars
<1>. QED  BY Zenon, <1>9, <1>10, <1>11, <1>12, <1>13, <1>15, <1>16, <1>17, <1>18
          DEF Next, View, SyncViewCountsToDB

\* A user with one client is counted again only after its mark was removed.
THEOREM CountedOncePerMark == Spec => []OncePerMark
<1> DEFINE All == \A a \in Articles, u \in Users : OnlyClient(u) => Accounted(a, u)
<1>1. Init => All
  BY InitAccounted
<1>2. Typed /\ All /\ [Next]_vars => All'
  BY NextAccounted DEF OnlyClient
<1>3. ASSUME Typed, All  PROVE OncePerMark
  <2> SUFFICES ASSUME NEW a \in Articles, NEW u \in Users, OnlyClient(u)
               PROVE  counted[a][u] <= 1 + unmarked[a][u]
    BY DEF OncePerMark
  <2>1. counted[a][u] \in Nat /\ unmarked[a][u] \in Nat
    BY <1>3 DEF Typed, TypeOK
  <2>2. Coming(a, u) \in {0, 1} /\ Marked(a, u) \in {0, 1}
    BY DEF Coming, Marked
  <2>3. counted[a][u] + Coming(a, u) <= Marked(a, u) + unmarked[a][u]
    BY <1>3 DEF Accounted
  <2>. QED  BY <2>1, <2>2, <2>3
<1>. QED  BY <1>1, <1>2, <1>3, InitTyped, NextTyped, PTL DEF Spec

=============================================================================
