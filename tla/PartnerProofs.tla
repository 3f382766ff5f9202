----------------------------- MODULE PartnerProofs -----------------------------
(***************************************************************************)
(* What a search for partners, and what is stored of the preferences it    *)
(* reads, promise for every number of users, requests, options and types,  *)
(* and every order of the statements.                                      *)
(***************************************************************************)
EXTENDS CandidateSearch, Preferences, FiniteSetTheorems, TLAPS

-----------------------------------------------------------------------------
(* The collection of Qdrant, and the searches in it.                       *)

USE IndexAssumption

\* How far a job of each kind may be.
JobsInPlace ==
    \A j \in Jobs : job[j] # NoJob =>
        /\ job[j].kind = "withdraw" => job[j].pc \in {"write", "remove"}
        /\ job[j].kind \in {"refresh", "console"} => job[j].pc \in {"details", "preferences", "upsert"}
        /\ job[j].kind = "mbti" => job[j].pc \in {"write", "details", "preferences", "upsert"}
        /\ job[j].kind = "mbti" /\ job[j].pc = "write" => job[j].mbti \in Mbtis
        /\ job[j].pc \in {"preferences", "upsert"} => job[j].mbti \in Mbtis
        /\ job[j].pc = "upsert" => job[j].wants \in Prefs

\* A point is that of its user.
GenderShown == \A u \in Users : point[u] # NoPoint => point[u].gender = GenderOf[u]

For(j, u) == job[j] # NoJob /\ job[j].user = u

\* The jobs of an orderly user come one after the other, none embeds her after she
\* has withdrawn, and what a job has read of her MBTI type is still true.
Orderly ==
    \A u \in orderly :
        /\ \A j, k \in Jobs : For(j, u) /\ For(k, u) => j = k
        /\ \A j \in Jobs : For(j, u) /\ job[j].kind \in Embedding =>
              /\ ~withdrawn[u]
              /\ job[j].pc \in {"preferences", "upsert"} => job[j].mbti = mbti[u]

IndexInv == IndexTypeOK /\ JobsInPlace /\ GenderShown /\ Orderly /\ IndexFollows

-----------------------------------------------------------------------------
LEMMA IndexInitInv == IndexInit => IndexInv
<1> SUFFICES ASSUME IndexInit PROVE IndexInv
  OBVIOUS
<1>1. \A u \in Users : PointOf(u) \in Point /\ PointOf(u).gender = GenderOf[u] /\ PointOf(u).mbti = mbti[u]
  BY DEF IndexInit, PointOf, Point
<1>2. IndexTypeOK
  BY <1>1 DEF IndexInit, IndexTypeOK
<1> QED BY <1>1, <1>2 DEF IndexInit, IndexInv, JobsInPlace, GenderShown, Orderly, For, IndexFollows, Busy

\* A request arrives: its user is no longer orderly if she has another job, or has
\* withdrawn.
LEMMA StartInv ==
  ASSUME IndexInv, NEW j \in Jobs, NEW u \in Users, NEW kind \in Kinds,
         NEW at \in {"write", "details"}, NEW m \in Mbtis \cup {Null},
         kind \in {"refresh", "console"} => at = "details",
         kind = "withdraw" => at = "write",
         kind = "mbti" => m \in Mbtis,
         Start(j, kind, u, at, m)
  PROVE  IndexInv'
<1> DEFINE new == [kind |-> kind, user |-> u, pc |-> at, rank |-> Null, mbti |-> m, wants |-> Null]
<1> USE DEF IndexInv
<1>1. new \in Job
  BY DEF Job
<1>2. /\ job[j] = NoJob
      /\ job' = [job EXCEPT ![j] = new]
      /\ orderly' = IF Busy(u) \/ withdrawn[u] THEN orderly \ {u} ELSE orderly
      /\ UNCHANGED <<profileRows, point>>
  BY DEF Start
<1>3. new # NoJob /\ new.kind = kind /\ new.user = u /\ new.pc = at /\ new.mbti = m
  BY DEF NoJob, Kinds
<1> HIDE DEF new
<1>4. IndexTypeOK'
  BY <1>1, <1>2 DEF IndexTypeOK, profileRows
<1>5. \A k \in Jobs : job'[k] = IF k = j THEN new ELSE job[k]
  BY <1>2 DEF IndexTypeOK
<1>6. JobsInPlace'
  BY <1>3, <1>5 DEF JobsInPlace, Kinds
<1>7. GenderShown'
  BY <1>2 DEF GenderShown
<1>8. Orderly'
  BY <1>2, <1>3, <1>5 DEF Orderly, For, Busy, profileRows
<1>9. IndexFollows'
  BY <1>2, <1>3, <1>5 DEF IndexFollows, Busy, profileRows
<1> QED BY <1>4, <1>6, <1>7, <1>8, <1>9

\* A step of a job within its request.
LEMMA AdvanceInv ==
  ASSUME IndexInv, NEW j \in Jobs,
         WriteMbti(j) \/ ReadDetails(j) \/ ReadPreferences(j) \/ WithdrawUser(j)
  PROVE  IndexInv'
<1> USE DEF IndexInv
<1> DEFINE u == job[j].user
<1>1. job[j] # NoJob /\ job[j] \in Job /\ u \in Users
  BY DEF IndexTypeOK, At, WriteMbti, ReadDetails, ReadPreferences, WithdrawUser, Job
<1>2. job'[j] \in Job /\ job' = [job EXCEPT ![j] = job'[j]]
      /\ job'[j].kind = job[j].kind /\ job'[j].user = u
      /\ UNCHANGED <<point, orderly>>
  BY <1>1 DEF IndexTypeOK, WriteMbti, ReadDetails, ReadPreferences, WithdrawUser, KeepIndex, Job
<1>3. job'[j] # NoJob
  BY <1>1, <1>2 DEF Job, NoJob, Kinds
<1>4. \A k \in Jobs : k # j => job'[k] = job[k]
  BY <1>2 DEF IndexTypeOK
<1>5. For(j, u) /\ Busy(u)
  BY <1>1 DEF For, Busy
<1>6. \A k \in Jobs, v \in Users : For(k, v)' <=> For(k, v)
  BY <1>1, <1>2, <1>3, <1>4 DEF For
<1>7. \A v \in Users : Busy(v)' <=> Busy(v)
  BY <1>6 DEF For, Busy
<1>8. GenderShown'
  BY <1>2 DEF GenderShown
<1>9. IndexTypeOK' /\ JobsInPlace' /\ Orderly' /\ IndexFollows'
  <2>1. CASE WriteMbti(j)
    <3>1. /\ job[j].kind = "mbti" /\ job[j].pc = "write" /\ job'[j].pc = "details"
          /\ job[j].mbti \in Mbtis
          /\ mbti' = [mbti EXCEPT ![u] = job[j].mbti]
          /\ UNCHANGED <<rank, wants, withdrawn>>
      BY <2>1, <1>1 DEF WriteMbti, At, Job, IndexTypeOK, JobsInPlace
    <3> QED BY <1>1, <1>2, <1>3, <1>4, <1>5, <1>6, <1>7, <3>1
            DEF IndexTypeOK, JobsInPlace, Orderly, IndexFollows, Embedding
  <2>2. CASE ReadDetails(j)
    <3>1. /\ job[j].kind \in Embedding /\ job[j].pc = "details" /\ job'[j].pc = "preferences"
          /\ job'[j].mbti = mbti[u]
          /\ UNCHANGED <<rank, mbti, wants, withdrawn>>
      BY <2>2, <1>1 DEF ReadDetails, At, Job, IndexTypeOK, profileRows
    <3>2. IndexTypeOK' /\ IndexFollows'
      BY <1>2, <1>7, <3>1 DEF IndexTypeOK, IndexFollows
    <3>3. JobsInPlace'
      BY <1>1, <1>2, <1>4, <3>1 DEF IndexTypeOK, JobsInPlace
    <3>4. Orderly'
      BY <1>1, <1>2, <1>4, <1>5, <1>6, <3>1 DEF Orderly, For, IndexTypeOK
    <3> QED BY <3>2, <3>3, <3>4
  <2>3. CASE ReadPreferences(j)
    <3>1. /\ job[j].kind \in Embedding /\ job[j].pc = "preferences" /\ job'[j].pc = "upsert"
          /\ job'[j].mbti = job[j].mbti /\ job'[j].wants = wants[u]
          /\ UNCHANGED <<rank, mbti, wants, withdrawn>>
      BY <2>3, <1>1 DEF ReadPreferences, At, Job, IndexTypeOK, profileRows
    <3> QED BY <1>1, <1>2, <1>3, <1>4, <1>6, <1>7, <3>1
            DEF IndexTypeOK, JobsInPlace, Orderly, IndexFollows, Embedding
  <2>4. CASE WithdrawUser(j)
    <3>1. /\ job[j].kind = "withdraw" /\ job[j].pc = "write" /\ job'[j].pc = "remove"
          /\ withdrawn' = [withdrawn EXCEPT ![u] = TRUE]
          /\ UNCHANGED <<rank, mbti, wants>>
      BY <2>4, <1>1 DEF WithdrawUser, At, Job, IndexTypeOK
    <3>2. \A k \in Jobs : For(k, u) /\ u \in orderly => k = j
      BY <1>1, <1>5 DEF Orderly
    <3> QED BY <1>1, <1>2, <1>3, <1>4, <1>5, <1>6, <1>7, <3>1, <3>2
            DEF IndexTypeOK, JobsInPlace, Orderly, IndexFollows, Embedding, Kinds
  <2> QED BY <2>1, <2>2, <2>3, <2>4
<1> QED BY <1>8, <1>9

\* A job ends: it has stored what it read, has removed the point, or has failed.
LEMMA EndInv ==
  ASSUME IndexInv, NEW j \in Jobs, UpsertPoint(j) \/ RemovePoint(j) \/ JobFails(j)
  PROVE  IndexInv'
<1> USE DEF IndexInv
<1> DEFINE u == job[j].user
<1>1. job[j] # NoJob /\ job[j] \in Job /\ u \in Users
  BY DEF IndexTypeOK, At, UpsertPoint, RemovePoint, JobFails, Job
<1>2. job' = [job EXCEPT ![j] = NoJob] /\ UNCHANGED profileRows
  BY DEF UpsertPoint, RemovePoint, JobFails, Done
<1>3. \A k \in Jobs : job'[k] = IF k = j THEN NoJob ELSE job[k]
  BY <1>2 DEF IndexTypeOK
<1>4. \A k \in Jobs, v \in Users : For(k, v)' <=> k # j /\ For(k, v)
  BY <1>3 DEF For
<1>5. \A v \in Users : v # u => (Busy(v)' <=> Busy(v))
  BY <1>4, <1>1 DEF For, Busy
<1>6. JobsInPlace'
  BY <1>3 DEF JobsInPlace
<1>7. orderly' \subseteq orderly /\ Orderly'
  <2>1. orderly' \subseteq orderly
    BY DEF UpsertPoint, RemovePoint, JobFails
  <2> QED BY <2>1, <1>2, <1>3, <1>4 DEF Orderly, profileRows, IndexTypeOK
<1>8. IndexTypeOK' /\ GenderShown' /\ IndexFollows'
  <2>1. CASE UpsertPoint(j)
    <3> DEFINE p == [gender |-> GenderOf[u], rank |-> job[j].rank,
                     mbti |-> job[j].mbti, wants |-> job[j].wants]
    <3>1. /\ job[j].kind \in Embedding /\ job[j].pc = "upsert"
          /\ job[j].mbti \in Mbtis /\ job[j].wants \in Prefs /\ job[j].rank \in Ranks \cup {Null}
          /\ point' = [point EXCEPT ![u] = p] /\ orderly' = orderly
      BY <2>1, <1>1 DEF UpsertPoint, At, JobsInPlace, Job
    <3>2. p \in Point /\ p.gender = GenderOf[u] /\ p.mbti = job[j].mbti
      BY <3>1, <1>1 DEF Point
    <3> HIDE DEF p
    <3>3. \A v \in Users : point'[v] = IF v = u THEN p ELSE point[v]
      BY <3>1 DEF IndexTypeOK
    <3>4. u \in orderly => ~withdrawn[u] /\ job[j].mbti = mbti[u]
      BY <3>1, <1>1 DEF Orderly, For
    <3> QED BY <1>1, <1>2, <1>3, <1>5, <3>1, <3>2, <3>3, <3>4
            DEF IndexTypeOK, GenderShown, IndexFollows, profileRows
  <2>2. CASE RemovePoint(j)
    <3>1. point' = [point EXCEPT ![u] = NoPoint] /\ orderly' = orderly
      BY <2>2 DEF RemovePoint
    <3>3. \A v \in Users : point'[v] = IF v = u THEN NoPoint ELSE point[v]
      BY <3>1 DEF IndexTypeOK
    <3> QED BY <1>1, <1>2, <1>3, <1>5, <3>1, <3>3
            DEF IndexTypeOK, GenderShown, IndexFollows, profileRows
  <2>3. CASE JobFails(j)
    <3>1. point' = point /\ orderly' = orderly \ {u}
      BY <2>3 DEF JobFails
    <3> QED BY <1>1, <1>2, <1>3, <1>5, <3>1
            DEF IndexTypeOK, GenderShown, IndexFollows, profileRows
  <2> QED BY <2>1, <2>2, <2>3
<1> QED BY <1>6, <1>7, <1>8

\* What is not announced to the index.
LEMMA UnannouncedInv ==
  ASSUME IndexInv, NEW u \in Users,
         \/ \E w \in Prefs : UpdatePartnerPreferences(u, w)
         \/ \E r \in Ranks : SetRank(u, r)
         \/ DeleteQdrantUser(u)
  PROVE  IndexInv'
<1> USE DEF IndexInv
<1>1. UNCHANGED <<mbti, withdrawn, job, orderly>>
  BY DEF UpdatePartnerPreferences, SetRank, DeleteQdrantUser, profileRows
<1>2. \A v \in Users : point'[v] = point[v] \/ point'[v] = NoPoint
  BY DEF UpdatePartnerPreferences, SetRank, DeleteQdrantUser, IndexTypeOK
<1>3. IndexTypeOK'
  BY <1>1 DEF UpdatePartnerPreferences, SetRank, DeleteQdrantUser, IndexTypeOK, profileRows
<1>4. JobsInPlace' /\ Orderly'
  BY <1>1 DEF JobsInPlace, Orderly, For
<1>5. GenderShown' /\ IndexFollows'
  BY <1>1, <1>2, <1>3 DEF GenderShown, IndexFollows, Busy, IndexTypeOK
<1> QED BY <1>3, <1>4, <1>5

LEMMA IndexNextInv ==
  ASSUME IndexInv, IndexNext
  PROVE  IndexInv'
<1>1. ASSUME NEW j \in Jobs, NEW u \in Users, NEW m \in Mbtis, UpdateMbti(j, u, m)
      PROVE  IndexInv'
  BY <1>1, StartInv DEF UpdateMbti, Kinds
<1>2. ASSUME NEW j \in Jobs, NEW u \in Users, RefreshPoint(j, u)
      PROVE  IndexInv'
  BY <1>2, StartInv DEF RefreshPoint, Kinds
<1>3. ASSUME NEW j \in Jobs, NEW u \in Users, ConsoleEmbed(j, u)
      PROVE  IndexInv'
  BY <1>3, StartInv DEF ConsoleEmbed, Kinds
<1>4. ASSUME NEW j \in Jobs, NEW u \in Users, Withdraw(j, u)
      PROVE  IndexInv'
  BY <1>4, StartInv DEF Withdraw, Kinds
<1> QED BY <1>1, <1>2, <1>3, <1>4, AdvanceInv, EndInv, UnannouncedInv DEF IndexNext

-----------------------------------------------------------------------------
(* The search. *)

Pcs == {"point", "profile", "search", "relax", "done", "failed"}
RankClasses == {"S", "A", "B", "C"}
Query == [pc : Pcs, user : Users, type : Types, except : SUBSET Users,
          target : Genders \cup {Null}, ranks : SUBSET RankClasses, hidden : SUBSET Users,
          unwanted : SUBSET (Prefs \cup {Null}), aged : BOOLEAN, step : Nat, found : SUBSET Users,
          gone : SUBSET Users]

SearchTypeOK ==
    /\ search \in [Searches -> Query \cup {NoSearch}]
    /\ steady \subseteq {s \in Searches : search[s] # NoSearch}

\* The filter of a search hides the seeker and those she has been matched with, and
\* asks for the other gender, however far it has been relaxed.
FilterKept(q) ==
    /\ q.pc \in {"profile", "search", "relax"} => q.target = Partner(GenderOf[q.user])
    /\ q.pc \in {"search", "relax"} => q.hidden = q.except \cup {q.user}

FoundSound(q) ==
    \A v \in q.found : /\ v # q.user
                       /\ v \notin q.except
                       /\ GenderOf[v] # GenderOf[q.user]
                       /\ v \in orderly => v \notin q.gone

\* Who had withdrawn before a search, in good order and is still orderly, has no job.
GoneStays ==
    \A s \in Searches : search[s] # NoSearch =>
        \A v \in search[s].gone \cap orderly : withdrawn[v] /\ ~Busy(v)

\* Whom the seeker of q may be offered, and whom of them she wants.
Pool(q) == {v \in Users \ (q.except \cup {q.user}) :
              /\ point[v] # NoPoint /\ point[v].gender # GenderOf[q.user]
              /\ point[v].rank \in RankFilter(rank[q.user], q.type)}
Wanted(q) == {v \in Pool(q) : point[v].wants \notin Unwanted[wants[q.user]]}

\* What a search without a change around it has learnt from the steps before.
StepsExact(q) ==
    /\ q.pc \in {"point", "profile"} => q.found = {} /\ q.step = 0
    /\ q.pc \in {"search", "relax"} =>
         /\ q.found = {}
         /\ q.ranks = RankFilter(rank[q.user], q.type) /\ q.ranks # {}
         /\ q.step <= 1 => q.unwanted = Unwanted[wants[q.user]]
         /\ q.step >= 1 => ~q.aged
         /\ q.step >= 2 => q.unwanted = {} /\ Wanted(q) = {}
    /\ q.pc = "relax" /\ q.step = 1 => Wanted(q) = {}
    /\ q.pc = "failed" => point[q.user] = NoPoint \/ Null \in Unwanted[wants[q.user]]
    /\ q.pc = "done" =>
         /\ q.found \subseteq Pool(q)
         /\ q.found = {} => Pool(q) = {}
         /\ Wanted(q) # {} => q.found \subseteq Wanted(q)

SearchInv ==
    /\ SearchTypeOK
    /\ GoneStays
    /\ \A s \in Searches : search[s] # NoSearch => FilterKept(search[s]) /\ FoundSound(search[s])
    /\ \A s \in steady : StepsExact(search[s])
Inv == IndexInv /\ SearchInv

-----------------------------------------------------------------------------
\* There are two genders: a partner's is the other one.
LEMMA OtherGender ==
  ASSUME NEW g \in Genders
  PROVE  /\ Partner(g) \in Genders
         /\ \A h \in Genders : h # g <=> h = Partner(g)
<1>1. IsFiniteSet(Genders \ {g}) /\ Cardinality(Genders \ {g}) = 1
  BY FS_RemoveElement, SearchAssumption
<1>2. PICK h : Genders \ {g} = {h}
  BY <1>1, FS_Singleton
<1>3. Partner(g) \in Genders /\ Partner(g) # g
  BY <1>2 DEF Partner
<1> QED BY <1>2, <1>3

LEMMA RankFilterType ==
  ASSUME NEW r, NEW type
  PROVE  RankFilter(r, type) \in SUBSET RankClasses
BY DEF RankFilter, RankClasses

\* A point that is there has the fields of a point, and its user's gender.
LEMMA PointFields ==
  ASSUME IndexInv, NEW u \in Users, point[u] # NoPoint
  PROVE  point[u] \in Point /\ point[u].gender = GenderOf[u] /\ GenderOf[u] \in Genders
BY DEF IndexInv, IndexTypeOK, GenderShown

\* Nobody who withdrew in good order before the search has a point.
LEMMA GoneHasNoPoint ==
  ASSUME Inv, NEW s \in Searches, search[s] # NoSearch,
         NEW v \in Users, v \in search[s].gone, v \in orderly
  PROVE  point[v] = NoPoint
BY DEF Inv, IndexInv, SearchInv, GoneStays, IndexFollows

-----------------------------------------------------------------------------
LEMMA SearchInitInv == Init => Inv
  BY IndexInitInv DEF Init, Inv, SearchInv, SearchTypeOK, GoneStays

LEMMA StartSearchInv ==
  ASSUME Inv, NEW s \in Searches, NEW u \in Users, NEW type \in Types,
         NEW except \in SUBSET Users, StartSearch(s, u, type, except)
  PROVE  Inv'
<1> DEFINE new == [pc |-> "point", user |-> u, type |-> type, except |-> except, target |-> Null,
          ranks |-> {}, hidden |-> {}, unwanted |-> {}, aged |-> FALSE, step |-> 0, found |-> {},
          gone |-> {v \in Users : withdrawn[v] /\ ~Busy(v)}]
<1> USE DEF Inv, SearchInv
<1>1. new \in Query /\ new # NoSearch /\ new.pc = "point" /\ new.found = {} /\ new.step = 0
      /\ new.gone = {v \in Users : withdrawn[v] /\ ~Busy(v)}
  BY DEF Query, NoSearch, Pcs, SearchTypeOK
<1>2. search' = [search EXCEPT ![s] = new] /\ steady' = steady \cup {s}
      /\ UNCHANGED <<profileRows, point, job, orderly>>
  BY DEF StartSearch
<1> HIDE DEF new
<1>3. \A t \in Searches : search'[t] = IF t = s THEN new ELSE search[t]
  BY <1>2 DEF SearchTypeOK
<1>4. IndexInv'
  BY <1>2 DEF IndexInv, IndexTypeOK, JobsInPlace, GenderShown, Orderly, For, IndexFollows, Busy,
         profileRows
<1>5. SearchTypeOK'
  BY <1>1, <1>2 DEF SearchTypeOK
<1>6. GoneStays'
  BY <1>1, <1>2, <1>3 DEF GoneStays, Busy, profileRows
<1>7. (\A t \in Searches : search[t] # NoSearch => FilterKept(search[t]) /\ FoundSound(search[t]))'
  BY <1>1, <1>2, <1>3 DEF FilterKept, FoundSound
<1>8. \A q : StepsExact(q)' <=> StepsExact(q)
  BY <1>2 DEF StepsExact, Pool, Wanted, profileRows
<1>9. StepsExact(new)
  BY <1>1 DEF StepsExact
<1>10. (\A t \in steady : StepsExact(search[t]))'
  BY <1>2, <1>3, <1>8, <1>9 DEF SearchTypeOK
<1> QED BY <1>4, <1>5, <1>6, <1>7, <1>10

\* A step of a search changes nothing else: what it leaves to be shown is about its
\* own record.
LEMMA SearchStepInv ==
  ASSUME Inv, NEW s \in Searches, search[s] # NoSearch, NEW q \in Query,
         search' = [search EXCEPT ![s] = q], KeepAll, q.gone = search[s].gone,
         FilterKept(q), FoundSound(q), s \in steady => StepsExact(q)
  PROVE  Inv'
<1> USE DEF Inv, SearchInv
<1>1. UNCHANGED <<profileRows, point, job, orderly, steady>>
  BY DEF KeepAll, indexVars
<1>2. \A t \in Searches : search'[t] = IF t = s THEN q ELSE search[t]
  BY DEF SearchTypeOK
<1>3. q # NoSearch
  BY DEF Query, NoSearch, Pcs
<1>4. IndexInv'
  BY <1>1 DEF IndexInv, IndexTypeOK, JobsInPlace, GenderShown, Orderly, For, IndexFollows, Busy,
         profileRows
<1>5. SearchTypeOK'
  BY <1>1, <1>2, <1>3 DEF SearchTypeOK
<1>6. GoneStays'
  BY <1>1, <1>2 DEF GoneStays, Busy, profileRows
<1>7. \A r : /\ FilterKept(r)' <=> FilterKept(r)
             /\ FoundSound(r)' <=> FoundSound(r)
             /\ StepsExact(r)' <=> StepsExact(r)
  <2>1. \A r : Pool(r)' = Pool(r) /\ Wanted(r)' = Wanted(r)
    BY <1>1 DEF Pool, Wanted, profileRows
  <2>2. \A r : FilterKept(r)' <=> FilterKept(r)
    BY DEF FilterKept
  <2>3. \A r : FoundSound(r)' <=> FoundSound(r)
    BY <1>1 DEF FoundSound
  <2>4. \A r : StepsExact(r)' <=> StepsExact(r)
    BY <1>1, <2>1 DEF StepsExact, profileRows
  <2> QED BY <2>2, <2>3, <2>4
<1>8. (\A t \in Searches : search[t] # NoSearch => FilterKept(search[t]) /\ FoundSound(search[t]))'
  BY <1>2, <1>7
<1>9. (\A t \in steady : StepsExact(search[t]))'
  BY <1>1, <1>2, <1>7 DEF SearchTypeOK
<1> QED BY <1>4, <1>5, <1>6, <1>8, <1>9

\* What is known of the record of a search before a step of it.
LEMMA QueryFacts ==
  ASSUME Inv, NEW s \in Searches, NEW at \in Pcs, SearchAt(s, at)
  PROVE  /\ search[s] # NoSearch /\ search[s] \in Query /\ search[s].pc = at
         /\ search[s].user \in Users /\ GenderOf[search[s].user] \in Genders
         /\ wants[search[s].user] \in Prefs
         /\ FilterKept(search[s]) /\ FoundSound(search[s])
         /\ s \in steady => StepsExact(search[s])
BY DEF Inv, SearchInv, SearchTypeOK, SearchAt, NoSearch, Pcs, Query, IndexInv, IndexTypeOK

LEMMA SearchAgainFields ==
  ASSUME NEW q \in Query
  PROVE  LET new == [q EXCEPT !.pc = "search", !.step = q.step + 1]
         IN /\ new \in Query /\ new.pc = "search" /\ new.step = q.step + 1
            /\ new.ranks = q.ranks /\ new.hidden = q.hidden /\ new.unwanted = q.unwanted
            /\ new.aged = q.aged /\ new.type = q.type /\ new.target = q.target
            /\ new.found = q.found /\ new.user = q.user
            /\ new.except = q.except /\ new.gone = q.gone
<1> DEFINE n == q.step + 1
<1>1. n \in Nat
  BY DEF Query
<1> HIDE DEF n
<1>2. LET new == [q EXCEPT !.pc = "search", !.step = n]
      IN /\ new \in Query /\ new.pc = "search" /\ new.step = n
         /\ new.ranks = q.ranks /\ new.hidden = q.hidden /\ new.unwanted = q.unwanted
         /\ new.aged = q.aged /\ new.type = q.type /\ new.target = q.target
         /\ new.found = q.found /\ new.user = q.user
         /\ new.except = q.except /\ new.gone = q.gone
  BY <1>1 DEF Query, Pcs
<1> QED BY <1>2 DEF n

LEMMA RelaxedFields ==
  ASSUME NEW q \in Query, q.user \in Users, Partner(GenderOf[q.user]) \in Genders,
         q.target = Partner(GenderOf[q.user]), q.hidden = q.except \cup {q.user}
  PROVE  LET next == Relaxed(q)
         IN /\ next \in Query /\ next.step = q.step /\ next.type = q.type
            /\ next.user = q.user /\ next.except = q.except /\ next.gone = q.gone
            /\ next.found = q.found /\ next.target = q.target /\ next.hidden = q.hidden
            /\ next.ranks = q.ranks \/ next.ranks = RankFilter(rank[q.user], q.type)
            /\ q.step = 0 => next.unwanted = q.unwanted
            /\ q.step >= 1 => next.unwanted = {}
            /\ q.step = 1 => next.aged = q.aged
            /\ q.step # 1 => next.aged = FALSE
<1> DEFINE allowed == RankFilter(rank[q.user], q.type)
           next == Relaxed(q)
<1>1. allowed \in SUBSET RankClasses
  BY RankFilterType
<1>2. q.step \in Nat
  BY DEF Query
<1> HIDE DEF allowed
<1>3. CASE q.step = 0
  <2>1. next = [q EXCEPT !.aged = FALSE]
    BY <1>3 DEF Relaxed
  <2>2. /\ next \in Query /\ next.step = q.step /\ next.type = q.type
        /\ next.user = q.user /\ next.except = q.except /\ next.gone = q.gone
        /\ next.found = q.found /\ next.target = q.target /\ next.hidden = q.hidden
        /\ next.ranks = q.ranks /\ next.unwanted = q.unwanted /\ next.aged = FALSE
    BY <2>1 DEF Query
  <2> QED BY <1>3, <2>2
<1>4. CASE q.step = 1
  <2>1. next = [q EXCEPT !.unwanted = {}]
    BY <1>4 DEF Relaxed
  <2>2. /\ next \in Query /\ next.step = q.step /\ next.type = q.type
        /\ next.user = q.user /\ next.except = q.except /\ next.gone = q.gone
        /\ next.found = q.found /\ next.target = q.target /\ next.hidden = q.hidden
        /\ next.ranks = q.ranks /\ next.unwanted = {} /\ next.aged = q.aged
    BY <2>1 DEF Query
  <2> QED BY <1>4, <2>2
<1>5. CASE q.step > 1
  <2> DEFINE hidden == q.except \cup {q.user}
             gender == Partner(GenderOf[q.user])
  <2>1. next = [q EXCEPT !.aged = FALSE, !.unwanted = {}, !.hidden = hidden,
                         !.target = gender, !.ranks = allowed]
    BY <1>2, <1>5 DEF Relaxed, allowed
  <2>2. hidden \in SUBSET Users /\ gender \in Genders /\ hidden = q.hidden /\ gender = q.target
    BY DEF Query
  <2> HIDE DEF next, hidden, gender
  <2>3. /\ next \in Query /\ next.ranks = allowed /\ next.unwanted = {} /\ next.aged = FALSE
        /\ next.hidden = hidden /\ next.target = gender
        /\ next.step = q.step /\ next.type = q.type
        /\ next.user = q.user /\ next.except = q.except /\ next.gone = q.gone
        /\ next.found = q.found
    BY <1>1, <2>1, <2>2 DEF Query
  <2>4. q.step # 0 /\ q.step # 1 /\ q.step >= 1
    BY <1>2, <1>5
  <2>5. /\ next \in Query /\ next.step = q.step /\ next.type = q.type
        /\ next.user = q.user /\ next.except = q.except /\ next.gone = q.gone
        /\ next.found = q.found /\ next.target = q.target /\ next.hidden = q.hidden
        /\ next.ranks = RankFilter(rank[q.user], q.type)
        /\ next.unwanted = {} /\ next.aged = FALSE
    BY <2>2, <2>3 DEF allowed
  <2> QED BY <2>4, <2>5 DEF next
<1>6. q.step = 0 \/ q.step = 1 \/ q.step > 1
  BY <1>2
<1> QED BY <1>3, <1>4, <1>5, <1>6

LEMMA GetUserPointInv ==
  ASSUME Inv, NEW s \in Searches, GetUserPoint(s)
  PROVE  Inv'
<1> DEFINE q == search[s]
           p == point[q.user]
<1>1. /\ q # NoSearch /\ q \in Query /\ q.pc = "point" /\ q.user \in Users
      /\ GenderOf[q.user] \in Genders
      /\ FilterKept(q) /\ FoundSound(q)
      /\ s \in steady => StepsExact(q)
  BY QueryFacts DEF GetUserPoint, Pcs
<1>2. CASE p = NoPoint
  <2> DEFINE new == [q EXCEPT !.pc = "failed"]
  <2>1. search' = [search EXCEPT ![s] = new] /\ KeepAll
    BY <1>2 DEF GetUserPoint, Inv, SearchInv, SearchTypeOK
  <2>2. /\ new \in Query /\ new.pc = "failed"
        /\ new.found = q.found /\ new.user = q.user /\ new.except = q.except /\ new.gone = q.gone
    BY <1>1 DEF Query, Pcs
  <2> HIDE DEF new
  <2>3. FilterKept(new) /\ FoundSound(new) /\ StepsExact(new)
    BY <1>1, <1>2, <2>2 DEF FilterKept, FoundSound, StepsExact
  <2> QED BY <1>1, <2>1, <2>2, <2>3, SearchStepInv
<1>3. CASE p # NoPoint
  <2> DEFINE new == [q EXCEPT !.pc = "profile", !.target = Partner(p.gender)]
  <2>1. search' = [search EXCEPT ![s] = new] /\ KeepAll
    BY <1>3 DEF GetUserPoint, Inv, SearchInv, SearchTypeOK
  <2>2. p.gender = GenderOf[q.user]
    BY <1>1, <1>3, PointFields DEF Inv
  <2>3. /\ new \in Query /\ new.pc = "profile" /\ new.target = Partner(GenderOf[q.user])
        /\ new.found = q.found /\ new.user = q.user /\ new.except = q.except /\ new.gone = q.gone
        /\ new.step = q.step
    BY <1>1, <2>2, OtherGender DEF Query, Pcs
  <2> HIDE DEF new
  <2>4. FilterKept(new) /\ FoundSound(new)
    BY <1>1, <2>3 DEF FilterKept, FoundSound
  <2>5. s \in steady => StepsExact(new)
    BY <1>1, <2>3 DEF StepsExact
  <2> QED BY <1>1, <2>1, <2>3, <2>4, <2>5, SearchStepInv
<1> QED BY <1>2, <1>3

LEMMA FindCandidatesInv ==
  ASSUME Inv, NEW s \in Searches, FindCandidates(s)
  PROVE  Inv'
<1>0. PICK q : q = search[s]
  OBVIOUS
<1> DEFINE u == q.user
           allowed == RankFilter(rank[u], q.type)
<1>1. /\ q # NoSearch /\ q \in Query /\ q.pc = "profile" /\ u \in Users /\ wants[u] \in Prefs
      /\ FilterKept(q) /\ FoundSound(q)
      /\ s \in steady => StepsExact(q)
  BY <1>0, QueryFacts DEF FindCandidates, Pcs
<1>2. CASE allowed = {}
  <2> DEFINE new == [q EXCEPT !.pc = "done"]
  <2>1. search' = [search EXCEPT ![s] = new] /\ KeepAll
    BY <1>0, <1>2 DEF FindCandidates, Inv, SearchInv, SearchTypeOK
  <2>2. /\ new \in Query /\ new.pc = "done" /\ new.type = q.type
        /\ new.found = q.found /\ new.user = q.user /\ new.except = q.except /\ new.gone = q.gone
    BY <1>1 DEF Query, Pcs
  <2> HIDE DEF new
  <2>3. FilterKept(new) /\ FoundSound(new)
    BY <1>1, <2>2 DEF FilterKept, FoundSound
  <2>4. Pool(new) = {} /\ Wanted(new) = {}
    BY <1>2, <2>2 DEF Pool, Wanted
  <2>5. s \in steady => StepsExact(new)
    BY <1>1, <2>2, <2>4 DEF StepsExact
  <2> QED BY <1>0, <1>1, <2>1, <2>2, <2>3, <2>5, SearchStepInv
<1>3. CASE allowed # {}
  <2> DEFINE hidden == q.except \cup {u}
             unwanted == Unwanted[wants[u]]
             aged == wants[u] \in AgePrefs
             new == [q EXCEPT !.pc = "search", !.ranks = allowed, !.hidden = hidden,
                              !.unwanted = unwanted, !.aged = aged]
  <2>1. search' = [search EXCEPT ![s] = new] /\ KeepAll
    BY <1>0, <1>3 DEF FindCandidates
  <2>2. /\ allowed \in SUBSET RankClasses /\ hidden \in SUBSET Users
        /\ unwanted \in SUBSET (Prefs \cup {Null}) /\ aged \in BOOLEAN
    BY <1>1, RankFilterType, SearchAssumption DEF Query
  <2> HIDE DEF allowed, hidden, unwanted, aged
  <2>3. /\ new \in Query /\ new.pc = "search" /\ new.type = q.type /\ new.ranks = allowed
        /\ new.hidden = hidden /\ new.unwanted = unwanted
        /\ new.target = q.target /\ new.step = q.step /\ new.found = q.found
        /\ new.user = q.user /\ new.except = q.except /\ new.gone = q.gone
    BY <1>1, <2>2 DEF Query, Pcs
  <2> HIDE DEF new
  <2>4. FilterKept(new) /\ FoundSound(new)
    BY <1>1, <2>3 DEF FilterKept, FoundSound, hidden
  <2>5. s \in steady => StepsExact(new)
    BY <1>1, <1>3, <2>3 DEF StepsExact, allowed, unwanted
  <2> QED BY <1>0, <1>1, <2>1, <2>3, <2>4, <2>5, SearchStepInv
<1> QED BY <1>2, <1>3

\* What Qdrant finds for a filter: sound whatever has changed, and exactly those of the
\* pool whose preferences the filter does not refuse if nothing has.
LEMMA MatchingSound ==
  ASSUME Inv, NEW s \in Searches, SearchAt(s, "search"), NEW v \in Matching(search[s])
  PROVE  LET q == search[s] IN
         /\ v \in Users /\ v # q.user /\ v \notin q.except
         /\ GenderOf[v] # GenderOf[q.user]
         /\ v \in orderly => v \notin q.gone
<1> DEFINE q == search[s]
<1>1. /\ q # NoSearch /\ q \in Query /\ GenderOf[q.user] \in Genders
      /\ q.hidden = q.except \cup {q.user} /\ q.target = Partner(GenderOf[q.user])
  BY QueryFacts DEF Pcs, FilterKept
<1>2. v \in Users /\ v \notin q.hidden /\ point[v] # NoPoint /\ point[v].gender = q.target
  BY DEF Matching
<1>3. GenderOf[v] = Partner(GenderOf[q.user])
  BY <1>1, <1>2, PointFields DEF Inv
<1>4. v \in orderly => v \notin q.gone
  BY <1>1, <1>2, GoneHasNoPoint
<1> QED BY <1>1, <1>2, <1>3, <1>4, OtherGender

LEMMA MatchingExact ==
  ASSUME Inv, NEW s \in steady, s \in Searches, SearchAt(s, "search"), ~search[s].aged
  PROVE  Matching(search[s]) = {v \in Pool(search[s]) : point[v].wants \notin search[s].unwanted}
<1> DEFINE q == search[s]
<1>1. /\ GenderOf[q.user] \in Genders
      /\ q.hidden = q.except \cup {q.user} /\ q.target = Partner(GenderOf[q.user])
      /\ q.ranks = RankFilter(rank[q.user], q.type)
  BY QueryFacts DEF Pcs, FilterKept, StepsExact
<1>2. \A v \in Users : point[v] # NoPoint =>
         (point[v].gender = q.target <=> point[v].gender # GenderOf[q.user])
  BY <1>1, PointFields, OtherGender DEF Inv
<1> QED BY <1>1, <1>2 DEF Matching, Pool

LEMMA SearchPointsInv ==
  ASSUME Inv, NEW s \in Searches, SearchPoints(s)
  PROVE  Inv'
<1> DEFINE q == search[s]
<1>1. /\ q # NoSearch /\ q \in Query /\ q.pc = "search" /\ q.step \in Nat
      /\ FilterKept(q) /\ FoundSound(q)
      /\ s \in steady => StepsExact(q)
      /\ SearchAt(s, "search")
  BY QueryFacts DEF SearchPoints, Pcs, Query
<1>2. CASE Rejected(q)
  <2> DEFINE new == [q EXCEPT !.pc = "failed"]
  <2>1. search' = [search EXCEPT ![s] = new] /\ KeepAll
    BY <1>2 DEF SearchPoints, Inv, SearchInv, SearchTypeOK
  <2>2. /\ new \in Query /\ new.pc = "failed"
        /\ new.found = q.found /\ new.user = q.user /\ new.except = q.except /\ new.gone = q.gone
    BY <1>1 DEF Query, Pcs
  <2> HIDE DEF new
  <2>3. FilterKept(new) /\ FoundSound(new)
    BY <1>1, <2>2 DEF FilterKept, FoundSound
  <2>4. s \in steady => StepsExact(new)
    BY <1>1, <1>2, <2>2 DEF StepsExact, Rejected
  <2> QED BY <1>1, <2>1, <2>2, <2>3, <2>4, SearchStepInv
<1>3. ASSUME NEW found \in (SUBSET Matching(q)) \ {{}}, KeepAll,
             search' = [search EXCEPT ![s].pc = "done", ![s].found = found]
      PROVE  Inv'
  <2> DEFINE new == [q EXCEPT !.pc = "done", !.found = found]
  <2>1. search' = [search EXCEPT ![s] = new]
    BY <1>1, <1>3 DEF Inv, SearchInv, SearchTypeOK
  <2>2. \A v \in found : /\ v \in Users /\ v # q.user /\ v \notin q.except
                         /\ GenderOf[v] # GenderOf[q.user]
                         /\ v \in orderly => v \notin q.gone
    BY <1>1, MatchingSound
  <2>3. /\ new \in Query /\ new.pc = "done" /\ new.type = q.type /\ new.found = found
        /\ new.user = q.user /\ new.except = q.except /\ new.gone = q.gone
    BY <1>1, <2>2 DEF Query, Pcs
  <2> HIDE DEF new
  <2>4. FilterKept(new) /\ FoundSound(new)
    BY <2>2, <2>3 DEF FilterKept, FoundSound
  <2>5. Pool(new) = Pool(q) /\ Wanted(new) = Wanted(q)
    BY <2>3 DEF Pool, Wanted
  <2>6. ASSUME s \in steady PROVE StepsExact(new)
    <3>1. ~q.aged
      BY <1>1, <1>3 DEF Matching, Query
    <3>2. Matching(q) = {v \in Pool(q) : point[v].wants \notin q.unwanted}
      BY <1>1, <2>6, <3>1, MatchingExact
    <3>3. Wanted(q) # {} => q.unwanted = Unwanted[wants[q.user]]
      BY <1>1, <2>6 DEF StepsExact
    <3>4. Wanted(q) # {} => found \subseteq Wanted(q)
      BY <3>2, <3>3 DEF Wanted
    <3> QED BY <2>3, <2>5, <3>2, <3>4 DEF StepsExact
  <2> QED BY <1>1, <1>3, <2>1, <2>3, <2>4, <2>6, SearchStepInv
<1>4. ASSUME Matching(q) = {}, KeepAll,
             search' = [search EXCEPT ![s].pc = IF q.step >= 3 THEN "done" ELSE "relax"]
      PROVE  Inv'
  <2> DEFINE new == [q EXCEPT !.pc = IF q.step >= 3 THEN "done" ELSE "relax"]
  <2>1. search' = [search EXCEPT ![s] = new]
    BY <1>1, <1>4 DEF Inv, SearchInv, SearchTypeOK
  <2>2. /\ new \in Query /\ new.pc = (IF q.step >= 3 THEN "done" ELSE "relax")
        /\ new.type = q.type /\ new.found = q.found /\ new.target = q.target
        /\ new.hidden = q.hidden /\ new.ranks = q.ranks /\ new.unwanted = q.unwanted
        /\ new.aged = q.aged /\ new.step = q.step
        /\ new.user = q.user /\ new.except = q.except /\ new.gone = q.gone
    BY <1>1 DEF Query, Pcs
  <2> HIDE DEF new
  <2>3. FilterKept(new) /\ FoundSound(new)
    BY <1>1, <2>2 DEF FilterKept, FoundSound
  <2>4. Pool(new) = Pool(q) /\ Wanted(new) = Wanted(q)
    BY <2>2 DEF Pool, Wanted
  <2>5. ASSUME s \in steady PROVE StepsExact(new)
    <3>1. ~q.aged => {v \in Pool(q) : point[v].wants \notin q.unwanted} = {}
      BY <1>1, <1>4, <2>5, MatchingExact
    <3>2. q.step = 1 => Wanted(q) = {}
      BY <1>1, <2>5, <3>1 DEF StepsExact, Wanted
    <3>3. q.step >= 3 => Pool(q) = {} /\ q.found = {} /\ Wanted(q) = {}
      BY <1>1, <2>5, <3>1 DEF StepsExact
    <3> QED BY <1>1, <2>2, <2>4, <2>5, <3>2, <3>3 DEF StepsExact
  <2> QED BY <1>1, <1>4, <2>1, <2>2, <2>3, <2>5, SearchStepInv
<1> QED BY <1>2, <1>3, <1>4 DEF SearchPoints

LEMMA RelaxInv ==
  ASSUME Inv, NEW s \in Searches, GetNextFilterStrategy(s)
  PROVE  Inv'
<1>0. PICK q : q = search[s]
  OBVIOUS
<1> DEFINE next == Relaxed(q)
           new == [next EXCEPT !.pc = "search", !.step = next.step + 1]
<1>1. /\ q # NoSearch /\ q \in Query /\ q.pc = "relax" /\ q.step \in Nat
      /\ q.user \in Users /\ GenderOf[q.user] \in Genders
      /\ FilterKept(q) /\ FoundSound(q)
      /\ s \in steady => StepsExact(q)
  BY <1>0, QueryFacts DEF GetNextFilterStrategy, Pcs, Query
<1>2. search' = [search EXCEPT ![s] = new] /\ KeepAll
  BY <1>0 DEF GetNextFilterStrategy
<1>3. /\ q.target = Partner(GenderOf[q.user]) /\ Partner(GenderOf[q.user]) \in Genders
      /\ q.hidden = q.except \cup {q.user}
  BY <1>1, OtherGender DEF FilterKept
<1>4. /\ next \in Query /\ next.step = q.step /\ next.type = q.type
      /\ next.user = q.user /\ next.except = q.except /\ next.gone = q.gone
      /\ next.found = q.found /\ next.target = q.target /\ next.hidden = q.hidden
      /\ next.ranks = q.ranks \/ next.ranks = RankFilter(rank[q.user], q.type)
      /\ q.step = 0 => next.unwanted = q.unwanted
      /\ q.step >= 1 => next.unwanted = {}
      /\ q.step = 1 => next.aged = q.aged
      /\ q.step # 1 => next.aged = FALSE
  BY <1>1, <1>3, RelaxedFields
<1> HIDE DEF next
<1>5. /\ new \in Query /\ new.pc = "search" /\ new.step = q.step + 1 /\ new.type = q.type
      /\ new.user = q.user /\ new.except = q.except /\ new.gone = q.gone /\ new.found = q.found
      /\ new.target = q.target /\ new.hidden = q.hidden
      /\ new.ranks = next.ranks /\ new.unwanted = next.unwanted /\ new.aged = next.aged
  BY <1>1, <1>4, SearchAgainFields, ZenonT(40)
<1> HIDE DEF new
<1>6. FilterKept(new) /\ FoundSound(new)
  BY <1>1, <1>3, <1>5 DEF FilterKept, FoundSound
<1>7. Pool(new) = Pool(q) /\ Wanted(new) = Wanted(q)
  BY <1>5 DEF Pool, Wanted
<1>8. s \in steady => StepsExact(new)
  BY <1>1, <1>4, <1>5, <1>7 DEF StepsExact
<1> QED BY <1>0, <1>1, <1>2, <1>5, <1>6, <1>8, SearchStepInv

-----------------------------------------------------------------------------
\* Whoever is gone for a search stays so while she is orderly: she has no job, and
\* a new one would end her good order.
LEMMA GoneStaysIndex ==
  ASSUME Inv, IndexNext, NEW v \in Users, v \in orderly', withdrawn[v], ~Busy(v)
  PROVE  v \in orderly /\ withdrawn'[v] /\ ~Busy(v)'
<1>1. \A j \in Jobs : job[j] = NoJob \/ job[j].user # v
  BY DEF Busy
<1>2. ASSUME NEW j \in Jobs, NEW u \in Users, NEW kind, NEW at, NEW m, Start(j, kind, u, at, m)
      PROVE  v \in orderly /\ withdrawn'[v] /\ ~Busy(v)'
  <2>1. u # v /\ v \in orderly
    BY <1>2 DEF Start
  <2>2. \A k \in Jobs : job'[k] = job[k] \/ job'[k].user = u
    BY <1>2 DEF Start, Inv, IndexInv, IndexTypeOK
  <2> QED BY <1>1, <1>2, <2>1, <2>2 DEF Start, Busy, profileRows
<1>3. ASSUME NEW j \in Jobs, job[j] # NoJob, v \in orderly,
             \/ WriteMbti(j) \/ ReadDetails(j) \/ ReadPreferences(j) \/ WithdrawUser(j)
             \/ UpsertPoint(j) \/ RemovePoint(j) \/ JobFails(j)
      PROVE  withdrawn'[v] /\ ~Busy(v)'
  <2>1. \A k \in Jobs : job'[k] = job[k] \/ job'[k] = NoJob
                         \/ (job'[k].user = job[k].user /\ job[k] # NoJob)
    BY <1>3 DEF WriteMbti, ReadDetails, ReadPreferences, WithdrawUser, UpsertPoint, RemovePoint,
                JobFails, Done, Inv, IndexInv, IndexTypeOK, Job
  <2>2. withdrawn'[v]
    BY <1>3 DEF WriteMbti, ReadDetails, ReadPreferences, WithdrawUser, UpsertPoint, RemovePoint,
                JobFails, profileRows, Inv, IndexInv, IndexTypeOK
  <2> QED BY <1>1, <2>1, <2>2 DEF Busy
<1>4. ASSUME NEW j \in Jobs,
             \/ WriteMbti(j) \/ ReadDetails(j) \/ ReadPreferences(j) \/ WithdrawUser(j)
             \/ UpsertPoint(j) \/ RemovePoint(j) \/ JobFails(j)
      PROVE  job[j] # NoJob /\ v \in orderly
  BY <1>4 DEF WriteMbti, ReadDetails, ReadPreferences, WithdrawUser, UpsertPoint, RemovePoint,
              JobFails, KeepIndex, At
<1>5. ASSUME NEW u \in Users, \/ \E w \in Prefs : UpdatePartnerPreferences(u, w)
                              \/ \E r \in Ranks : SetRank(u, r)
                              \/ DeleteQdrantUser(u)
      PROVE  v \in orderly /\ withdrawn'[v] /\ ~Busy(v)'
  BY <1>5 DEF UpdatePartnerPreferences, SetRank, DeleteQdrantUser, profileRows, Busy
<1> QED BY <1>2, <1>3, <1>4, <1>5
        DEF IndexNext, UpdateMbti, RefreshPoint, ConsoleEmbed, Withdraw

LEMMA OrderlyShrinks == IndexNext => orderly' \subseteq orderly
BY DEF IndexNext, UpdateMbti, RefreshPoint, ConsoleEmbed, Withdraw, Start, UpdatePartnerPreferences,
       SetRank, DeleteQdrantUser, WriteMbti, ReadDetails, ReadPreferences, WithdrawUser, KeepIndex,
       UpsertPoint, RemovePoint, JobFails

\* A change of the index: who was found stays, and no search is steady any more if
\* anything it compares has changed.
LEMMA IndexStepInv ==
  ASSUME Inv, IndexStep
  PROVE  Inv'
<1> USE DEF Inv, SearchInv
<1>1. IndexNext /\ IndexInv'
  BY IndexNextInv DEF IndexStep
<1>2. search' = search /\ steady' \subseteq steady
  BY DEF IndexStep
<1>3. orderly' \subseteq orderly
  BY <1>1, OrderlyShrinks
<1>4. SearchTypeOK'
  BY <1>2 DEF SearchTypeOK
<1>5. GoneStays'
  BY <1>1, <1>2, <1>3, GoneStaysIndex DEF GoneStays, SearchTypeOK, Query
<1>6. \A q : FilterKept(q) /\ FoundSound(q) => (FilterKept(q) /\ FoundSound(q))'
  BY <1>3 DEF FilterKept, FoundSound
<1>7. (\A s \in Searches : search[s] # NoSearch => FilterKept(search[s]) /\ FoundSound(search[s]))'
  BY <1>2, <1>6
<1>8. steady' # {} => UNCHANGED <<profileRows, point>>
  BY DEF IndexStep
<1>9. UNCHANGED <<profileRows, point>> => \A q : StepsExact(q)' <=> StepsExact(q)
  BY DEF StepsExact, Pool, Wanted, profileRows
<1>10. (\A s \in steady : StepsExact(search[s]))'
  BY <1>2, <1>8, <1>9
<1> QED BY <1>1, <1>4, <1>5, <1>7, <1>10

LEMMA SearchNextInv == Inv /\ [Next]_<<indexVars, searchVars>> => Inv'
<1> SUFFICES ASSUME Inv, [Next]_<<indexVars, searchVars>> PROVE Inv'
  OBVIOUS
<1>1. ASSUME NEW s \in Searches, NEW u \in Seekers, NEW type \in Types,
             NEW except \in SUBSET (Users \ {u}), StartSearch(s, u, type, except)
      PROVE  Inv'
  BY <1>1, StartSearchInv, SearchAssumption
<1>2. CASE UNCHANGED <<indexVars, searchVars>>
  <2>1. UNCHANGED <<rank, mbti, wants, withdrawn, point, job, orderly, search, steady>>
    BY <1>2 DEF indexVars, searchVars, profileRows
  <2>2. IndexInv'
    BY <2>1 DEF Inv, IndexInv, IndexTypeOK, JobsInPlace, GenderShown, Orderly, For, IndexFollows,
       Busy
  <2>3. SearchTypeOK' /\ GoneStays'
    BY <2>1 DEF Inv, SearchInv, SearchTypeOK, GoneStays, Busy
  <2>4. \A q : /\ FilterKept(q)' <=> FilterKept(q)
               /\ FoundSound(q)' <=> FoundSound(q)
               /\ StepsExact(q)' <=> StepsExact(q)
    BY <2>1 DEF FilterKept, FoundSound, StepsExact, Pool, Wanted
  <2> QED BY <2>1, <2>2, <2>3, <2>4 DEF Inv, SearchInv
<1> QED BY <1>1, <1>2, IndexStepInv, GetUserPointInv, FindCandidatesInv, SearchPointsInv, RelaxInv
        DEF Next

\* The points follow the rows, and a search keeps what its filter was made of,
\* whatever jobs, failures and searches there are.
THEOREM SearchInductive == Spec => []Inv
  BY SearchInitInv, SearchNextInv, PTL DEF Spec

\* The variables of the index and of the searches keep their types.
THEOREM SearchTyped == Spec => [](IndexTypeOK /\ SearchTypeOK)
<1>1. Inv => IndexTypeOK /\ SearchTypeOK
  BY DEF Inv, IndexInv, SearchInv
<1> QED BY <1>1, SearchInductive, PTL

\* The point of a user whose jobs come one after the other shows her MBTI type, and
\* is gone once she has withdrawn: a job reads the row in steps, and writes late.
THEOREM IndexIsFollowed == Spec => []IndexFollows
<1>1. Inv => IndexFollows
  BY DEF Inv, IndexInv
<1> QED BY <1>1, SearchInductive, PTL

\* However often the strategies have relaxed its filter, a search offers neither
\* the seeker, nor an old partner, nor her own gender, nor one long gone.
THEOREM SearchesAreSound == Spec => []SearchSound
<1>1. Inv => SearchSound
  BY DEF Inv, SearchInv, SearchSound, SearchAt, NoSearch, FoundSound
<1> QED BY <1>1, SearchInductive, PTL

\* A search during which nothing changes offers the ranks that go with the
\* seeker's, and gives up a wish only when nobody grants it.
THEOREM SteadySearchesAreExact == Spec => []SearchExact
<1>1. Inv => SearchExact
  BY DEF Inv, SearchInv, SearchExact, SearchTypeOK, SearchAt, StepsExact, Pool, Wanted
<1> QED BY <1>1, SearchInductive, PTL

-----------------------------------------------------------------------------
(* The preferences of a user.                                              *)

USE PreferencesAssumption DEF Targets

Places == {"idle", "validate", "delete", "wait", "additional", "insert", "unique",
           "commit", "done"}
\* The DELETE of the options has been done, and that of the additional row, too.
Deleted == {"additional", "insert", "unique", "commit"}
Replaced == {"insert", "unique", "commit"}
Inserting(r) == pc[r] = "commit" /\ target[r] = "PARTNER" /\ ~Empty(body[r])
AtWork(r) == pc[r] \notin {"idle", "done"}

Shape ==
    /\ chosen \subseteq Row /\ late \subseteq Row
    /\ additional \subseteq Requests
    /\ DOMAIN pc = Requests /\ \A r \in Requests : pc[r] \in Places
    /\ DOMAIN target = Requests /\ \A r \in Requests : target[r] \in Targets
    /\ DOMAIN body = Requests /\ \A r \in Requests : body[r].options \subseteq Options
    /\ DOMAIN holds = Requests /\ DOMAIN awaits = Requests /\ DOMAIN replaced = Requests
    /\ last \in [Targets -> Requests \cup {NoRequest}]
    /\ tidy \subseteq Targets

\* Rows come from requests that have ended, and are of their target.
Origins ==
    /\ \A row \in chosen \cup late : pc[row.by] = "done" /\ row.target = target[row.by]
    /\ \A t \in Targets : last[t] # NoRequest => pc[last[t]] = "done" /\ target[last[t]] = t

Locks ==
    \A r \in Requests :
        /\ \A row \in holds[r] : row.target = target[r]
        /\ \A row \in awaits[r] : row.target = target[r]
        /\ holds[r] # {} => pc[r] \in Deleted
        /\ awaits[r] # {} => pc[r] = "wait"

\* The requests for a tidy target: one at a time, which deletes all there is.
Alone ==
    \A t \in tidy :
        /\ \A row \in late : row.target # t
        /\ \A r, q \in Requests :
              AtWork(r) /\ AtWork(q) /\ target[r] = t /\ target[q] = t => r = q
        /\ \A r \in Requests : target[r] = t =>
              /\ pc[r] # "wait"
              /\ pc[r] \in Deleted => holds[r] = Of(t)
              /\ t = "PARTNER" /\ pc[r] \in Replaced => replaced[r] = additional

Stored ==
    \A t \in tidy :
        /\ Of(t) = IF last[t] = NoRequest THEN {} ELSE [target : {t}, option : body[last[t]].options, by : {last[t]}]
        /\ t = "PARTNER" =>
             additional = IF last[t] = NoRequest \/ Empty(body[last[t]]) THEN {} ELSE {last[t]}

IInv == Shape /\ Origins /\ Locks /\ Alone /\ Stored

\* The unique key: one transaction at a time is about to leave a row.
UniqueKey ==
    /\ \A a, b \in additional : a = b
    /\ \A r \in Requests : Inserting(r) => additional \subseteq replaced[r]
    /\ \A r, q \in Requests : Inserting(r) /\ Inserting(q) => r = q

-----------------------------------------------------------------------------
LEMMA InitInv == PreferencesInit => IInv /\ UniqueKey
  BY DEF PreferencesInit, IInv, Shape, Origins, Locks, Alone, Stored, UniqueKey, Inserting, AtWork,
         Of, Places, Deleted, Replaced, NoBody

\* A request arrives: nothing is known of it so far.
LEMMA PatchInv ==
  ASSUME IInv, NEW r \in Requests, NEW t \in Targets, NEW types, NEW options \in SUBSET Options,
         Patch(r, t, types, options)
  PROVE  IInv'
<1> USE DEF IInv, Patch, tables, Goto, Row
<1>1. /\ pc[r] = "idle"
      /\ pc' = [pc EXCEPT ![r] = "validate"]
      /\ target' = [target EXCEPT ![r] = t]
      /\ body' = [body EXCEPT ![r] = [types |-> types, options |-> options]]
      /\ tidy' = IF Open(t) = {} THEN tidy ELSE tidy \ {t}
      /\ UNCHANGED <<chosen, additional, holds, awaits, replaced, late, last>>
  OBVIOUS
<1>2. \A row \in chosen \cup late : row.by # r /\ row.by \in Requests
  BY <1>1 DEF Shape, Origins
<1>3. \A s \in Targets : last[s] # r
  BY <1>1 DEF Shape, Origins
<1>4. Shape'
  BY <1>1 DEF Shape, Places
<1>5. Origins'
  BY <1>1, <1>2, <1>3 DEF Origins, Shape
<1>6. holds[r] = {}
  BY <1>1 DEF Locks, Deleted
<1>7. Locks'
  <2>1. awaits[r] = {}
    BY <1>1 DEF Locks
  <2> QED BY <1>1, <1>6, <2>1 DEF Locks, Shape, Deleted
<1>8. Alone'
  BY <1>1, <1>2, <1>6 DEF Alone, Shape, AtWork, Open, Of, Deleted, Replaced
<1>9. Stored'
  BY <1>1, <1>3 DEF Stored, Shape, Of
<1> QED BY <1>4, <1>5, <1>7, <1>8, <1>9

LEMMA ValidateInv ==
  ASSUME IInv, NEW r \in Requests, ValidatePreferenceData(r)
  PROVE  IInv'
<1> USE DEF IInv, ValidatePreferenceData, tables, histories, Goto, Row
<1>1. /\ pc[r] = "validate"
      /\ pc' = [pc EXCEPT ![r] = pc'[r]] /\ pc'[r] \in {"done", "delete"}
      /\ UNCHANGED <<chosen, additional, target, body, holds, awaits, replaced, late, last, tidy>>
  BY DEF Shape
<1>2. holds[r] = {} /\ awaits[r] = {}
  BY <1>1 DEF Locks, Deleted
<1>3. Shape'
  BY <1>1 DEF Shape, Places
<1>4. Origins'
  BY <1>1 DEF Origins, Shape
<1>5. Locks'
  BY <1>1, <1>2 DEF Locks, Shape, Deleted
<1>6. Alone'
  BY <1>1 DEF Alone, Shape, AtWork, Of, Deleted, Replaced
<1>7. Stored'
  BY <1>1 DEF Stored, Shape, Of
<1> QED BY <1>3, <1>4, <1>5, <1>6, <1>7

\* The DELETE takes all rows of its target, or waits for one: then somebody else is
\* deleting it, and the requests for the target overlap.
LEMMA DeleteInv ==
  ASSUME IInv, NEW r \in Requests, DeleteExistingOptions(r)
  PROVE  IInv'
<1> USE DEF IInv, tables, histories, Goto, Row
<1> DEFINE rows == Of(target[r])
<1>1. /\ pc[r] = "delete"
      /\ UNCHANGED <<chosen, additional, target, body, replaced, late, last, tidy>>
  BY DEF DeleteExistingOptions, Delete
<1>2. holds[r] = {} /\ awaits[r] = {}
  BY <1>1 DEF Locks, Deleted
<1>3. rows \subseteq chosen /\ \A row \in rows : row.target = target[r]
  BY DEF Of
<1>4. CASE Unlocked(r, rows)
  <2>1. /\ holds' = [holds EXCEPT ![r] = rows] /\ awaits' = awaits
        /\ pc' = [pc EXCEPT ![r] = pc'[r]] /\ pc'[r] \in {"additional", "insert"}
        /\ target[r] = "PARTNER" => pc'[r] = "additional"
    BY <1>4 DEF DeleteExistingOptions, Delete, Shape, AfterDelete
  <2> HIDE DEF rows
  <2>2. Shape'
    BY <1>1, <2>1 DEF Shape, Places
  <2>3. Origins'
    BY <1>1, <2>1 DEF Origins, Shape
  <2>4. Locks'
    BY <1>1, <1>2, <1>3, <2>1 DEF Locks, Shape, Deleted
  <2>5. Alone'
    <3>1. rows = Of(target[r])
      BY DEF rows
    <3> QED BY <1>1, <2>1, <3>1 DEF Alone, Shape, AtWork, Of, Deleted, Replaced
  <2>6. Stored'
    BY <1>1, <2>1 DEF Stored, Shape, Of
  <2> QED BY <2>2, <2>3, <2>4, <2>5, <2>6
<1>5. CASE ~Unlocked(r, rows)
  <2>1. /\ awaits' = [awaits EXCEPT ![r] = rows] /\ holds' = holds
        /\ pc' = [pc EXCEPT ![r] = "wait"]
    BY <1>5 DEF DeleteExistingOptions, Delete, Shape
  <2>2. PICK k \in Requests \ {r} : holds[k] \cap rows # {}
    BY <1>5 DEF Unlocked
  <2>3. target[k] = target[r] /\ AtWork(k) /\ AtWork(r)
    BY <1>1, <1>3, <2>2 DEF Locks, AtWork, Deleted
  <2>4. target[r] \notin tidy
    BY <2>2, <2>3 DEF Alone
  <2> HIDE DEF rows
  <2>5. Shape'
    BY <1>1, <2>1 DEF Shape, Places
  <2>6. Origins'
    BY <1>1, <2>1 DEF Origins, Shape
  <2>7. Locks'
    BY <1>1, <1>2, <1>3, <2>1 DEF Locks, Shape, Deleted
  <2>8. Alone'
    BY <1>1, <2>1, <2>4 DEF Alone, Shape, AtWork, Of, Deleted, Replaced
  <2>9. Stored'
    BY <1>1, <2>1 DEF Stored, Shape, Of
  <2> QED BY <2>5, <2>6, <2>7, <2>8, <2>9
<1> QED BY <1>4, <1>5

\* Only a request that overlapped another has waited.
LEMMA GrantRowsInv ==
  ASSUME IInv, NEW r \in Requests, GrantRows(r)
  PROVE  IInv'
<1> USE DEF IInv, GrantRows, tables, histories, Goto, Row
<1>1. /\ pc[r] = "wait"
      /\ pc' = [pc EXCEPT ![r] = pc'[r]] /\ pc'[r] \in {"additional", "insert"}
      /\ holds' = [holds EXCEPT ![r] = awaits[r] \cap chosen]
      /\ awaits' = [awaits EXCEPT ![r] = {}]
      /\ UNCHANGED <<chosen, additional, target, body, replaced, late, last, tidy>>
  BY DEF Shape, AfterDelete
<1>2. target[r] \notin tidy
  BY <1>1 DEF Alone
<1>3. Shape'
  BY <1>1 DEF Shape, Places
<1>4. Origins'
  BY <1>1 DEF Origins, Shape
<1>5. Locks'
  BY <1>1 DEF Locks, Shape, Deleted
<1>6. Alone'
  BY <1>1, <1>2 DEF Alone, Shape, AtWork, Of, Deleted, Replaced
<1>7. Stored'
  BY <1>1 DEF Stored, Shape, Of
<1> QED BY <1>3, <1>4, <1>5, <1>6, <1>7

LEMMA DeleteAdditionalInv ==
  ASSUME IInv, NEW r \in Requests, DeleteExistingAdditionalPreferences(r)
  PROVE  IInv'
<1> USE DEF IInv, DeleteExistingAdditionalPreferences, tables, histories, Goto, Row
<1>1. /\ pc[r] = "additional"
      /\ pc' = [pc EXCEPT ![r] = "insert"]
      /\ replaced' = [replaced EXCEPT ![r] = additional]
      /\ UNCHANGED <<chosen, additional, target, body, holds, awaits, late, last, tidy>>
  OBVIOUS
<1>2. Shape'
  BY <1>1 DEF Shape, Places
<1>3. Origins'
  BY <1>1 DEF Origins, Shape
<1>4. Locks'
  BY <1>1 DEF Locks, Shape, Deleted
<1>5. Alone'
  BY <1>1 DEF Alone, Shape, AtWork, Of, Deleted, Replaced
<1>6. Stored'
  BY <1>1 DEF Stored, Shape, Of
<1> QED BY <1>2, <1>3, <1>4, <1>5, <1>6

\* The steps that only wait for what they have done to be committed.
LEMMA InsertInv ==
  ASSUME IInv, NEW r \in Requests,
         InsertPreferenceOptions(r) \/ InsertAdditionalPartnerOptions(r)
  PROVE  IInv'
<1> USE DEF IInv, tables, histories, Goto, Row
<1>1. /\ pc[r] \in {"insert", "unique"}
      /\ pc' = [pc EXCEPT ![r] = pc'[r]] /\ pc'[r] \in {"unique", "commit"}
      /\ UNCHANGED <<chosen, additional, target, body, holds, awaits, replaced, late, last, tidy>>
  BY DEF InsertPreferenceOptions, InsertAdditionalPartnerOptions, Shape
<1>2. Shape'
  BY <1>1 DEF Shape, Places
<1>3. Origins'
  BY <1>1 DEF Origins, Shape
<1>4. Locks'
  BY <1>1 DEF Locks, Shape, Deleted
<1>5. Alone'
  BY <1>1 DEF Alone, Shape, AtWork, Of, Deleted, Replaced
<1>6. Stored'
  BY <1>1 DEF Stored, Shape, Of
<1> QED BY <1>2, <1>3, <1>4, <1>5, <1>6

\* A rollback changes nothing but what it may leave behind on the connection, and
\* then its target is no longer tidy.
LEMMA RollbackInv ==
  ASSUME IInv, NEW r \in Requests, NEW left \in SUBSET Options,
         AtWork(r), Rollback(r),
         late' = late \cup RowsFor(r, left),
         tidy' = IF left = {} THEN tidy ELSE tidy \ {target[r]}
  PROVE  IInv'
<1> USE DEF IInv, tables, Goto, Row
<1>1. /\ pc' = [pc EXCEPT ![r] = "done"]
      /\ holds' = [holds EXCEPT ![r] = {}]
      /\ awaits' = [awaits EXCEPT ![r] = {}]
      /\ replaced' = [replaced EXCEPT ![r] = {}]
      /\ UNCHANGED <<chosen, additional, target, body, last>>
  BY DEF Rollback
<1>2. \A row \in late' \ late : row \in Row /\ row.by = r /\ row.target = target[r]
  BY DEF RowsFor, Shape
<1>3. left = {} => late' = late
  BY DEF RowsFor
<1>4. Shape'
  BY <1>1, <1>2 DEF Shape, Places
<1>5. Origins'
  BY <1>1, <1>2 DEF Origins, Shape
<1>6. Locks'
  BY <1>1 DEF Locks, Shape, Deleted
<1>7. Alone'
  BY <1>1, <1>2, <1>3 DEF Alone, Shape, AtWork, Of, Deleted, Replaced
<1>8. Stored'
  BY <1>1 DEF Stored, Shape, Of
<1> QED BY <1>4, <1>5, <1>6, <1>7, <1>8

LEMMA UnknownTypeInv ==
  ASSUME IInv, NEW r \in Requests, UnknownType(r)
  PROVE  IInv'
<1> DEFINE left == UNION {Entry(body[r], c) : c \in Behind(body[r])}
<1>1. left \in SUBSET Options
  BY DEF IInv, Shape, Entry
<1>2. AtWork(r)
  BY DEF UnknownType, AtWork
<1>3. /\ Rollback(r)
      /\ late' = late \cup RowsFor(r, left)
      /\ tidy' = IF left = {} THEN tidy ELSE tidy \ {target[r]}
  BY DEF UnknownType
<1> HIDE DEF left
<1> QED BY <1>1, <1>2, <1>3, RollbackInv

LEMMA FailsInv ==
  ASSUME IInv, NEW r \in Requests, Fails(r)
  PROVE  IInv'
<1>1. PICK none : none = {}
  OBVIOUS
<1>2. /\ AtWork(r) /\ Rollback(r) /\ none \in SUBSET Options
      /\ late' = late \cup RowsFor(r, none)
      /\ tidy' = IF none = {} THEN tidy ELSE tidy \ {target[r]}
  BY <1>1 DEF Fails, AtWork, RowsFor
<1> QED BY <1>2, RollbackInv

LEMMA InsertLateInv ==
  ASSUME IInv, NEW row \in late, InsertLate(row)
  PROVE  IInv'
<1> USE DEF IInv, InsertLate, histories, Row
<1>1. /\ late' = late \ {row}
      /\ chosen' \in {chosen, chosen \cup {row}}
      /\ UNCHANGED <<additional, pc, target, body, holds, awaits, replaced, last, tidy>>
  OBVIOUS
<1>2. row.target \notin tidy /\ row \in Row
  BY DEF Alone, Shape
<1>3. \A t \in tidy : Of(t)' = Of(t)
  BY <1>1, <1>2 DEF Of
<1>4. Shape'
  BY <1>1, <1>2 DEF Shape
<1>5. Origins'
  BY <1>1 DEF Origins, Shape
<1>6. Locks'
  BY <1>1 DEF Locks, Shape
<1>7. Alone'
  BY <1>1, <1>3 DEF Alone, Shape, AtWork
<1>8. Stored'
  BY <1>1, <1>3 DEF Stored, Shape
<1> QED BY <1>4, <1>5, <1>6, <1>7, <1>8

\* The rows of the target are exchanged if they are those the DELETE has marked; the
\* rows of the other target are not touched.
LEMMA CommitInv ==
  ASSUME IInv, NEW r \in Requests, Commit(r)
  PROVE  IInv'
<1> USE DEF IInv, Commit, Goto, Row
<1> DEFINE new == RowsFor(r, body[r].options)
<1>1. /\ pc[r] = "commit"
      /\ chosen' = (chosen \ holds[r]) \cup new
      /\ last' = [last EXCEPT ![target[r]] = r]
      /\ pc' = [pc EXCEPT ![r] = "done"]
      /\ holds' = [holds EXCEPT ![r] = {}]
      /\ replaced' = [replaced EXCEPT ![r] = {}]
      /\ UNCHANGED <<target, body, awaits, late, tidy>>
  OBVIOUS
<1>2. additional' = IF target[r] = "PARTNER"
                      THEN (additional \ replaced[r]) \cup (IF Empty(body[r]) THEN {} ELSE {r})
                      ELSE additional
  OBVIOUS
<1>3. new = [target : {target[r]}, option : body[r].options, by : {r}]
  BY DEF RowsFor
<1>4. new \subseteq Row /\ \A row \in new : row.by = r /\ row.target = target[r]
  BY <1>3 DEF Shape
<1> HIDE DEF new
<1>5. \A s \in Targets \ {target[r]} : Of(s)' = Of(s)
  BY <1>1, <1>4 DEF Of, Locks
<1>6. target[r] \in tidy => Of(target[r])' = new
  BY <1>1, <1>4 DEF Of, Alone, Deleted
<1>7. Shape'
  BY <1>1, <1>2, <1>4 DEF Shape, Places
<1>8. Origins'
  BY <1>1, <1>4 DEF Origins, Shape
<1>9. Locks'
  BY <1>1 DEF Locks, Shape, Deleted
<1>10. Alone'
  <2>1. target[r] \in tidy =>
          \A q \in Requests : target[q] = target[r] /\ q # r => ~AtWork(q)
    BY <1>1 DEF Alone, AtWork
  <2> QED BY <1>1, <1>2, <1>5, <2>1 DEF Alone, Shape, AtWork, Deleted, Replaced
<1>11. Stored'
  <2>1. ASSUME NEW t \in tidy, t = target[r]  PROVE Stored!(t)'
    <3>1. last'[t] = r /\ r # NoRequest /\ body' = body
      BY <1>1, <2>1 DEF Shape
    <3>2. Of(t)' = [target : {t}, option : body[r].options, by : {r}]
      BY <1>3, <1>6, <2>1
    <3>3. t = "PARTNER" => additional' = IF Empty(body[r]) THEN {} ELSE {r}
      BY <1>1, <1>2, <2>1 DEF Alone, Replaced
    <3> QED BY <3>1, <3>2, <3>3 DEF Empty
  <2>2. ASSUME NEW t \in tidy, t # target[r]  PROVE Stored!(t)'
    <3>1. last'[t] = last[t] /\ body' = body /\ Of(t)' = Of(t)
      BY <1>1, <1>5, <2>2 DEF Shape
    <3>2. t = "PARTNER" => additional' = additional
      BY <1>2, <2>2
    <3> QED BY <3>1, <3>2 DEF Stored, Empty
  <2> QED BY <1>1, <2>1, <2>2 DEF Stored
<1> QED BY <1>7, <1>8, <1>9, <1>10, <1>11

-----------------------------------------------------------------------------
\* Whatever does not bring a request to its commit, leaves the rows of additional
\* preferences alone and forgets no mark of a request that is about to leave a row.
LEMMA UniqueKeyKept ==
  ASSUME UniqueKey, additional' = additional,
         \A r \in Requests : Inserting(r)' => Inserting(r) /\ replaced'[r] = replaced[r]
  PROVE  UniqueKey'
BY DEF UniqueKey

LEMMA UniqueKeyInsert ==
  ASSUME IInv, UniqueKey, NEW r \in Requests, InsertAdditionalPartnerOptions(r)
  PROVE  UniqueKey'
<1>1. /\ UNCHANGED <<additional, replaced, target, body>>
      /\ pc' = [pc EXCEPT ![r] = "commit"]
      /\ additional \subseteq replaced[r]
      /\ \A k \in Requests \ {r} : ~Inserting(k)
  BY DEF InsertAdditionalPartnerOptions, tables, Goto, Inserting
<1>2. \A k \in Requests \ {r} : ~Inserting(k)'
  BY <1>1 DEF Inserting, IInv, Shape, Empty
<1> QED BY <1>1, <1>2 DEF UniqueKey

LEMMA UniqueKeyCommit ==
  ASSUME IInv, UniqueKey, NEW r \in Requests, Commit(r)
  PROVE  UniqueKey'
<1>1. /\ pc' = [pc EXCEPT ![r] = "done"] /\ pc[r] = "commit"
      /\ replaced' = [replaced EXCEPT ![r] = {}]
      /\ UNCHANGED <<target, body>>
  BY DEF Commit, Goto
<1>2. additional' = IF target[r] = "PARTNER"
                      THEN (additional \ replaced[r]) \cup (IF Empty(body[r]) THEN {} ELSE {r})
                      ELSE additional
  BY DEF Commit
<1>3. \A k \in Requests : Inserting(k)' => Inserting(k) /\ k # r /\ replaced'[k] = replaced[k]
  BY <1>1 DEF Inserting, IInv, Shape, Empty
<1>4. CASE Inserting(r)
  <2>1. additional \subseteq replaced[r] /\ \A k \in Requests \ {r} : ~Inserting(k)
    BY <1>4 DEF UniqueKey
  <2>2. additional' = {r}
    BY <1>2, <1>4, <2>1 DEF Inserting
  <2>3. \A k \in Requests : ~Inserting(k)'
    BY <1>3, <2>1
  <2> QED BY <2>2, <2>3 DEF UniqueKey
<1>5. CASE ~Inserting(r)
  <2>1. additional' \subseteq additional
    BY <1>1, <1>2, <1>5 DEF Inserting
  <2> QED BY <1>3, <2>1 DEF UniqueKey
<1> QED BY <1>4, <1>5

\* Every other step.
LEMMA UniqueKeyOthers ==
  ASSUME IInv, UniqueKey, NEW r \in Requests,
         \/ \E t \in Targets, types \in Orders : \E options \in SUBSET Offered(t) :
              Patch(r, t, types, options)
         \/ ValidatePreferenceData(r) \/ DeleteExistingOptions(r) \/ GrantRows(r)
         \/ DeleteExistingAdditionalPreferences(r) \/ InsertPreferenceOptions(r)
         \/ UnknownType(r) \/ Fails(r)
  PROVE  UniqueKey'
<1> USE DEF IInv, Shape, Inserting, Empty, Goto, tables, histories
<1>1. ASSUME NEW t \in Targets, NEW types, NEW options, Patch(r, t, types, options)
      PROVE  UniqueKey'
  BY <1>1, UniqueKeyKept DEF Patch
<1>2. CASE ValidatePreferenceData(r)
  BY <1>2, UniqueKeyKept DEF ValidatePreferenceData
<1>3. CASE DeleteExistingOptions(r)
  BY <1>3, UniqueKeyKept DEF DeleteExistingOptions, Delete, AfterDelete
<1>4. CASE GrantRows(r)
  BY <1>4, UniqueKeyKept DEF GrantRows, AfterDelete
<1>5. CASE DeleteExistingAdditionalPreferences(r)
  BY <1>5, UniqueKeyKept DEF DeleteExistingAdditionalPreferences
<1>6. CASE InsertPreferenceOptions(r)
  BY <1>6, UniqueKeyKept DEF InsertPreferenceOptions
<1>7. CASE UnknownType(r)
  BY <1>7, UniqueKeyKept DEF UnknownType, Rollback
<1>8. CASE Fails(r)
  BY <1>8, UniqueKeyKept DEF Fails, Rollback
<1> QED BY <1>1, <1>2, <1>3, <1>4, <1>5, <1>6, <1>7, <1>8

LEMMA OfferedOptions == \A t \in Targets : SUBSET Offered(t) \subseteq SUBSET Options
BY DEF Offered, Listed

LEMMA NextInv == IInv /\ UniqueKey /\ [PreferencesNext]_vars => IInv' /\ UniqueKey'
<1> SUFFICES ASSUME IInv, UniqueKey, [PreferencesNext]_vars  PROVE IInv' /\ UniqueKey'
  OBVIOUS
<1>1. ASSUME NEW r \in Requests, NEW t \in Targets, NEW types \in Orders,
             NEW options \in SUBSET Offered(t), Patch(r, t, types, options)
      PROVE  IInv' /\ UniqueKey'
  <2>1. options \in SUBSET Options
    BY OfferedOptions
  <2> QED BY <1>1, <2>1, PatchInv, UniqueKeyOthers
<1>2. ASSUME NEW r \in Requests,
             \/ ValidatePreferenceData(r) \/ DeleteExistingOptions(r) \/ GrantRows(r)
             \/ DeleteExistingAdditionalPreferences(r) \/ InsertPreferenceOptions(r)
             \/ UnknownType(r) \/ Fails(r)
      PROVE  IInv' /\ UniqueKey'
  <2>1. IInv'
    BY <1>2, ValidateInv, DeleteInv, GrantRowsInv, DeleteAdditionalInv, InsertInv,
       UnknownTypeInv, FailsInv
  <2>2. UniqueKey'
    BY <1>2, UniqueKeyOthers
  <2> QED BY <2>1, <2>2
<1>3. ASSUME NEW r \in Requests, InsertAdditionalPartnerOptions(r)
      PROVE  IInv' /\ UniqueKey'
  BY <1>3, InsertInv, UniqueKeyInsert
<1>4. ASSUME NEW r \in Requests, Commit(r)
      PROVE  IInv' /\ UniqueKey'
  BY <1>4, CommitInv, UniqueKeyCommit
<1>5. ASSUME NEW row \in late, InsertLate(row)
      PROVE  IInv' /\ UniqueKey'
  <2>1. UniqueKey'
    BY <1>5, UniqueKeyKept DEF InsertLate, Inserting, Empty
  <2> QED BY <1>5, <2>1, InsertLateInv
<1>6. CASE UNCHANGED vars
  <2>1. UNCHANGED <<chosen, additional, pc, target, body, holds, awaits, replaced, late, last, tidy>>
    BY <1>6 DEF vars, tables, histories
  <2>2. IInv'
    BY <2>1 DEF IInv, Shape, Origins, Locks, Alone, Stored, Of, AtWork, Empty
  <2>3. UniqueKey'
    BY <2>1 DEF UniqueKey, Inserting, Empty
  <2> QED BY <2>2, <2>3
<1> QED
  BY <1>1, <1>2, <1>3, <1>4, <1>5, <1>6, Zenon DEF PreferencesNext

\* Every row belongs to the request that wrote it and, without a rival, to the last
\* one; no two transactions hold the additional row at once.
THEOREM Inductive == PreferencesSpec => [](IInv /\ UniqueKey)
<1>1. PreferencesInit => IInv /\ UniqueKey
  BY InitInv
<1>2. IInv /\ UniqueKey /\ [PreferencesNext]_vars => (IInv /\ UniqueKey)'
  BY NextInv
<1> QED BY <1>1, <1>2, PTL DEF PreferencesSpec

-----------------------------------------------------------------------------
\* What is stored of a tidy target is what the last committed request asked: the
\* DELETE of a request without a rival takes all there is, and nothing of a rejected
\* one comes after it.
THEOREM LastRequestStored == PreferencesSpec => []LastRequestKept
<1>1. IInv => LastRequestKept
  <2> SUFFICES ASSUME IInv, NEW t \in tidy
               PROVE  LET r == last[t]
                          asked == IF r = NoRequest THEN NoBody ELSE body[r]
                      IN /\ Of(t) = {row \in chosen : row.by = r}
                         /\ {row.option : row \in Of(t)} = asked.options
                         /\ t = "PARTNER" => additional = IF Empty(asked) THEN {} ELSE {r}
    BY DEF LastRequestKept
  <2> DEFINE r == last[t]
             asked == IF r = NoRequest THEN NoBody ELSE body[r]
  <2>1. t \in Targets /\ r \in Requests \cup {NoRequest}
    BY DEF IInv, Shape
  <2>2. Of(t) = [target : {t}, option : asked.options, by : {r}]
    BY DEF IInv, Stored, NoBody
  <2>3. \A row \in chosen : row.by = r => row.target = t
    BY <2>1 DEF IInv, Origins, Shape, Row
  <2>4. Of(t) = {row \in chosen : row.by = r}
    <3> HIDE DEF r, asked
    <3>1. \A row \in Of(t) : row.by = r
      BY <2>2
    <3>2. \A row \in Of(t) : row \in chosen
      BY DEF Of
    <3>3. \A row \in chosen : row.by = r => row \in Of(t)
      BY <2>3 DEF Of
    <3> QED BY <3>1, <3>2, <3>3
  <2>5. {row.option : row \in Of(t)} = asked.options
    <3> HIDE DEF r, asked
    <3>1. \A row \in Of(t) : row.option \in asked.options
      BY <2>2
    <3>2. ASSUME NEW o \in asked.options  PROVE \E row \in Of(t) : row.option = o
      <4>1. [target |-> t, option |-> o, by |-> r] \in Of(t)
        BY <2>2
      <4> QED BY <4>1
    <3> QED BY <3>1, <3>2
  <2>6. t = "PARTNER" => additional = IF Empty(asked) THEN {} ELSE {r}
    BY DEF IInv, Stored, NoBody, Empty
  <2> QED BY <2>4, <2>5, <2>6
<1> QED BY <1>1, Inductive, PTL

\* A profile has at most one row of additional preferences, however many requests
\* overlap.
THEOREM OneAdditionalRow == PreferencesSpec => []OneAdditional
<1>1. UniqueKey => OneAdditional
  <2> SUFFICES ASSUME UniqueKey PROVE Cardinality(additional) <= 1
    BY DEF OneAdditional
  <2>1. CASE additional = {}
    BY <2>1, FS_EmptySet
  <2>2. CASE additional # {}
    <3>1. PICK a \in additional : additional = {a}
      BY <2>2 DEF UniqueKey
    <3>2. Cardinality({a}) = 1
      BY FS_Singleton
    <3> QED BY <3>1, <3>2
  <2> QED BY <2>1, <2>2
<1> QED BY <1>1, Inductive, PTL
===============================================================================
