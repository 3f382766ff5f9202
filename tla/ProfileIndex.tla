----------------------------- MODULE ProfileIndex -----------------------------
(***************************************************************************)
(* The index in which partners are searched (profile-embedding.service.ts, *)
(* qdrant.service.ts): one point for each user, made from her profile by a *)
(* job that some changes of the profile start.  The job reads the profile, *)
(* has its text embedded by a remote service and then stores what it read; *)
(* the request that started it does not wait for that, and nothing orders  *)
(* the jobs of one user.                                                   *)
(***************************************************************************)
EXTENDS Naturals, FiniteSets

CONSTANTS
    Users, Genders,
    GenderOf,       \* never changes after signup
    Ranks,          \* UserRank
    Mbtis,
    Prefs,          \* what a user may want of a partner, all types together
    Jobs,           \* requests and embeddings that may be open at the same time
    Null,
    MaxRequests, MaxFailures    \* bounds of the model

ASSUME IndexAssumption ==
    /\ GenderOf \in [Users -> Genders]
    /\ Null \notin Users \cup Ranks \cup Prefs
    /\ {MaxRequests, MaxFailures} \subseteq Nat

VARIABLES
    rank, mbti, wants,  \* the profile, with its partner preferences
    withdrawn,          \* users.deleted_at is set
    point,              \* the collection profiles of Qdrant
    job,
    orderly,            \* history: users whose jobs never overlapped or failed, and
                        \* who were not embedded after they had withdrawn
    requests, failures

profileRows == <<rank, mbti, wants, withdrawn>>
indexVars == <<profileRows, point, job, orderly, requests, failures>>

Point == [gender : Genders, rank : Ranks \cup {Null}, mbti : Mbtis, wants : Prefs]
NoPoint == [gender |-> Null]

Kinds == {"mbti", "refresh", "console", "withdraw"}
Job == [kind : Kinds, user : Users, pc : {"write", "details", "preferences", "upsert", "remove"},
        rank : Ranks \cup {Null}, mbti : Mbtis \cup {Null}, wants : Prefs \cup {Null}]
NoJob == [kind |-> "none"]

PointOf(u) == [gender |-> GenderOf[u], rank |-> rank[u], mbti |-> mbti[u], wants |-> wants[u]]

\* Every user has been embedded once.
IndexInit ==
    /\ rank \in [Users -> Ranks]
    /\ mbti \in [Users -> Mbtis]
    /\ wants \in [Users -> Prefs]
    /\ withdrawn = [u \in Users |-> FALSE]
    /\ point = [u \in Users |-> PointOf(u)]
    /\ job = [j \in Jobs |-> NoJob]
    /\ orderly = Users
    /\ requests = 0
    /\ failures = 0

Count == requests < MaxRequests /\ requests' = requests + 1
Busy(u) == \E j \in Jobs : job[j] # NoJob /\ job[j].user = u

-----------------------------------------------------------------------------
(* A request arrives. *)

Start(j, kind, u, pc, m) ==
    /\ job[j] = NoJob
    /\ Count
    /\ job' = [job EXCEPT ![j] = [kind |-> kind, user |-> u, pc |-> pc,
                                  rank |-> Null, mbti |-> m, wants |-> Null]]
    /\ orderly' = IF Busy(u) \/ withdrawn[u] THEN orderly \ {u} ELSE orderly
    /\ UNCHANGED <<profileRows, point, failures>>

\* An access token is good until it expires, even if its user has withdrawn.
UpdateMbti(j, u, m) == Start(j, "mbti", u, "write", m)

\* PATCH preferences/self, which changes nothing a point shows but its vector,
\* or an administrator asks for a new point.
RefreshPoint(j, u) == Start(j, "refresh", u, "details", Null)

\* generate:profile-embeddings reads the profile as its user may see it, without
\* the rank, and does not ask whether she has withdrawn.
ConsoleEmbed(j, u) == Start(j, "console", u, "details", Null)

Withdraw(j, u) == Start(j, "withdraw", u, "write", Null)

\* Not announced: the point keeps the preferences it has.
UpdatePartnerPreferences(u, w) ==
    /\ Count
    /\ wants' = [wants EXCEPT ![u] = w]
    /\ UNCHANGED <<rank, mbti, withdrawn, point, job, orderly, failures>>

\* An operator ranks a user, in the database.
SetRank(u, r) ==
    /\ Count
    /\ rank' = [rank EXCEPT ![u] = r]
    /\ UNCHANGED <<mbti, wants, withdrawn, point, job, orderly, failures>>

\* An administrator removes a point.
DeleteQdrantUser(u) ==
    /\ Count
    /\ point' = [point EXCEPT ![u] = NoPoint]
    /\ UNCHANGED <<profileRows, job, orderly, failures>>

-----------------------------------------------------------------------------
(* The steps of a job. *)

At(j, kinds, pc) == job[j] # NoJob /\ job[j].kind \in kinds /\ job[j].pc = pc
Done(j) == job' = [job EXCEPT ![j] = NoJob]
KeepIndex == UNCHANGED <<point, orderly, requests, failures>>
Embedding == {"mbti", "refresh", "console"}

WriteMbti(j) ==
    /\ At(j, {"mbti"}, "write")
    /\ mbti' = [mbti EXCEPT ![job[j].user] = job[j].mbti]
    /\ job' = [job EXCEPT ![j].pc = "details", ![j].mbti = Null]
    /\ UNCHANGED <<rank, wants, withdrawn>> /\ KeepIndex

\* Mutant: the profile announced was read before the change.
ReadDetailsBefore(j) ==
    /\ \/ At(j, {"mbti"}, "write")
       \/ At(j, {"refresh", "console"}, "details")
    /\ mbti' = IF job[j].kind = "mbti" THEN [mbti EXCEPT ![job[j].user] = job[j].mbti] ELSE mbti
    /\ job' = [job EXCEPT ![j].pc = "preferences", ![j].mbti = mbti[job[j].user],
                 ![j].rank = IF job[j].kind = "console" THEN Null ELSE rank[job[j].user]]
    /\ UNCHANGED <<rank, wants, withdrawn>> /\ KeepIndex

ReadDetails(j) ==
    /\ At(j, Embedding, "details")
    /\ job' = [job EXCEPT ![j].pc = "preferences", ![j].mbti = mbti[job[j].user],
                 ![j].rank = IF job[j].kind = "console" THEN Null ELSE rank[job[j].user]]
    /\ UNCHANGED profileRows /\ KeepIndex

\* The profile is announced; the request is answered.
ReadPreferences(j) ==
    /\ At(j, Embedding, "preferences")
    /\ job' = [job EXCEPT ![j].pc = "upsert", ![j].wants = wants[job[j].user]]
    /\ UNCHANGED profileRows /\ KeepIndex

\* The text has been embedded, however long that took.
UpsertPoint(j) ==
    LET u == job[j].user IN
    /\ At(j, Embedding, "upsert")
    /\ point' = [point EXCEPT ![u] = [gender |-> GenderOf[u], rank |-> job[j].rank,
                                      mbti |-> job[j].mbti, wants |-> job[j].wants]]
    /\ Done(j)
    /\ UNCHANGED <<profileRows, orderly, requests, failures>>

WithdrawUser(j) ==
    /\ At(j, {"withdraw"}, "write")
    /\ withdrawn' = [withdrawn EXCEPT ![job[j].user] = TRUE]
    /\ job' = [job EXCEPT ![j].pc = "remove"]
    /\ UNCHANGED <<rank, mbti, wants>> /\ KeepIndex

RemovePoint(j) ==
    /\ At(j, {"withdraw"}, "remove")
    /\ point' = [point EXCEPT ![job[j].user] = NoPoint]
    /\ Done(j)
    /\ UNCHANGED <<profileRows, orderly, requests, failures>>

\* A call fails: the request is rejected, or the error of an embedding dropped.
\* What has been written stays.
JobFails(j) ==
    /\ job[j] # NoJob
    /\ failures < MaxFailures
    /\ failures' = failures + 1
    /\ orderly' = orderly \ {job[j].user}
    /\ Done(j)
    /\ UNCHANGED <<profileRows, point, requests>>

IndexNext ==
    \/ \E j \in Jobs, u \in Users :
         \/ \E m \in Mbtis : UpdateMbti(j, u, m)
         \/ RefreshPoint(j, u) \/ ConsoleEmbed(j, u) \/ Withdraw(j, u)
    \/ \E u \in Users : \/ \E w \in Prefs : UpdatePartnerPreferences(u, w)
                        \/ \E r \in Ranks : SetRank(u, r)
                        \/ DeleteQdrantUser(u)
    \/ \E j \in Jobs : \/ WriteMbti(j) \/ ReadDetails(j) \/ ReadPreferences(j)
                       \/ UpsertPoint(j) \/ WithdrawUser(j) \/ RemovePoint(j) \/ JobFails(j)

-----------------------------------------------------------------------------
(* Properties. *)

IndexTypeOK ==
    /\ rank \in [Users -> Ranks]
    /\ mbti \in [Users -> Mbtis]
    /\ wants \in [Users -> Prefs]
    /\ withdrawn \in [Users -> BOOLEAN]
    /\ point \in [Users -> Point \cup {NoPoint}]
    /\ job \in [Jobs -> Job \cup {NoJob}]
    /\ orderly \subseteq Users

\* Once nothing is open for a user whose jobs came one after the other, her point
\* shows her MBTI type, and it is gone if she has withdrawn: what the search
\* compares, and whom it offers, follows the database as far as changes are
\* announced at all.
IndexFollows ==
    \A u \in orderly : ~Busy(u) =>
        /\ point[u] # NoPoint => point[u].mbti = mbti[u]
        /\ withdrawn[u] => point[u] = NoPoint
=============================================================================
