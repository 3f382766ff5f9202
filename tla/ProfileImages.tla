---------------------------- MODULE ProfileImages ----------------------------
(***************************************************************************)
(* The images of the users' profiles (image.service.ts, image.controller). *)
(* saveProfileImage, deleteProfileImage and setMainProfileImage are        *)
(* transactions at read committed: each statement sees what has been       *)
(* committed when it starts, the rows a transaction has updated are locked *)
(* until it ends, and what it has written is seen by others after that.    *)
(* A job is one such transaction and the request, or the part of a         *)
(* request, that waits for it.  Registration composes the steps.           *)
(***************************************************************************)
EXTENDS Accounts, Naturals, FiniteSets

CONSTANTS
    Images,         \* rows of profile_images
    Jobs,           \* transactions that may be open at the same time
    Limit           \* image.service.ts:40 says 3

ASSUME LimitAssumption == Limit \in Nat \ {0}
ASSUME ImagesAssumption == IsFiniteSet(Images) /\ Null \notin Images
ASSUME JobsAssumption == IsFiniteSet(Jobs)

VARIABLES
    profile,        \* whose row it is, Null while there is none
    isMain, imageOrder, deleted,
    job,
    apart,          \* history: users without two saves at a time
    calm,           \* history: users without conflicting jobs at a time
    careful         \* history: users who never named a deleted image

imageRows == <<profile, isMain, imageOrder, deleted>>
histories == <<apart, calm, careful>>
imageVars == <<imageRows, job, histories>>

Kinds == {"save", "delete", "setMain"}
\* asMain: the image saved is to be the main one, or the one deleted was.
\* holds: rows locked; wants: rows whose locks an UPDATE waits for.
Job == [kind : Kinds, user : Users,
        pc : {"count", "find", "clear", "insert", "mark", "next", "commit"},
        image : Images \cup {Null}, asMain : BOOLEAN, count : 0 .. Cardinality(Images),
        holds : SUBSET Images, wants : SUBSET Images, next : Images \cup {Null}]
NoJob == [kind |-> "none"]

Rows(u) == {i \in Images : profile[i] = u}
Live(u) == {i \in Rows(u) : ~deleted[i]}
Main(u) == {i \in Live(u) : isMain[i]}
Busy(u) == {j \in Jobs : job[j] # NoJob /\ job[j].user = u}

ImagesInit ==
    /\ profile = [i \in Images |-> Null]
    /\ isMain = [i \in Images |-> FALSE]
    /\ imageOrder = [i \in Images |-> 0]
    /\ deleted = [i \in Images |-> FALSE]
    /\ job = [j \in Jobs |-> NoJob]
    /\ apart = Users
    /\ calm = Users
    /\ careful = Users

-----------------------------------------------------------------------------
(* A request begins. *)

\* A deletion conflicts with any other job, one that chooses a main image with
\* another that does.
ChoosesMain(kind, asMain) == kind # "save" \/ asMain
Conflict(k, kind, asMain) ==
    \/ "delete" \in {kind, job[k].kind}
    \/ ChoosesMain(kind, asMain) /\ ChoosesMain(job[k].kind, job[k].asMain)

Start(j, kind, u, i, asMain) ==
    /\ job[j] = NoJob
    /\ job' = [job EXCEPT ![j] =
                [kind |-> kind, user |-> u,
                 pc |-> IF kind = "save" THEN "count" ELSE "find",
                 image |-> i, asMain |-> asMain, count |-> 0,
                 holds |-> {}, wants |-> {}, next |-> Null]]
    /\ apart' = IF kind = "save" /\ \E k \in Busy(u) : job[k].kind = "save"
                  THEN apart \ {u} ELSE apart
    /\ calm' = IF \E k \in Busy(u) : Conflict(k, kind, asMain)
                 THEN calm \ {u} ELSE calm
    /\ careful' = IF i \in Images /\ deleted[i] THEN careful \ {u} ELSE careful
    /\ UNCHANGED imageRows

\* One file of a POST: the client says whether it is to be the main image.
\* The files of one POST are jobs at the same time.
UploadProfileImage(j, u, asMain) == Start(j, "save", u, Null, asMain)
DeleteProfileImage(j, u, i) == profile[i] = u /\ Start(j, "delete", u, i, FALSE)
SetMainProfileImage(j, u, i) == profile[i] = u /\ Start(j, "setMain", u, i, FALSE)

-----------------------------------------------------------------------------
(* The statements of a transaction. *)

Waits(j) == job[j].wants # {}
At(j, kinds, pc) == /\ job[j] # NoJob /\ job[j].kind \in kinds
                    /\ job[j].pc = pc /\ ~Waits(j)

Unlocked(j, rows) == \A k \in Jobs \ {j} : job[k] # NoJob => job[k].holds \cap rows = {}

Goto(j, pc) == job' = [job EXCEPT ![j].pc = pc]

\* An UPDATE of rows, chosen as it starts; if one is locked, it waits.
Update(j, rows, pc, n) ==
    LET b == [job[j] EXCEPT !.pc = pc, !.next = n] IN
    job' = [job EXCEPT ![j] = IF Unlocked(j, rows) THEN [b EXCEPT !.holds = @ \cup rows]
                                                   ELSE [b EXCEPT !.wants = rows]]

Unblock(j) ==
    /\ job[j] # NoJob /\ Waits(j)
    /\ Unlocked(j, job[j].wants)
    /\ job' = [job EXCEPT ![j].holds = @ \cup job[j].wants, ![j].wants = {}]
    /\ UNCHANGED <<imageRows, histories>>

\* The transaction rolls back: an exception, a failed call, or a deadlock that
\* the database ends.
Rollback(j) ==
    /\ job' = [job EXCEPT ![j] = NoJob]
    /\ UNCHANGED <<imageRows, histories>>

\* Mutant: one image more.
CountImagesOneMore(j) ==
    LET n == Cardinality(Live(job[j].user)) IN
    /\ At(j, {"save"}, "count")
    /\ n <= Limit
    /\ job' = [job EXCEPT ![j].count = n,
                          ![j].pc = IF job[j].asMain THEN "clear" ELSE "insert"]
    /\ UNCHANGED <<imageRows, histories>>

CountImages(j) ==
    LET n == Cardinality(Live(job[j].user)) IN
    /\ At(j, {"save"}, "count")
    /\ n < Limit
    /\ job' = [job EXCEPT ![j].count = n,
                          ![j].pc = IF job[j].asMain THEN "clear" ELSE "insert"]
    /\ UNCHANGED <<imageRows, histories>>

TooManyImages(j) ==
    /\ At(j, {"save"}, "count")
    /\ Cardinality(Live(job[j].user)) >= Limit
    /\ Rollback(j)

\* Every image of the profile, deleted or not, is told it is not the main one.
ClearMain(j) ==
    /\ At(j, {"save", "setMain"}, "clear")
    /\ Update(j, Rows(job[j].user), IF job[j].kind = "save" THEN "insert" ELSE "commit", Null)
    /\ UNCHANGED <<imageRows, histories>>

\* Mutant: the former main image stays one.
InsertImageOnly(j, i) ==
    /\ At(j, {"save"}, "insert")
    /\ profile[i] = Null
    /\ profile' = [profile EXCEPT ![i] = job[j].user]
    /\ imageOrder' = [imageOrder EXCEPT ![i] = job[j].count + 1]
    /\ isMain' = [isMain EXCEPT ![i] = job[j].asMain]
    /\ job' = [job EXCEPT ![j] = NoJob]
    /\ UNCHANGED <<deleted, histories>>

InsertImage(j, i) ==
    /\ At(j, {"save"}, "insert")
    /\ profile[i] = Null
    /\ profile' = [profile EXCEPT ![i] = job[j].user]
    /\ imageOrder' = [imageOrder EXCEPT ![i] = job[j].count + 1]
    /\ isMain' = [k \in Images |-> IF k = i THEN job[j].asMain
                                   ELSE isMain[k] /\ k \notin job[j].holds]
    /\ job' = [job EXCEPT ![j] = NoJob]
    /\ UNCHANGED <<deleted, histories>>

\* Whether the row has been deleted is not asked.
FindImage(j) ==
    /\ At(j, {"delete", "setMain"}, "find")
    /\ job' = [job EXCEPT ![j].asMain = job[j].kind = "delete" /\ isMain[job[j].image],
                          ![j].pc = IF job[j].kind = "delete" THEN "mark" ELSE "clear"]
    /\ UNCHANGED <<imageRows, histories>>

MarkDeleted(j) ==
    /\ At(j, {"delete"}, "mark")
    /\ Update(j, {job[j].image}, IF job[j].asMain THEN "next" ELSE "commit", Null)
    /\ UNCHANGED <<imageRows, histories>>

\* Mutant: the next main image may be a deleted one.
FindNextMainAny(j) ==
    LET rest == Rows(job[j].user) \ {job[j].image} IN
    /\ At(j, {"delete"}, "next")
    /\ IF rest = {}
         THEN Goto(j, "commit")
         ELSE \E n \in rest :
                /\ \A i \in rest : imageOrder[n] <= imageOrder[i]
                /\ Update(j, {n}, "commit", n)
    /\ UNCHANGED <<imageRows, histories>>

\* The first of the images left becomes the main one; images of the same
\* order are returned in any order.
FindNextMain(j) ==
    LET rest == Live(job[j].user) \ {job[j].image} IN
    /\ At(j, {"delete"}, "next")
    /\ IF rest = {}
         THEN Goto(j, "commit")
         ELSE \E n \in rest :
                /\ \A i \in rest : imageOrder[n] <= imageOrder[i]
                /\ Update(j, {n}, "commit", n)
    /\ UNCHANGED <<imageRows, histories>>

CommitDelete(j) ==
    LET n == job[j].next IN
    /\ At(j, {"delete"}, "commit")
    /\ deleted' = [deleted EXCEPT ![job[j].image] = TRUE]
    /\ isMain' = [i \in Images |-> isMain[i] \/ (i = n /\ ~deleted[i])]
    /\ job' = [job EXCEPT ![j] = NoJob]
    /\ UNCHANGED <<profile, imageOrder, histories>>

CommitMain(j) ==
    /\ At(j, {"setMain"}, "commit")
    /\ isMain' = [i \in Images |-> IF i \in job[j].holds THEN i = job[j].image
                                                        ELSE isMain[i]]
    /\ job' = [job EXCEPT ![j] = NoJob]
    /\ UNCHANGED <<profile, imageOrder, deleted, histories>>

\* A call of the transaction or the upload before it fails, or the process ends.
JobFails(j) ==
    /\ job[j] # NoJob
    /\ Rollback(j)

-----------------------------------------------------------------------------
Statement(j) ==
    \/ CountImages(j) \/ ClearMain(j) \/ FindImage(j) \/ MarkDeleted(j)
    \/ FindNextMain(j) \/ CommitDelete(j) \/ CommitMain(j) \/ Unblock(j)

Ask(j, u) ==
    \/ \E asMain \in BOOLEAN : UploadProfileImage(j, u, asMain)
    \/ \E i \in Images : DeleteProfileImage(j, u, i) \/ SetMainProfileImage(j, u, i)

-----------------------------------------------------------------------------
(* What the images of a profile promise. *)

ImagesTypeOK ==
    /\ profile \in [Images -> Users \cup {Null}]
    /\ isMain \in [Images -> BOOLEAN]
    /\ imageOrder \in [Images -> 0 .. Limit]
    /\ deleted \in [Images -> BOOLEAN]
    /\ job \in [Jobs -> Job \cup {NoJob}]
    /\ apart \subseteq Users /\ calm \subseteq Users /\ careful \subseteq Users

\* A profile has no more images than the message of the error says, if no two
\* of its images were saved at the same time.
AtMostLimit == \A u \in apart : Cardinality(Live(u)) <= Limit

\* A profile never has two main images, unless a deletion met another job, two
\* jobs chose a main image at once, or a deleted image was named.
OneMain == \A u \in calm \cap careful : Cardinality(Main(u)) <= 1

\* A profile that has a main image keeps one as long as it has an image.
MainKept ==
    [][\A u \in calm \cap careful : Main(u) # {} => Main(u)' # {} \/ Live(u)' = {}]_imageVars

=============================================================================
