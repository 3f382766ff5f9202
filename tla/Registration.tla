----------------------------- MODULE Registration -----------------------------
(***************************************************************************)
(* Signing up and registering a university (signup.service.ts,             *)
(* signup.repository.ts, university.service.ts, university.repository.ts), *)
(* composed with the images of the profile.  A signup commits its user,    *)
(* the university, the reference to it and each image one after the other, *)
(* the images at the same time.  Users who have signed up before change    *)
(* their images; their universities are those of the others.               *)
(***************************************************************************)
EXTENDS ProfileImages

CONSTANTS
    Details,        \* rows of university_details
    Posts           \* POST /auth/signup and POST /universities being worked on

ASSUME DetailsAssumption == Null \notin Details

VARIABLES
    member,         \* users who signed up before, without images so far
    created,        \* users with a row, a profile and preferences
    owner,          \* university_details.user_id, Null while there is no row
    removed,        \* university_details.deleted_at is set
    authenticated,  \* university_details.authentication
    universityDetailId, \* profiles.university_detail_id
    request,
    unsent,         \* files of a user's signup that are being uploaded
    saved,          \* number of files of a user's signup that have a row
    steady          \* history: users whose requests about a university
                    \* neither overlapped nor failed

universityVars == <<owner, removed, authenticated, universityDetailId, steady>>
signupVars == <<member, created, request, unsent, saved>>
registrationVars == <<imageVars, universityVars, signupVars>>

Post == [op : {"signup", "university"},
            pc : {"remove", "count", "write", "reference", "upload", "answer"},
            user : Users, files : 0 .. Limit,
            exists : BOOLEAN, detail : Details \cup {Null}]
NoRequest == [op |-> "none"]

Current(u) == {d \in Details : owner[d] = u /\ ~removed[d]}
AtWork(u) == {r \in Posts : request[r] # NoRequest /\ request[r].user = u}
SigningUp(u) == \E r \in AtWork(u) : request[r].op = "signup"

SignupInit ==
    /\ ImagesInit
    /\ member \in SUBSET Users
    /\ created = {}
    /\ owner = [d \in Details |-> Null]
    /\ removed = [d \in Details |-> FALSE]
    /\ authenticated = [d \in Details |-> FALSE]
    /\ universityDetailId = [u \in Users |-> Null]
    /\ request = [r \in Posts |-> NoRequest]
    /\ unsent = [u \in Users |-> {}]
    /\ saved = [u \in Users |-> 0]
    /\ steady = Users

-----------------------------------------------------------------------------
(* The requests.  A client asks for something about its account when its   *)
(* signup has been answered or refused.                                    *)

BeginPost(r, op, u, n) ==
    /\ request[r] = NoRequest
    /\ request' = [request EXCEPT ![r] =
                     [op |-> op, pc |-> IF op = "signup" THEN "count" ELSE "remove",
                      user |-> u, files |-> n, exists |-> FALSE, detail |-> Null]]
    /\ UNCHANGED <<imageVars, owner, removed, authenticated, universityDetailId,
                   member, unsent, saved>>

\* createUser commits; nobody asks whether the telephone number is known.
CreateUser(r, u, n) ==
    /\ u \notin created \cup member
    /\ created' = created \cup {u}
    /\ BeginPost(r, "signup", u, n)
    /\ UNCHANGED steady

RegisterUniversity(r, u) ==
    /\ u \in created /\ ~SigningUp(u)
    /\ BeginPost(r, "university", u, 0)
    /\ steady' = IF AtWork(u) = {} THEN steady ELSE steady \ {u}
    /\ UNCHANGED created

Is(r, op, pc) == request[r] # NoRequest /\ request[r].op \in op /\ request[r].pc = pc
Either == {"signup", "university"}

RemoveUniversity(r) ==
    /\ Is(r, {"university"}, "remove")
    /\ removed' = [d \in Details |-> removed[d] \/ owner[d] = request[r].user]
    /\ request' = [request EXCEPT ![r].pc = "count"]
    /\ UNCHANGED <<imageVars, owner, authenticated, universityDetailId, steady,
                   member, created, unsent, saved>>

\* Mutant: removed rows are counted, too.
CountDetailsAll(r) ==
    /\ Is(r, Either, "count")
    /\ request' = [request EXCEPT ![r].pc = "write",
                     ![r].exists = \E d \in Details : owner[d] = request[r].user]
    /\ UNCHANGED <<imageVars, universityVars, member, created, unsent, saved>>

CountDetails(r) ==
    /\ Is(r, Either, "count")
    /\ request' = [request EXCEPT ![r].pc = "write",
                                  ![r].exists = Current(request[r].user) # {}]
    /\ UNCHANGED <<imageVars, universityVars, member, created, unsent, saved>>

Written(r, d) ==
    request' = [request EXCEPT ![r].detail = d,
                  ![r].pc = IF request[r].op = "signup" THEN "reference" ELSE "answer"]

\* The rows found get the new names and keep their authentication.
UpdateDetails(r) ==
    LET rows == Current(request[r].user) IN
    /\ Is(r, Either, "write") /\ request[r].exists
    /\ IF rows = {} THEN Written(r, Null) ELSE \E d \in rows : Written(r, d)
    /\ UNCHANGED <<imageVars, universityVars, member, created, unsent, saved>>

InsertDetails(r, d) ==
    /\ Is(r, Either, "write") /\ ~request[r].exists
    /\ owner[d] = Null
    /\ owner' = [owner EXCEPT ![d] = request[r].user]
    /\ Written(r, d)
    /\ UNCHANGED <<imageVars, removed, authenticated, universityDetailId, steady,
                   member, created, unsent, saved>>

\* The operator confirms a university by hand.
Authenticate(d) ==
    /\ owner[d] # Null /\ ~removed[d] /\ ~authenticated[d]
    /\ authenticated' = [authenticated EXCEPT ![d] = TRUE]
    /\ UNCHANGED <<imageVars, signupVars, owner, removed, universityDetailId, steady>>

\* Only a signup writes the reference; then all its files are sent off.
UpdateUniversityId(r) ==
    LET u == request[r].user IN
    /\ Is(r, {"signup"}, "reference")
    /\ universityDetailId' = [universityDetailId EXCEPT ![u] = request[r].detail]
    /\ unsent' = [unsent EXCEPT ![u] = 1 .. request[r].files]
    /\ request' = [request EXCEPT ![r].pc = "upload"]
    /\ UNCHANGED <<imageVars, owner, removed, authenticated, steady, member,
                   created, saved>>

\* Mutant: every file is to be the main image.
UploadedAllMain(j, u, f) ==
    /\ f \in unsent[u]
    /\ unsent' = [unsent EXCEPT ![u] = @ \ {f}]
    /\ Start(j, "save", u, Null, TRUE)
    /\ UNCHANGED <<universityVars, member, created, request, saved>>

\* A file is in the bucket; the first of the signup is to be the main image.
Uploaded(j, u, f) ==
    /\ f \in unsent[u]
    /\ unsent' = [unsent EXCEPT ![u] = @ \ {f}]
    /\ Start(j, "save", u, Null, f = 1)
    /\ UNCHANGED <<universityVars, member, created, request, saved>>

\* Promise.all rejects with the first of its promises; the others go on.
Reject(u) ==
    request' = [r \in Posts |-> IF r \in AtWork(u) /\ request[r].op = "signup"
                                     THEN NoRequest ELSE request[r]]

Insert(j, i) ==
    LET u == job[j].user IN
    /\ InsertImage(j, i)
    /\ saved' = IF u \in created THEN [saved EXCEPT ![u] = @ + 1] ELSE saved
    /\ UNCHANGED <<universityVars, member, created, request, unsent>>

UploadFails(j) ==
    /\ TooManyImages(j) \/ JobFails(j)
    /\ Reject(job[j].user)
    /\ UNCHANGED <<universityVars, member, created, unsent, saved>>

UploadsDone(r) ==
    /\ Is(r, {"signup"}, "upload")
    /\ saved[request[r].user] = request[r].files
    /\ request' = [request EXCEPT ![r].pc = "answer"]
    /\ UNCHANGED <<imageVars, universityVars, member, created, unsent, saved>>

AnswerPost(r) ==
    /\ Is(r, Either, "answer")
    /\ request' = [request EXCEPT ![r] = NoRequest]
    /\ UNCHANGED <<imageVars, universityVars, member, created, unsent, saved>>

\* A call fails, the message to Slack included, or the process ends.  Files
\* that are being uploaded go on.
RequestFails(r) ==
    /\ request[r] # NoRequest
    /\ steady' = steady \ {request[r].user}
    /\ request' = [request EXCEPT ![r] = NoRequest]
    /\ UNCHANGED <<imageVars, owner, removed, authenticated,
                   universityDetailId, member, created, unsent, saved>>

ImageStep(j) ==
    /\ Statement(j) \/ \E u \in member : Ask(j, u)
    /\ UNCHANGED <<universityVars, signupVars>>

SignupNext ==
    \/ \E r \in Posts, u \in Users :
          RegisterUniversity(r, u) \/ \E n \in 1 .. Limit : CreateUser(r, u, n)
    \/ \E r \in Posts :
          \/ RemoveUniversity(r) \/ CountDetails(r) \/ UpdateDetails(r)
          \/ UpdateUniversityId(r) \/ UploadsDone(r) \/ AnswerPost(r) \/ RequestFails(r)
    \/ \E r \in Posts, d \in Details : InsertDetails(r, d)
    \/ \E d \in Details : Authenticate(d)
    \/ \E j \in Jobs, u \in Users : \E f \in unsent[u] : Uploaded(j, u, f)
    \/ \E j \in Jobs : ImageStep(j) \/ UploadFails(j) \/ \E i \in Images : Insert(j, i)

SignupSpec == SignupInit /\ [][SignupNext]_registrationVars

-----------------------------------------------------------------------------
(* What registration promises. *)

SignupTypeOK ==
    /\ ImagesTypeOK
    /\ member \subseteq Users /\ created \subseteq Users
    /\ owner \in [Details -> Users \cup {Null}]
    /\ removed \in [Details -> BOOLEAN]
    /\ authenticated \in [Details -> BOOLEAN]
    /\ universityDetailId \in [Users -> Details \cup {Null}]
    /\ request \in [Posts -> Post \cup {NoRequest}]
    /\ unsent \in [Users -> SUBSET (1 .. Limit)]
    /\ saved \in [Users -> 0 .. Limit]
    /\ steady \subseteq Users

\* A signup that is answered is complete: the profile refers to the user's
\* university, every file has a row, and exactly one of them is the main image,
\* although the files are saved at the same time.
SignupComplete ==
    \A r \in Posts : Is(r, {"signup"}, "answer") =>
        LET u == request[r].user IN
        /\ Current(u) = {universityDetailId[u]}
        /\ Cardinality(Live(u)) = request[r].files
        /\ Cardinality(Main(u)) = 1

\* A user who has a university keeps exactly one while it is not being
\* registered again, if registrations neither overlapped nor failed.
OneUniversity ==
    \A u \in steady : AtWork(u) = {} /\ (\E d \in Details : owner[d] = u) =>
        Cardinality(Current(u)) = 1
=============================================================================
