---------------------------- MODULE AccountProofs ----------------------------
(***************************************************************************)
(* What an account is promised.  First the rows a signup and the jobs on   *)
(* profile images write, for every number of users, images, requests and   *)
(* jobs at once; then the sessions, for every number of users, clients and *)
(* requests, every life of the tokens and every failure.                   *)
(***************************************************************************)
EXTENDS Registration, Sessions, FiniteSetTheorems, TLAPS

-----------------------------------------------------------------------------
(* The images of a profile. *)

Saving(j) == job[j].kind = "save"
Chooses(j) == ChoosesMain(job[j].kind, job[j].asMain)

SaveShape(b) ==
    /\ b.pc \in {"count", "clear", "insert"} /\ b.image = Null /\ b.next = Null
    /\ b.pc = "clear" => b.asMain
    /\ b.pc \in {"clear", "insert"} => b.count < Limit
    /\ ~b.asMain => b.holds = {} /\ b.wants = {}
SetMainShape(b) ==
    /\ b.pc \in {"find", "clear", "commit"} /\ b.next = Null
    /\ b.image \in Rows(b.user)
    /\ b.pc = "commit" => b.image \in b.holds \cup b.wants
DeleteShape(b) ==
    /\ b.pc \in {"find", "mark", "next", "commit"}
    /\ b.image \in Rows(b.user)
    /\ b.next # Null => b.pc = "commit" /\ b.next \in Rows(b.user)

\* A job locks rows of its user only, and is where its kind takes it.
JobShape(b) ==
    /\ b.holds \cup b.wants \subseteq Rows(b.user)
    /\ b.kind = "save" => SaveShape(b)
    /\ b.kind = "setMain" => SetMainShape(b)
    /\ b.kind = "delete" => DeleteShape(b)

ImageShape ==
    /\ ImagesTypeOK
    /\ \A i \in Images : profile[i] = Null => ~deleted[i]
    /\ \A j \in Jobs : job[j] # NoJob => JobShape(job[j])

\* One image at a time is saved, and none has come since they were counted.
SavedApart ==
    \A u \in apart :
        /\ Cardinality(Live(u)) <= Limit
        /\ \A j, k \in Busy(u) : Saving(j) /\ Saving(k) => j = k
        /\ \A j \in Busy(u) : Saving(j) /\ job[j].pc \in {"clear", "insert"} =>
              Cardinality(Live(u)) <= job[j].count

\* A deletion is alone with its profile, and so is a choice of the main image with it.
AloneInCalm ==
    \A u \in calm : \A j, k \in Busy(u) :
        /\ job[j].kind = "delete" => j = k
        /\ Chooses(j) /\ Chooses(k) => j = k

\* What a job that chooses the main image has found is still true.
MainShape(u, b) ==
    /\ b.kind \in {"delete", "setMain"} => ~deleted[b.image]
    /\ b.kind = "setMain" /\ b.pc = "commit" => Main(u) \subseteq b.holds \cup b.wants
    /\ b.kind = "save" /\ b.asMain /\ b.pc = "insert" => Main(u) \subseteq b.holds \cup b.wants
    /\ b.kind = "delete" /\ b.pc # "find" => b.asMain = isMain[b.image]
    /\ b.kind = "delete" /\ b.pc = "next" => b.asMain
    /\ b.kind = "delete" /\ ~b.asMain => b.next = Null
    /\ b.kind = "delete" /\ b.pc = "commit" /\ b.asMain =>
         IF b.next = Null THEN Live(u) \subseteq {b.image} ELSE b.next \in Live(u) \ {b.image}

MainInOrder ==
    \A u \in calm \cap careful :
        /\ \A a, b \in Main(u) : a = b
        /\ \A j \in Busy(u) : MainShape(u, job[j])

ImageInv == ImageShape /\ SavedApart /\ AloneInCalm /\ MainInOrder

-----------------------------------------------------------------------------
(* Registration. *)

Filed(u) == saved[u] + Cardinality(Busy(u)) + Cardinality(unsent[u])
MainOnItsWay(u) == 1 \in unsent[u] \/ \E j \in Busy(u) : job[j].asMain

\* Who is signing up, or has signed up here, has saved images only.
Newcomers ==
    /\ created \cap member = {}
    /\ \A u \in Users \ created : unsent[u] = {} /\ saved[u] = 0
    /\ \A u \in Users \ (created \cup member) :
          u \in calm \cap careful /\ Rows(u) = {} /\ Busy(u) = {}
    /\ \A u \in created :
          /\ u \in calm \cap careful
          /\ \A j \in Busy(u) : Saving(j)
          /\ \A i \in Rows(u) : ~deleted[i]
          /\ saved[u] = Cardinality(Rows(u))
          /\ Filed(u) <= Limit
          /\ 1 \in unsent[u] => \A j \in Busy(u) : ~job[j].asMain
          /\ MainOnItsWay(u) => Main(u) = {}

\* The files of a signup.
FilesOf(u, q) ==
    /\ q.files > 0
    /\ q.pc \in {"count", "write", "reference"} =>
         unsent[u] = {} /\ Busy(u) = {} /\ saved[u] = 0
    /\ q.pc \in {"upload", "answer"} => Filed(u) <= q.files /\ (MainOnItsWay(u) \/ Main(u) # {})
    /\ q.pc = "answer" => saved[u] = q.files

\* The university of a signup.
DetailOf(u, q) ==
    /\ q.pc \in {"count", "write"} => \A d \in Details : owner[d] # u
    /\ q.pc = "write" => ~q.exists
    /\ q.pc = "reference" => q.detail \in Details /\ Current(u) = {q.detail}
    /\ q.pc \in {"upload", "answer"} => Current(u) = {universityDetailId[u]}

\* A user signs up once, and asks for nothing else meanwhile.
Signups ==
    \A u \in Users : \A r \in AtWork(u) :
        /\ u \in created
        /\ request[r].op = "signup" =>
             /\ request[r].pc # "remove"
             /\ AtWork(u) = {r}
             /\ FilesOf(u, request[r])
             /\ DetailOf(u, request[r])
        /\ request[r].op = "university" => request[r].pc \in {"remove", "count", "write", "answer"}

Owners ==
    \A d \in Details :
        /\ owner[d] # Null => owner[d] \in created
        /\ owner[d] = Null => ~removed[d]

HasOne(u) == \E d \in Details : Current(u) = {d}

\* The university of a user whose requests came one after the other.
Steady ==
    \A u \in steady :
        /\ \A r, q \in AtWork(u) : r = q
        /\ AtWork(u) = {} => HasOne(u) \/ \A d \in Details : owner[d] # u
        /\ \A r \in AtWork(u) : request[r].op = "university" =>
              /\ request[r].pc \in {"count", "write"} => Current(u) = {}
              /\ request[r].pc = "write" => ~request[r].exists
              /\ request[r].pc = "answer" => HasOne(u)

SignupInv == SignupTypeOK /\ Newcomers /\ Signups /\ Owners /\ Steady
RegInv == ImageInv /\ SignupInv

-----------------------------------------------------------------------------
(* Lemmas about the images. *)

LEMMA JobTyped ==
  ASSUME ImagesTypeOK, NEW j \in Jobs, job[j] # NoJob
  PROVE  job[j] \in Job /\ job[j].user \in Users /\ job[j].user # Null
BY UsersAssumption DEF ImagesTypeOK, Job

LEMMA SameImages ==
  ASSUME UNCHANGED imageRows
  PROVE  \A u : Rows(u)' = Rows(u) /\ Live(u)' = Live(u) /\ Main(u)' = Main(u)
BY DEF imageRows, Rows, Live, Main

\* A job stays in shape while no row is taken away.
LEMMA ShapeKept ==
  ASSUME NEW k \in Jobs, job'[k] = job[k], job[k].user # Null, JobShape(job[k]),
         \A i \in Images : profile[i] # Null => profile'[i] = profile[i]
  PROVE  JobShape(job[k])'
BY DEF JobShape, SaveShape, SetMainShape, DeleteShape, Rows

LEMMA MainShapeKept ==
  ASSUME NEW u, NEW k \in Jobs, job'[k] = job[k], MainShape(u, job[k]),
         UNCHANGED imageRows
  PROVE  MainShape(u, job[k])'
<1>1. Live(u)' = Live(u) /\ Main(u)' = Main(u)
  BY SameImages
<1>2. deleted' = deleted /\ isMain' = isMain
  BY DEF imageRows
<1>. QED  BY <1>1, <1>2 DEF MainShape

\* The rows of a profile are finite.
LEMMA Finite ==
  ASSUME NEW u
  PROVE  /\ IsFiniteSet(Rows(u)) /\ IsFiniteSet(Live(u)) /\ IsFiniteSet(Main(u))
         /\ Cardinality(Live(u)) \in 0 .. Cardinality(Images)
<1>1. Rows(u) \subseteq Images /\ Live(u) \subseteq Images /\ Main(u) \subseteq Images
  BY DEF Rows, Live, Main
<1>2. Cardinality(Images) \in Nat
  BY ImagesAssumption, FS_CardinalityType
<1>3. IsFiniteSet(Live(u)) /\ Cardinality(Live(u)) <= Cardinality(Images)
  BY <1>1, ImagesAssumption, FS_Subset
<1>4. Cardinality(Live(u)) \in Nat
  BY <1>3, FS_CardinalityType
<1>. QED  BY <1>1, <1>2, <1>3, <1>4, ImagesAssumption, FS_Subset

\* A job that moves on without writing a row.
LEMMA JobMoves ==
  ASSUME ImageInv, NEW j \in Jobs, job[j] # NoJob,
         NEW b \in Job, b.user = job[j].user, b.kind = job[j].kind, JobShape(b),
         job' = [job EXCEPT ![j] = b], UNCHANGED <<imageRows, histories>>,
         ChoosesMain(b.kind, b.asMain) => Chooses(j),
         b.user \in apart /\ b.kind = "save" /\ b.pc \in {"clear", "insert"}
            => Cardinality(Live(b.user)) <= b.count,
         b.user \in calm \cap careful => MainShape(b.user, b)
  PROVE  ImageInv' /\ \A u : Busy(u)' = Busy(u)
<1>1. \A u : Rows(u)' = Rows(u) /\ Live(u)' = Live(u) /\ Main(u)' = Main(u)
  BY SameImages
<1>2. b # NoJob /\ job[j] \in Job
  BY JobTyped DEF Job, NoJob, ImageInv, ImageShape
<1>3. /\ job' \in [Jobs -> Job \cup {NoJob}]
      /\ job'[j] = b /\ \A k \in Jobs \ {j} : job'[k] = job[k]
  BY DEF ImageInv, ImageShape, ImagesTypeOK
<1>4. \A u : Busy(u)' = Busy(u)
  BY <1>2, <1>3 DEF Busy
<1>5. ImagesTypeOK'
  BY <1>3 DEF ImageInv, ImageShape, ImagesTypeOK, imageRows, histories
<1>6. ASSUME NEW k \in Jobs, job'[k] # NoJob
      PROVE  JobShape(job[k])'
  <2>1. CASE k = j
    BY <1>3, <2>1 DEF JobShape, SaveShape, SetMainShape, DeleteShape, Rows, imageRows
  <2>2. CASE k # j
    <3>1. job'[k] = job[k] /\ JobShape(job[k]) /\ job[k].user # Null
      BY <1>3, <1>6, <2>2, JobTyped DEF ImageInv, ImageShape
    <3>. QED  BY <3>1, ShapeKept DEF imageRows
  <2>. QED  BY <2>1, <2>2
<1>7. ImageShape'
  BY <1>5, <1>6 DEF ImageInv, ImageShape, imageRows
<1>8. SavedApart'
  <2>. SUFFICES ASSUME NEW u \in apart
                PROVE  /\ Cardinality(Live(u)) <= Limit
                       /\ \A i, k \in Busy(u) : Saving(i)' /\ Saving(k)' => i = k
                       /\ \A k \in Busy(u) : Saving(k)' /\ job'[k].pc \in {"clear", "insert"}
                            => Cardinality(Live(u)) <= job'[k].count
    BY <1>1, <1>4 DEF SavedApart, histories
  <2>1. \A k \in Busy(u) : k \in Jobs /\ (Saving(k)' <=> Saving(k))
    BY <1>3 DEF Busy, Saving
  <2>2. j \in Busy(u) => b.user = u
    BY DEF Busy
  <2>. QED  BY <1>3, <2>1, <2>2 DEF ImageInv, SavedApart, Saving
<1>9. AloneInCalm'
  <2>. SUFFICES ASSUME NEW u \in calm, NEW i \in Busy(u), NEW k \in Busy(u)
                PROVE  /\ job'[i].kind = "delete" => i = k
                       /\ Chooses(i)' /\ Chooses(k)' => i = k
    BY <1>4 DEF AloneInCalm, histories
  <2>1. i \in Jobs /\ k \in Jobs
    BY DEF Busy
  <2>2. job'[i].kind = job[i].kind /\ (Chooses(i)' => Chooses(i)) /\ (Chooses(k)' => Chooses(k))
    BY <1>3, <2>1 DEF Chooses
  <2>. QED  BY <2>2 DEF ImageInv, AloneInCalm
<1>10. MainInOrder'
  <2>. SUFFICES ASSUME NEW u \in calm \cap careful
                PROVE  /\ \A a, c \in Main(u) : a = c
                       /\ \A k \in Busy(u) : MainShape(u, job[k])'
    BY <1>1, <1>4 DEF MainInOrder, histories
  <2>1. ASSUME NEW k \in Busy(u)
        PROVE  MainShape(u, job[k])'
    <3>1. k \in Jobs /\ (k = j => b.user = u)
      BY <2>1 DEF Busy
    <3>2. CASE k = j
      BY <1>1, <1>3, <3>1, <3>2 DEF MainShape, imageRows
    <3>3. CASE k # j
      BY <1>3, <2>1, <3>1, <3>3, MainShapeKept DEF ImageInv, MainInOrder
    <3>. QED  BY <3>2, <3>3
  <2>. QED  BY <2>1 DEF ImageInv, MainInOrder
<1>. QED  BY <1>4, <1>7, <1>8, <1>9, <1>10 DEF ImageInv

\* A job that ends without writing a row.
LEMMA RollbackInv ==
  ASSUME ImageInv, NEW j \in Jobs, job[j] # NoJob, Rollback(j)
  PROVE  ImageInv' /\ \A u : Busy(u)' = Busy(u) \ {j}
<1>1. \A u : Rows(u)' = Rows(u) /\ Live(u)' = Live(u) /\ Main(u)' = Main(u)
  BY SameImages DEF Rollback
<1>2. /\ job' \in [Jobs -> Job \cup {NoJob}]
      /\ job'[j] = NoJob /\ \A k \in Jobs \ {j} : job'[k] = job[k]
  BY DEF ImageInv, ImageShape, ImagesTypeOK, Rollback
<1>3. \A u : Busy(u)' = Busy(u) \ {j}
  BY <1>2 DEF Busy
<1>4. ImagesTypeOK'
  BY <1>2 DEF ImageInv, ImageShape, ImagesTypeOK, imageRows, histories, Rollback
<1>5. ASSUME NEW k \in Jobs, job'[k] # NoJob
      PROVE  JobShape(job[k])'
  <2>1. job'[k] = job[k] /\ JobShape(job[k]) /\ job[k].user # Null
    BY <1>2, <1>5, JobTyped DEF ImageInv, ImageShape
  <2>. QED  BY <2>1, ShapeKept DEF imageRows, Rollback
<1>6. ImageShape'
  BY <1>4, <1>5 DEF ImageInv, ImageShape, imageRows, Rollback
<1>7. \A u : \A k \in Busy(u)' : k \in Busy(u) /\ k \in Jobs /\ job'[k] = job[k]
  BY <1>2, <1>3 DEF Busy
<1>8. SavedApart'
  BY <1>1, <1>7 DEF ImageInv, SavedApart, Saving, histories, Rollback
<1>9. AloneInCalm'
  BY <1>7 DEF ImageInv, AloneInCalm, Chooses, histories, Rollback
<1>10. MainInOrder'
  <2>1. ASSUME NEW u \in calm \cap careful, NEW k \in Busy(u)'
        PROVE  MainShape(u, job[k])'
    BY <1>7, <2>1, MainShapeKept DEF ImageInv, MainInOrder, Rollback
  <2>. QED  BY <1>1, <2>1 DEF ImageInv, MainInOrder, histories, Rollback
<1>. QED  BY <1>3, <1>6, <1>8, <1>9, <1>10 DEF ImageInv

\* A request about an image of its user, or a file for a user.
LEMMA StartInv ==
  ASSUME ImageInv, NEW j \in Jobs, NEW kind \in Kinds, NEW u \in Users,
         NEW i \in Images \cup {Null}, NEW asMain \in BOOLEAN,
         kind = "save" => i = Null,
         kind # "save" => i \in Rows(u),
         Start(j, kind, u, i, asMain)
  PROVE  /\ ImageInv'
         /\ Busy(u)' = Busy(u) \cup {j} /\ j \notin Busy(u)
         /\ \A v : v # u => Busy(v)' = Busy(v)
<1> DEFINE b == [kind |-> kind, user |-> u,
                 pc |-> IF kind = "save" THEN "count" ELSE "find",
                 image |-> i, asMain |-> asMain, count |-> 0,
                 holds |-> {}, wants |-> {}, next |-> Null]
<1>0. job[j] = NoJob /\ job' = [job EXCEPT ![j] = b]
  BY DEF Start
<1>1. Cardinality(Images) \in Nat
  BY ImagesAssumption, FS_CardinalityType
<1>2. b \in Job /\ b # NoJob
  BY <1>1 DEF Job, Kinds, NoJob
<1>3. /\ b.kind = kind /\ b.user = u /\ b.image = i /\ b.asMain = asMain /\ b.next = Null
      /\ b.holds = {} /\ b.wants = {}
      /\ b.pc = IF kind = "save" THEN "count" ELSE "find"
  OBVIOUS
<1> HIDE DEF b
<1>4. /\ job' \in [Jobs -> Job \cup {NoJob}]
      /\ job'[j] = b /\ \A k \in Jobs \ {j} : job'[k] = job[k]
  BY <1>0, <1>2 DEF ImageInv, ImageShape, ImagesTypeOK
<1>5. UNCHANGED imageRows
  BY DEF Start
<1>6. \A v : Rows(v)' = Rows(v) /\ Live(v)' = Live(v) /\ Main(v)' = Main(v)
  BY <1>5, SameImages
<1>7. /\ Busy(u)' = Busy(u) \cup {j} /\ j \notin Busy(u)
      /\ \A v : v # u => Busy(v)' = Busy(v)
  BY <1>0, <1>2, <1>3, <1>4 DEF Busy
<1>8. /\ apart' \subseteq apart /\ calm' \subseteq calm /\ careful' \subseteq careful
      /\ u \in apart' /\ kind = "save" => \A k \in Busy(u) : job[k].kind # "save"
      /\ u \in calm' => \A k \in Busy(u) : ~Conflict(k, kind, asMain)
      /\ u \in careful' => ~(i \in Images /\ deleted[i])
  BY DEF Start
<1>9. ImagesTypeOK'
  BY <1>4, <1>5, <1>8 DEF ImageInv, ImageShape, ImagesTypeOK, imageRows
<1>10. ASSUME NEW k \in Jobs, job'[k] # NoJob
       PROVE  JobShape(job[k])'
  <2>1. CASE k = j
    <3>1. kind # "save" => b.image \in Rows(b.user)'
      BY <1>3, <1>6
    <3>. QED  BY <1>3, <1>4, <2>1, <3>1 DEF JobShape, SaveShape, SetMainShape, DeleteShape, Rows
  <2>2. CASE k # j
    <3>1. job'[k] = job[k] /\ JobShape(job[k]) /\ job[k].user # Null
      BY <1>4, <1>10, <2>2, JobTyped DEF ImageInv, ImageShape
    <3>. QED  BY <1>5, <3>1, ShapeKept DEF imageRows
  <2>. QED  BY <2>1, <2>2
<1>11. ImageShape'
  BY <1>5, <1>9, <1>10 DEF ImageInv, ImageShape, imageRows
<1>12. \A v : \A k \in Busy(v)' :
          k \in Jobs /\ (k = j => v = u) /\ (k # j => k \in Busy(v) /\ job'[k] = job[k])
  BY <1>4, <1>7 DEF Busy
<1>13. SavedApart'
  <2>. SUFFICES ASSUME NEW v \in apart'
                PROVE  /\ Cardinality(Live(v)) <= Limit
                       /\ \A h, k \in Busy(v)' : Saving(h)' /\ Saving(k)' => h = k
                       /\ \A k \in Busy(v)' : Saving(k)' /\ job'[k].pc \in {"clear", "insert"}
                            => Cardinality(Live(v)) <= job'[k].count
    BY <1>6 DEF SavedApart
  <2>1. v \in apart
    BY <1>8
  <2>2. \A h, k \in Busy(v)' : Saving(h)' /\ Saving(k)' => h = k
    BY <1>3, <1>4, <1>8, <1>12, <2>1 DEF ImageInv, SavedApart, Saving
  <2>3. \A k \in Busy(v)' : Saving(k)' /\ job'[k].pc \in {"clear", "insert"}
          => k # j /\ k \in Busy(v) /\ job'[k] = job[k] /\ Saving(k)
    BY <1>3, <1>4, <1>12 DEF Saving
  <2>. QED  BY <2>1, <2>2, <2>3 DEF ImageInv, SavedApart
<1>14. AloneInCalm'
  <2>. SUFFICES ASSUME NEW v \in calm', NEW h \in Busy(v)', NEW k \in Busy(v)'
                PROVE  /\ job'[h].kind = "delete" => h = k
                       /\ Chooses(h)' /\ Chooses(k)' => h = k
    BY DEF AloneInCalm
  <2>1. v \in calm
    BY <1>8
  <2>2. \A x \in Busy(u) : v = u =>
          /\ job[x].kind # "delete" /\ kind # "delete"
          /\ ~(ChoosesMain(kind, asMain) /\ Chooses(x))
    BY <1>8 DEF Conflict, Chooses
  <2>3. CASE h = j /\ k = j
    BY <2>3
  <2>4. CASE h = j /\ k # j
    BY <1>3, <1>4, <1>12, <2>2, <2>4 DEF Chooses
  <2>5. CASE h # j /\ k = j
    BY <1>3, <1>4, <1>12, <2>2, <2>5 DEF Chooses
  <2>6. CASE h # j /\ k # j
    BY <1>12, <2>1, <2>6 DEF ImageInv, AloneInCalm, Chooses
  <2>. QED  BY <2>3, <2>4, <2>5, <2>6
<1>15. MainInOrder'
  <2>1. ASSUME NEW v \in calm' \cap careful', NEW k \in Busy(v)'
        PROVE  MainShape(v, job[k])'
    <3>1. v \in calm \cap careful
      BY <1>8, <2>1
    <3>2. CASE k = j
      <4>1. kind \in {"delete", "setMain"} => ~deleted'[i]
        BY <1>5, <1>8, <1>12, <2>1, <3>2 DEF imageRows, Rows
      <4>. QED  BY <1>3, <1>4, <3>2, <4>1 DEF MainShape
    <3>3. CASE k # j
      BY <1>5, <1>12, <2>1, <3>1, <3>3, MainShapeKept DEF ImageInv, MainInOrder
    <3>. QED  BY <3>2, <3>3
  <2>2. \A v \in calm' \cap careful' : \A a, c \in Main(v) : a = c
    BY <1>8 DEF ImageInv, MainInOrder
  <2>. QED  BY <1>6, <2>1, <2>2 DEF MainInOrder
<1>. QED  BY <1>7, <1>11, <1>13, <1>14, <1>15 DEF ImageInv

-----------------------------------------------------------------------------
(* The statements that write no row. *)

\* What of a job is the same after a statement that lets it go on.
LEMMA Fields ==
  ASSUME ImageInv, NEW j \in Jobs, job[j] # NoJob
  PROVE  /\ job[j] \in Job /\ JobShape(job[j]) /\ job[j].user \in Users
         /\ j \in Busy(job[j].user)
         /\ job[j].user \in apart /\ Saving(j) /\ job[j].pc \in {"clear", "insert"}
              => Cardinality(Live(job[j].user)) <= job[j].count
         /\ job[j].user \in calm \cap careful => MainShape(job[j].user, job[j])
<1>1. job[j] \in Job /\ JobShape(job[j]) /\ job[j].user \in Users /\ j \in Busy(job[j].user)
  BY JobTyped DEF ImageInv, ImageShape, Busy
<1>. QED  BY <1>1 DEF ImageInv, SavedApart, MainInOrder

Moves(j) == CountImages(j) \/ ClearMain(j) \/ FindImage(j) \/ MarkDeleted(j)
               \/ FindNextMain(j) \/ Unblock(j)

\* What a statement without effect on the rows leaves of its job.
Onward(j, b) ==
    /\ b \in Job /\ b.user = job[j].user /\ b.kind = job[j].kind
    /\ b.kind = "save" => b.asMain = job[j].asMain
    /\ job' = [job EXCEPT ![j] = b]

LEMMA CountImagesInv ==
  ASSUME ImageInv, NEW j \in Jobs, CountImages(j)
  PROVE  ImageInv' /\ \E b : Onward(j, b)
<1>0. PICK q : q = job[j]
  OBVIOUS
<1>1. job[j] # NoJob /\ q.kind = "save" /\ q.pc = "count" /\ q.wants = {}
  BY <1>0 DEF CountImages, At, Waits
<1>2. q \in Job /\ JobShape(q)
  BY <1>0, <1>1, Fields
<1> DEFINE n == Cardinality(Live(q.user))
           pc == IF q.asMain THEN "clear" ELSE "insert"
           b == [q EXCEPT !.count = n, !.pc = pc]
<1>3. n \in 0 .. Cardinality(Images) /\ n < Limit
  BY <1>0, Finite DEF CountImages
<1>4. job' = [job EXCEPT ![j] = b] /\ UNCHANGED <<imageRows, histories>>
  BY <1>0, <1>1 DEF CountImages
<1> HIDE DEF n
<1>5. /\ b \in Job /\ b.user = q.user /\ b.kind = q.kind /\ b.asMain = q.asMain
      /\ b.image = q.image /\ b.next = q.next /\ b.holds = q.holds /\ b.wants = q.wants
      /\ b.count = n /\ b.pc = pc
  BY <1>2, <1>3 DEF Job
<1> HIDE DEF b
<1>6. JobShape(b)
  BY <1>1, <1>2, <1>3, <1>5 DEF JobShape, SaveShape, Job
<1>7. Cardinality(Live(b.user)) <= b.count
  BY <1>3, <1>5 DEF n
<1>8. b.user \in calm \cap careful => MainShape(b.user, b)
  BY <1>1, <1>5 DEF MainShape
<1>9. Onward(j, b)
  BY <1>0, <1>4, <1>5 DEF Onward
<1>10. ChoosesMain(b.kind, b.asMain) => Chooses(j)
  BY <1>0, <1>5 DEF Chooses
<1>. QED  BY <1>0, <1>1, <1>4, <1>5, <1>6, <1>7, <1>8, <1>9, <1>10, JobMoves

LEMMA UnblockInv ==
  ASSUME ImageInv, NEW j \in Jobs, Unblock(j)
  PROVE  ImageInv' /\ \E b : Onward(j, b)
<1>0. PICK q : q = job[j]
  OBVIOUS
<1>1. job[j] # NoJob
  BY DEF Unblock
<1>2. q \in Job /\ JobShape(q) /\ (q.user \in calm \cap careful => MainShape(q.user, q))
      /\ (q.user \in apart /\ q.kind = "save" /\ q.pc \in {"clear", "insert"}
            => Cardinality(Live(q.user)) <= q.count)
  BY <1>0, <1>1, Fields DEF Saving
<1> DEFINE b == [q EXCEPT !.holds = q.holds \cup q.wants, !.wants = {}]
<1>3. job' = [job EXCEPT ![j] = b] /\ UNCHANGED <<imageRows, histories>>
  BY <1>0, <1>1 DEF Unblock
<1>4. /\ b \in Job /\ b.user = q.user /\ b.kind = q.kind /\ b.asMain = q.asMain
      /\ b.image = q.image /\ b.next = q.next /\ b.holds = q.holds \cup q.wants
      /\ b.wants = {} /\ b.count = q.count /\ b.pc = q.pc
  BY <1>2 DEF Job
<1> HIDE DEF b
<1>5. JobShape(b)
  BY <1>2, <1>4 DEF JobShape, SaveShape, SetMainShape, DeleteShape
<1>6. b.user \in calm \cap careful => MainShape(b.user, b)
  BY <1>2, <1>4 DEF MainShape
<1>7. Onward(j, b)
  BY <1>0, <1>3, <1>4 DEF Onward
<1>8. ChoosesMain(b.kind, b.asMain) => Chooses(j)
  BY <1>0, <1>4 DEF Chooses
<1>. QED  BY <1>0, <1>1, <1>2, <1>3, <1>4, <1>5, <1>6, <1>7, <1>8, JobMoves

LEMMA FindImageInv ==
  ASSUME ImageInv, NEW j \in Jobs, FindImage(j)
  PROVE  ImageInv' /\ \E b : Onward(j, b)
<1>0. PICK q : q = job[j]
  OBVIOUS
<1>1. /\ job[j] # NoJob /\ q.kind \in {"delete", "setMain"} /\ q.pc = "find"
      /\ q.wants = {}
  BY <1>0 DEF FindImage, At, Waits
<1>2. q \in Job /\ JobShape(q) /\ (q.user \in calm \cap careful => MainShape(q.user, q))
  BY <1>0, <1>1, Fields
<1> DEFINE was == q.kind = "delete" /\ isMain[q.image]
           pc == IF q.kind = "delete" THEN "mark" ELSE "clear"
           b == [q EXCEPT !.asMain = was, !.pc = pc]
<1>3. job' = [job EXCEPT ![j] = b] /\ UNCHANGED <<imageRows, histories>>
  BY <1>0, <1>1 DEF FindImage
<1>4. q.image \in Images /\ was \in BOOLEAN
  BY <1>1, <1>2 DEF JobShape, SetMainShape, DeleteShape, Rows, ImageInv, ImageShape, ImagesTypeOK
<1>4a. q.kind = "delete" => was = isMain[q.image]
  BY <1>4 DEF ImageInv, ImageShape, ImagesTypeOK
<1> HIDE DEF was
<1>5. /\ b \in Job /\ b.user = q.user /\ b.kind = q.kind /\ b.asMain = was
      /\ b.image = q.image /\ b.next = q.next /\ b.holds = q.holds
      /\ b.wants = q.wants /\ b.count = q.count /\ b.pc = pc
  BY <1>2, <1>4 DEF Job
<1> HIDE DEF b
<1>6. JobShape(b)
  BY <1>1, <1>2, <1>5 DEF JobShape, SaveShape, SetMainShape, DeleteShape
<1>7. b.user \in calm \cap careful => MainShape(b.user, b)
  BY <1>1, <1>2, <1>4a, <1>5 DEF MainShape, JobShape, DeleteShape
<1>8. Onward(j, b)
  BY <1>0, <1>1, <1>3, <1>5 DEF Onward
<1>9. Chooses(j)
  BY <1>0, <1>1 DEF Chooses, ChoosesMain
<1>10. b.kind # "save"
  BY <1>1, <1>5
<1>. QED  BY <1>0, <1>1, <1>3, <1>5, <1>6, <1>7, <1>8, <1>9, <1>10, JobMoves

\* An UPDATE locks its rows, or waits for them.
Updates(j, rows, pc, n, b) ==
    /\ b \in Job /\ job' = [job EXCEPT ![j] = b]
    /\ b.user = job[j].user /\ b.kind = job[j].kind /\ b.image = job[j].image
    /\ b.asMain = job[j].asMain /\ b.count = job[j].count
    /\ b.pc = pc /\ b.next = n /\ b.holds \cup b.wants = job[j].holds \cup rows

LEMMA Updated ==
  ASSUME ImageInv, NEW j \in Jobs, job[j] # NoJob, ~Waits(j), NEW rows \in SUBSET Images,
         NEW pc \in {"insert", "commit", "next"}, NEW n \in Images \cup {Null},
         Update(j, rows, pc, n)
  PROVE  \E b : Updates(j, rows, pc, n, b)
<1>0. PICK q : q = job[j]
  OBVIOUS
<1>1. q \in Job /\ q.wants = {}
  BY <1>0, Fields DEF Waits
<1>2. CASE Unlocked(j, rows)
  <2> DEFINE a == [q EXCEPT !.pc = pc, !.next = n]
             b == [a EXCEPT !.holds = a.holds \cup rows]
  <2>1. job' = [job EXCEPT ![j] = b]
    BY <1>0, <1>2 DEF Update
  <2>2. /\ b \in Job /\ b.user = q.user /\ b.kind = q.kind /\ b.image = q.image
        /\ b.asMain = q.asMain /\ b.count = q.count
        /\ b.pc = pc /\ b.next = n /\ b.holds \cup b.wants = q.holds \cup rows
    BY <1>1 DEF Job
  <2>. QED  BY <1>0, <2>1, <2>2 DEF Updates
<1>3. CASE ~Unlocked(j, rows)
  <2> DEFINE a == [q EXCEPT !.pc = pc, !.next = n]
             b == [a EXCEPT !.wants = rows]
  <2>1. job' = [job EXCEPT ![j] = b]
    BY <1>0, <1>3 DEF Update
  <2>2. /\ b \in Job /\ b.user = q.user /\ b.kind = q.kind /\ b.image = q.image
        /\ b.asMain = q.asMain /\ b.count = q.count
        /\ b.pc = pc /\ b.next = n /\ b.holds \cup b.wants = q.holds \cup rows
    BY <1>1 DEF Job
  <2>. QED  BY <1>0, <2>1, <2>2 DEF Updates
<1>. QED  BY <1>2, <1>3

LEMMA ClearMainInv ==
  ASSUME ImageInv, NEW j \in Jobs, ClearMain(j)
  PROVE  ImageInv' /\ \E b : Onward(j, b)
<1>0. PICK q : q = job[j]
  OBVIOUS
<1>1. /\ job[j] # NoJob /\ q.kind \in {"save", "setMain"} /\ q.pc = "clear" /\ ~Waits(j)
      /\ UNCHANGED <<imageRows, histories>>
  BY <1>0 DEF ClearMain, At
<1>2. /\ q \in Job /\ JobShape(q)
      /\ q.user \in calm \cap careful => MainShape(q.user, q)
      /\ q.user \in apart /\ q.kind = "save" => Cardinality(Live(q.user)) <= q.count
  BY <1>0, <1>1, Fields DEF Saving
<1> DEFINE pc == IF q.kind = "save" THEN "insert" ELSE "commit"
<1>3. Rows(q.user) \in SUBSET Images /\ pc \in {"insert", "commit", "next"}
      /\ Null \in Images \cup {Null} /\ Update(j, Rows(q.user), pc, Null)
  BY <1>0 DEF ClearMain, Rows
<1>4. PICK b : /\ b \in Job /\ job' = [job EXCEPT ![j] = b]
               /\ b.user = q.user /\ b.kind = q.kind /\ b.image = q.image
               /\ b.asMain = q.asMain /\ b.count = q.count
               /\ b.pc = pc /\ b.next = Null /\ b.holds \cup b.wants = q.holds \cup Rows(q.user)
  <2>1. \E b : Updates(j, Rows(q.user), pc, Null, b)
    BY <1>1, <1>3, Updated
  <2>. QED  BY <1>0, <2>1 DEF Updates
<1>5. JobShape(b)
  BY <1>1, <1>2, <1>4 DEF JobShape, SaveShape, SetMainShape
<1>6. Main(q.user) \subseteq Rows(q.user)
  BY DEF Main, Live
<1>7. b.user \in calm \cap careful => MainShape(b.user, b)
  BY <1>1, <1>2, <1>4, <1>6 DEF MainShape
<1>8. Onward(j, b)
  BY <1>0, <1>4 DEF Onward
<1>9. ChoosesMain(b.kind, b.asMain) => Chooses(j)
  BY <1>0, <1>4 DEF Chooses
<1>. QED  BY <1>0, <1>1, <1>2, <1>4, <1>5, <1>7, <1>8, <1>9, JobMoves

LEMMA MarkDeletedInv ==
  ASSUME ImageInv, NEW j \in Jobs, MarkDeleted(j)
  PROVE  ImageInv' /\ \E b : Onward(j, b)
<1>0. PICK q : q = job[j]
  OBVIOUS
<1>1. /\ job[j] # NoJob /\ q.kind = "delete" /\ q.pc = "mark" /\ ~Waits(j)
      /\ UNCHANGED <<imageRows, histories>>
  BY <1>0 DEF MarkDeleted, At
<1>2. q \in Job /\ JobShape(q) /\ (q.user \in calm \cap careful => MainShape(q.user, q))
  BY <1>0, <1>1, Fields
<1>3. q.image \in Rows(q.user) /\ Rows(q.user) \subseteq Images
  BY <1>1, <1>2 DEF JobShape, DeleteShape, Rows
<1> DEFINE pc == IF q.asMain THEN "next" ELSE "commit"
<1>4. {q.image} \in SUBSET Images /\ pc \in {"insert", "commit", "next"}
      /\ Null \in Images \cup {Null} /\ Update(j, {q.image}, pc, Null)
  BY <1>0, <1>3 DEF MarkDeleted
<1>5. PICK b : /\ b \in Job /\ job' = [job EXCEPT ![j] = b]
               /\ b.user = q.user /\ b.kind = q.kind /\ b.image = q.image
               /\ b.asMain = q.asMain /\ b.count = q.count
               /\ b.pc = pc /\ b.next = Null /\ b.holds \cup b.wants = q.holds \cup {q.image}
  <2>1. \E b : Updates(j, {q.image}, pc, Null, b)
    BY <1>1, <1>4, Updated
  <2>. QED  BY <1>0, <2>1 DEF Updates
<1>6. JobShape(b)
  BY <1>1, <1>2, <1>3, <1>5 DEF JobShape, DeleteShape
<1>7. b.user \in calm \cap careful => MainShape(b.user, b)
  BY <1>1, <1>2, <1>5 DEF MainShape
<1>8. Onward(j, b)
  BY <1>0, <1>1, <1>5 DEF Onward
<1>9. Chooses(j) /\ b.kind # "save"
  BY <1>0, <1>1, <1>5 DEF Chooses, ChoosesMain
<1>. QED  BY <1>0, <1>1, <1>5, <1>6, <1>7, <1>8, <1>9, JobMoves

LEMMA FindNextMainInv ==
  ASSUME ImageInv, NEW j \in Jobs, FindNextMain(j)
  PROVE  ImageInv' /\ \E b : Onward(j, b)
<1>0. PICK q : q = job[j]
  OBVIOUS
<1>1. /\ job[j] # NoJob /\ q.kind = "delete" /\ q.pc = "next" /\ ~Waits(j)
      /\ UNCHANGED <<imageRows, histories>>
  BY <1>0 DEF FindNextMain, At
<1>2. q \in Job /\ JobShape(q) /\ (q.user \in calm \cap careful => MainShape(q.user, q))
  BY <1>0, <1>1, Fields
<1> DEFINE rest == Live(q.user) \ {q.image}
<1>3. rest \subseteq Rows(q.user) /\ rest \subseteq Images /\ Null \notin Images
  BY ImagesAssumption DEF Rows, Live
<1>4. ASSUME NEW b, b \in Job, job' = [job EXCEPT ![j] = b],
             b.user = q.user, b.kind = q.kind, b.image = q.image, b.asMain = q.asMain,
             b.pc = "commit", b.holds \cup b.wants \subseteq Rows(q.user),
             \/ rest = {} /\ b.next = Null
             \/ b.next \in rest
      PROVE  ImageInv' /\ \E c : Onward(j, c)
  <2>1. JobShape(b)
    BY <1>1, <1>2, <1>3, <1>4 DEF JobShape, DeleteShape
  <2>2. b.user \in calm \cap careful => MainShape(b.user, b)
    BY <1>1, <1>2, <1>3, <1>4 DEF MainShape
  <2>3. Onward(j, b)
    BY <1>0, <1>1, <1>4 DEF Onward
  <2>4. Chooses(j) /\ b.kind # "save"
    BY <1>0, <1>1, <1>4 DEF Chooses, ChoosesMain
  <2>. QED  BY <1>0, <1>1, <1>4, <2>1, <2>2, <2>3, <2>4, JobMoves
<1>5. CASE rest = {}
  <2> DEFINE b == [q EXCEPT !.pc = "commit"]
  <2>1. job' = [job EXCEPT ![j] = b]
    BY <1>0, <1>5 DEF FindNextMain, Goto
  <2>2. /\ b \in Job /\ b.user = q.user /\ b.kind = q.kind /\ b.image = q.image
        /\ b.asMain = q.asMain /\ b.pc = "commit" /\ b.next = q.next
        /\ b.holds = q.holds /\ b.wants = q.wants
    BY <1>2 DEF Job
  <2>3. q.next = Null /\ q.holds \cup q.wants \subseteq Rows(q.user)
    BY <1>1, <1>2 DEF JobShape, DeleteShape
  <2> HIDE DEF b
  <2>. QED  BY <1>4, <1>5, <2>1, <2>2, <2>3
<1>6. CASE rest # {}
  <2>1. PICK n \in rest : Update(j, {n}, "commit", n)
    BY <1>0, <1>6 DEF FindNextMain
  <2>2. {n} \in SUBSET Images /\ n \in Images \cup {Null} /\ "commit" \in {"insert", "commit", "next"}
    BY <1>3, <2>1
  <2>3. PICK b : /\ b \in Job /\ job' = [job EXCEPT ![j] = b]
                 /\ b.user = q.user /\ b.kind = q.kind /\ b.image = q.image
                 /\ b.asMain = q.asMain /\ b.count = q.count
                 /\ b.pc = "commit" /\ b.next = n /\ b.holds \cup b.wants = q.holds \cup {n}
    <3>1. \E b : Updates(j, {n}, "commit", n, b)
      BY <1>1, <2>1, <2>2, Updated
    <3>. QED  BY <1>0, <3>1 DEF Updates
  <2>4. b.holds \cup b.wants \subseteq Rows(q.user)
    BY <1>2, <1>3, <2>1, <2>3 DEF JobShape
  <2>. QED  BY <1>4, <2>1, <2>3, <2>4
<1>. QED  BY <1>5, <1>6

LEMMA MovesInv ==
  ASSUME ImageInv, NEW j \in Jobs, Moves(j)
  PROVE  /\ ImageInv' /\ \E b : Onward(j, b)
         /\ job[j] # NoJob /\ UNCHANGED <<imageRows, histories>>
<1>1. ImageInv' /\ \E b : Onward(j, b)
  BY CountImagesInv, ClearMainInv, FindImageInv, MarkDeletedInv, FindNextMainInv, UnblockInv
     DEF Moves
<1>. QED  BY <1>1 DEF Moves, CountImages, ClearMain, FindImage, MarkDeleted, FindNextMain,
                     Unblock, At

-----------------------------------------------------------------------------
(* The statements that write rows, and commit. *)

\* What every one of them does: its job is done, no row goes.
Commits(j) ==
    /\ job[j] # NoJob /\ ~Waits(j) /\ job' = [job EXCEPT ![j] = NoJob]
    /\ \A i \in Images : profile[i] # Null => profile'[i] = profile[i]
    /\ UNCHANGED histories

LEMMA CommitsInv ==
  ASSUME ImageInv, NEW j \in Jobs, Commits(j), ImagesTypeOK',
         \A i \in Images : profile'[i] = Null => ~deleted'[i]
  PROVE  /\ \A u : Busy(u)' = Busy(u) \ {j}
         /\ \A u : \A k \in Busy(u)' :
               k \in Busy(u) /\ k # j /\ k \in Jobs /\ job'[k] = job[k]
         /\ ImageShape' /\ AloneInCalm'
<1>1. /\ job'[j] = NoJob /\ \A k \in Jobs \ {j} : job'[k] = job[k]
  BY DEF ImageInv, ImageShape, ImagesTypeOK, Commits
<1>2. \A u : Busy(u)' = Busy(u) \ {j}
  BY <1>1 DEF Busy
<1>3. \A u : \A k \in Busy(u)' :
         k \in Busy(u) /\ k # j /\ k \in Jobs /\ job'[k] = job[k]
  BY <1>1, <1>2 DEF Busy
<1>4. ASSUME NEW k \in Jobs, job'[k] # NoJob
      PROVE  JobShape(job[k])'
  <2>1. job'[k] = job[k] /\ JobShape(job[k]) /\ job[k].user # Null
    BY <1>1, <1>4, JobTyped DEF ImageInv, ImageShape
  <2>. QED  BY <2>1, ShapeKept DEF Commits
<1>5. ImageShape'
  BY <1>4 DEF ImageShape
<1>6. AloneInCalm'
  BY <1>3 DEF ImageInv, AloneInCalm, Chooses, histories, Commits
<1>. QED  BY <1>2, <1>3, <1>5, <1>6

LEMMA InsertInv ==
  ASSUME ImageInv, NEW j \in Jobs, NEW i \in Images, NEW u, u = job[j].user,
         InsertImage(j, i)
  PROVE  /\ ImageInv' /\ Saving(j) /\ j \in Busy(u)
         /\ Busy(u)' = Busy(u) \ {j}
         /\ Rows(u)' = Rows(u) \cup {i} /\ i \notin Rows(u) /\ ~deleted[i]
         /\ IF job[j].asMain THEN u \in calm \cap careful => Main(u)' = {i}
                             ELSE Main(u)' = Main(u)
         /\ \A v \in Users \ {u} : /\ Rows(v)' = Rows(v) /\ Main(v)' = Main(v)
                                   /\ Busy(v)' = Busy(v)
<1>0. PICK q : q = job[j]
  OBVIOUS
<1>1. u = q.user
  BY <1>0
<1>2. /\ job[j] # NoJob /\ q.kind = "save" /\ q.pc = "insert" /\ q.wants = {} /\ profile[i] = Null
      /\ ~Waits(j) /\ UNCHANGED <<deleted, histories>>
  BY <1>0 DEF InsertImage, At, Waits
<1>3. /\ q \in Job /\ JobShape(q) /\ u \in Users /\ u # Null /\ j \in Busy(u)
      /\ (u \in calm \cap careful => MainShape(u, q))
      /\ (u \in apart => Cardinality(Live(u)) <= q.count)
  <2>1. q \in Job /\ JobShape(q) /\ u \in Users /\ u # Null /\ j \in Busy(u)
    BY <1>0, <1>1, <1>2, Fields, UsersAssumption
  <2>2. u \in calm \cap careful => MainShape(u, q)
    BY <1>0, <1>1, <1>2, Fields
  <2>3. u \in apart => Cardinality(Live(u)) <= q.count
    BY <1>0, <1>1, <1>2, Fields DEF Saving
  <2>. QED  BY <2>1, <2>2, <2>3
<1>4. /\ q.asMain \in BOOLEAN /\ q.count \in Nat /\ q.count < Limit
      /\ q.holds \subseteq Rows(u)
      /\ (~q.asMain => q.holds = {})
  BY <1>1, <1>2, <1>3, LimitAssumption DEF Job, JobShape, SaveShape
<1>5. /\ profile' = [profile EXCEPT ![i] = u]
      /\ imageOrder' = [imageOrder EXCEPT ![i] = q.count + 1]
      /\ isMain' = [k \in Images |-> IF k = i THEN q.asMain
                                     ELSE isMain[k] /\ k \notin q.holds]
      /\ job' = [job EXCEPT ![j] = NoJob]
  BY <1>0, <1>1 DEF InsertImage
<1>6. /\ profile \in [Images -> Users \cup {Null}] /\ isMain \in [Images -> BOOLEAN]
      /\ ~deleted[i] /\ deleted' = deleted
  BY <1>2 DEF ImageInv, ImageShape, ImagesTypeOK
<1>7. Commits(j)
  BY <1>2, <1>5, <1>6 DEF Commits
<1>8. ImagesTypeOK'
  <2>1. job' \in [Jobs -> Job \cup {NoJob}]
    BY <1>5 DEF ImageInv, ImageShape, ImagesTypeOK
  <2>2. imageOrder' \in [Images -> 0 .. Limit]
    BY <1>4, <1>5, LimitAssumption DEF ImageInv, ImageShape, ImagesTypeOK
  <2>3. isMain' \in [Images -> BOOLEAN]
    BY <1>4, <1>5, <1>6
  <2>4. profile' \in [Images -> Users \cup {Null}]
    BY <1>3, <1>5, <1>6
  <2>. QED  BY <1>2, <2>1, <2>2, <2>3, <2>4 DEF ImageInv, ImageShape, ImagesTypeOK, histories
<1>9. \A k \in Images : profile'[k] = Null => ~deleted'[k]
  BY <1>3, <1>5, <1>6 DEF ImageInv, ImageShape
<1>10. /\ \A v : Busy(v)' = Busy(v) \ {j}
       /\ \A v : \A k \in Busy(v)' :
             k \in Busy(v) /\ k # j /\ k \in Jobs /\ job'[k] = job[k]
       /\ ImageShape' /\ AloneInCalm'
  BY <1>7, <1>8, <1>9, CommitsInv
<1>11. /\ Rows(u)' = Rows(u) \cup {i} /\ i \notin Rows(u)
       /\ Live(u)' = Live(u) \cup {i} /\ i \notin Live(u)
  BY <1>2, <1>3, <1>5, <1>6 DEF Rows, Live
<1>12. \A k \in Images \ {i} : k \notin q.holds => isMain'[k] = isMain[k]
  BY <1>5, <1>6
<1>13. ASSUME NEW v \in Users, v # u
       PROVE  /\ Rows(v)' = Rows(v) /\ Live(v)' = Live(v) /\ Main(v)' = Main(v)
              /\ Busy(v)' = Busy(v)
  <2>1. Rows(v)' = Rows(v) /\ i \notin Rows(v) /\ v # Null
    BY <1>2, <1>5, <1>6, <1>13, UsersAssumption DEF Rows
  <2>2. Live(v)' = Live(v) /\ Live(v) \subseteq Rows(v)
    BY <1>6, <2>1 DEF Live
  <2>3. \A k \in Rows(v) : isMain'[k] = isMain[k]
    BY <1>4, <1>12, <1>13, <2>1 DEF Rows
  <2>4. j \notin Busy(v)
    BY <1>0, <1>1, <1>13 DEF Busy
  <2>. QED  BY <1>10, <2>1, <2>2, <2>3, <2>4 DEF Main
<1>14. IF q.asMain THEN u \in calm \cap careful => Main(u)' = {i}
                   ELSE Main(u)' = Main(u)
  <2>1. CASE q.asMain
    <3>1. isMain'[i] = TRUE
      BY <1>5, <2>1
    <3>2. ASSUME u \in calm \cap careful, NEW k \in Live(u)
          PROVE  ~isMain'[k]
      <4>1. Main(u) \subseteq q.holds
        BY <1>2, <1>3, <2>1, <3>2 DEF MainShape
      <4>2. k \in Images \ {i}
        BY <1>11 DEF Live, Rows
      <4>3. isMain'[k] = (isMain[k] /\ k \notin q.holds)
        BY <1>5, <4>2
      <4>. QED  BY <4>1, <4>3, <3>2 DEF Main
    <3>. QED  BY <1>11, <2>1, <3>1, <3>2 DEF Main
  <2>2. CASE ~q.asMain
    <3>1. isMain'[i] = FALSE
      BY <1>4, <1>5, <2>2
    <3>2. \A k \in Live(u) : isMain'[k] = isMain[k]
      BY <1>4, <1>11, <1>12, <2>2 DEF Live, Rows
    <3>. QED  BY <1>11, <2>2, <3>1, <3>2 DEF Main
  <2>. QED  BY <2>1, <2>2
<1>15. SavedApart'
  <2>. SUFFICES ASSUME NEW v \in apart
                PROVE  /\ Cardinality(Live(v))' <= Limit
                       /\ \A h, k \in Busy(v)' : Saving(h)' /\ Saving(k)' => h = k
                       /\ \A k \in Busy(v)' : Saving(k)' /\ job'[k].pc \in {"clear", "insert"}
                            => Cardinality(Live(v))' <= job'[k].count
    BY <1>2 DEF SavedApart, histories
  <2>1. v \in Users
    BY DEF ImageInv, ImageShape, ImagesTypeOK
  <2>2. \A k \in Busy(v)' : k \in Busy(v) /\ k # j /\ job'[k] = job[k]
    BY <1>10
  <2>3. CASE v # u
    BY <1>13, <2>1, <2>2, <2>3 DEF ImageInv, SavedApart, Saving
  <2>4. CASE v = u
    <3>1. \A k \in Busy(v)' : ~Saving(k)'
      BY <1>0, <1>2, <1>3, <2>2, <2>4 DEF ImageInv, SavedApart, Saving
    <3>2. Cardinality(Live(u))' = Cardinality(Live(u)) + 1
      BY <1>11, Finite, FS_AddElement
    <3>3. Cardinality(Live(u)) \in Nat
      BY Finite, FS_CardinalityType
    <3>. QED  BY <1>3, <1>4, <2>4, <3>1, <3>2, <3>3, LimitAssumption
  <2>. QED  BY <2>3, <2>4
<1>16. MainInOrder'
  <2>. SUFFICES ASSUME NEW v \in calm \cap careful
                PROVE  /\ \A a, c \in Main(v)' : a = c
                       /\ \A k \in Busy(v)' : MainShape(v, job[k])'
    BY <1>2 DEF MainInOrder, histories
  <2>1. v \in Users
    BY DEF ImageInv, ImageShape, ImagesTypeOK
  <2>2. \A a, c \in Main(v)' : a = c
    BY <1>13, <1>14, <2>1 DEF ImageInv, MainInOrder
  <2>3. ASSUME NEW k \in Busy(v)'
        PROVE  MainShape(v, job[k])'
    <3>1. k \in Busy(v) /\ k # j /\ k \in Jobs /\ job'[k] = job[k] /\ MainShape(v, job[k])
      BY <1>10, <2>3 DEF ImageInv, MainInOrder
    <3>2. job[k] \in Job /\ JobShape(job[k]) /\ job[k].user = v
      BY <3>1, JobTyped DEF ImageInv, ImageShape, Busy
    <3>3. CASE v # u
      <4>1. Live(v)' = Live(v) /\ Main(v)' = Main(v)
        BY <1>13, <2>1, <3>3
      <4>2. job[k].kind = "delete" => isMain'[job[k].image] = isMain[job[k].image]
        <5>1. job[k].kind = "delete" => job[k].image \in Rows(v)
          BY <3>2 DEF JobShape, DeleteShape
        <5>2. Rows(v) \cap Rows(u) = {} /\ i \notin Rows(v)
          BY <1>2, <2>1, <3>3, UsersAssumption DEF Rows
        <5>. QED  BY <1>4, <1>12, <5>1, <5>2 DEF Rows
      <4>. QED  BY <1>6, <3>1, <4>1, <4>2 DEF MainShape
    <3>4. CASE v = u
      <4>1. job[k].kind # "delete" /\ job[j].kind # "delete" /\ ~(Chooses(k) /\ Chooses(j))
        BY <1>0, <1>2, <1>3, <3>1, <3>4 DEF ImageInv, AloneInCalm
      <4>2. CASE q.asMain
        <5>1. job[k].kind = "save" /\ ~job[k].asMain
          BY <1>0, <3>2, <4>1, <4>2 DEF Chooses, ChoosesMain
        <5>. QED  BY <3>1, <5>1 DEF MainShape
      <4>3. CASE ~q.asMain
        <5>1. Main(v)' = Main(v)
          BY <1>14, <3>4, <4>3
        <5>. QED  BY <1>6, <3>1, <4>1, <5>1 DEF MainShape
      <4>. QED  BY <4>2, <4>3
    <3>. QED  BY <3>3, <3>4
  <2>. QED  BY <2>2, <2>3
<1>17. ImageInv'
  BY <1>10, <1>15, <1>16 DEF ImageInv
<1>18. Saving(j) /\ j \in Busy(u) /\ Busy(u)' = Busy(u) \ {j}
  BY <1>0, <1>2, <1>3, <1>10 DEF Saving
<1>. QED  BY <1>0, <1>1, <1>6, <1>11, <1>13, <1>14, <1>17, <1>18

LEMMA CommitDeleteInv ==
  ASSUME ImageInv, NEW j \in Jobs, NEW u, u = job[j].user, CommitDelete(j)
  PROVE  /\ ImageInv' /\ ~Saving(j) /\ j \in Busy(u)
         /\ \A v : Rows(v)' = Rows(v)
         /\ \A v \in Users \ {u} : /\ Busy(v)' = Busy(v) /\ Main(v)' = Main(v)
                                   /\ \A k \in Rows(v) : deleted'[k] = deleted[k]
         /\ u \in calm \cap careful /\ Main(u) # {} => Main(u)' # {} \/ Live(u)' = {}
<1>0. PICK q : q = job[j]
  OBVIOUS
<1>1. u = q.user
  BY <1>0
<1>2. /\ job[j] # NoJob /\ q.kind = "delete" /\ q.pc = "commit"
      /\ ~Waits(j) /\ UNCHANGED <<profile, imageOrder, histories>>
  BY <1>0 DEF CommitDelete, At
<1>3. /\ q \in Job /\ JobShape(q) /\ u \in Users /\ u # Null /\ j \in Busy(u)
      /\ (u \in calm \cap careful => MainShape(u, q))
  BY <1>0, <1>1, <1>2, Fields, UsersAssumption
<1>4. /\ q.image \in Rows(u) /\ (q.next # Null => q.next \in Rows(u)) /\ Rows(u) \subseteq Images
  BY <1>1, <1>2, <1>3 DEF JobShape, DeleteShape, Rows
<1>5. /\ deleted' = [deleted EXCEPT ![q.image] = TRUE]
      /\ isMain' = [i \in Images |-> isMain[i] \/ (i = q.next /\ ~deleted[i])]
      /\ job' = [job EXCEPT ![j] = NoJob]
  BY <1>0 DEF CommitDelete
<1>6. /\ profile' = profile /\ isMain \in [Images -> BOOLEAN]
      /\ deleted \in [Images -> BOOLEAN] /\ Null \notin Images
  BY <1>2, ImagesAssumption DEF ImageInv, ImageShape, ImagesTypeOK
<1>7. Commits(j)
  BY <1>2, <1>5, <1>6 DEF Commits
<1>8. ImagesTypeOK'
  <2>1. job' \in [Jobs -> Job \cup {NoJob}]
    BY <1>5 DEF ImageInv, ImageShape, ImagesTypeOK
  <2>2. isMain' \in [Images -> BOOLEAN] /\ deleted' \in [Images -> BOOLEAN]
    BY <1>5, <1>6
  <2>. QED  BY <1>2, <2>1, <2>2 DEF ImageInv, ImageShape, ImagesTypeOK, histories
<1>9. \A k \in Images : profile'[k] = Null => ~deleted'[k]
  BY <1>3, <1>4, <1>5, <1>6 DEF ImageInv, ImageShape, Rows
<1>10. /\ \A v : Busy(v)' = Busy(v) \ {j}
       /\ \A v : \A k \in Busy(v)' :
             k \in Busy(v) /\ k # j /\ k \in Jobs /\ job'[k] = job[k]
       /\ ImageShape' /\ AloneInCalm'
  BY <1>7, <1>8, <1>9, CommitsInv
<1>11. \A v : Rows(v)' = Rows(v)
  BY <1>6 DEF Rows
<1>12. Live(u)' = Live(u) \ {q.image}
  BY <1>4, <1>5, <1>6, <1>11 DEF Live
<1>13. ASSUME NEW v \in Users, v # u
       PROVE  /\ Live(v)' = Live(v) /\ Main(v)' = Main(v) /\ Busy(v)' = Busy(v)
              /\ \A k \in Rows(v) : deleted'[k] = deleted[k] /\ isMain'[k] = isMain[k]
  <2>1. \A k \in Rows(v) : k \in Images /\ k # q.image /\ k # q.next
    BY <1>4, <1>6, <1>13 DEF Rows
  <2>2. \A k \in Rows(v) : deleted'[k] = deleted[k] /\ isMain'[k] = isMain[k]
    BY <1>5, <1>6, <2>1
  <2>3. Live(v)' = Live(v) /\ Live(v) \subseteq Rows(v)
    BY <1>11, <2>2 DEF Live
  <2>4. j \notin Busy(v)
    BY <1>0, <1>1, <1>13 DEF Busy
  <2>. QED  BY <1>10, <2>2, <2>3, <2>4 DEF Main
<1>14. \A v : IsFiniteSet(Live(v)) /\ Cardinality(Live(v)) \in Nat
  BY Finite, FS_CardinalityType
<1>15. SavedApart'
  <2>. SUFFICES ASSUME NEW v \in apart
                PROVE  /\ Cardinality(Live(v))' <= Limit
                       /\ \A h, k \in Busy(v)' : Saving(h)' /\ Saving(k)' => h = k
                       /\ \A k \in Busy(v)' : Saving(k)' /\ job'[k].pc \in {"clear", "insert"}
                            => Cardinality(Live(v))' <= job'[k].count
    BY <1>2 DEF SavedApart, histories
  <2>1. v \in Users
    BY DEF ImageInv, ImageShape, ImagesTypeOK
  <2>2. \A k \in Busy(v)' : k \in Busy(v) /\ k \in Jobs /\ job'[k] = job[k]
    BY <1>10
  <2>3. Live(v)' \subseteq Live(v)
    BY <1>12, <1>13, <2>1
  <2>4. Cardinality(Live(v)') <= Cardinality(Live(v)) /\ Cardinality(Live(v)') \in Nat
    BY <1>14, <2>3, FS_Subset, FS_CardinalityType
  <2>5. \A k \in Busy(v)' : Saving(k)' /\ job'[k].pc \in {"clear", "insert"} =>
          job'[k].count \in Nat /\ Cardinality(Live(v)) <= job'[k].count
    <3>1. ASSUME NEW k \in Busy(v)'
          PROVE  job'[k].count \in 0 .. Cardinality(Images)
      BY <2>2, <3>1, JobTyped DEF ImageInv, ImageShape, Job, Busy
    <3>2. Cardinality(Images) \in Nat
      BY ImagesAssumption, FS_CardinalityType
    <3>. QED  BY <2>2, <3>1, <3>2 DEF ImageInv, SavedApart, Saving
  <2>6. \A h, k \in Busy(v)' : Saving(h)' /\ Saving(k)' => h = k
    BY <2>2 DEF ImageInv, SavedApart, Saving
  <2>. QED  BY <1>14, <2>4, <2>5, <2>6, LimitAssumption DEF ImageInv, SavedApart
<1>16. u \in calm \cap careful =>
         /\ Busy(u)' = {}
         /\ \A a, c \in Main(u)' : a = c
         /\ Main(u) # {} => Main(u)' # {} \/ Live(u)' = {}
  <2>. SUFFICES ASSUME u \in calm \cap careful
                PROVE  /\ Busy(u)' = {}
                       /\ \A a, c \in Main(u)' : a = c
                       /\ Main(u) # {} => Main(u)' # {} \/ Live(u)' = {}
    OBVIOUS
  <2>1. Busy(u)' = {}
    BY <1>0, <1>2, <1>3, <1>10 DEF ImageInv, AloneInCalm
  <2>2. /\ q.asMain = isMain[q.image] /\ ~deleted[q.image]
        /\ (~q.asMain => q.next = Null)
        /\ (q.asMain => IF q.next = Null THEN Live(u) \subseteq {q.image}
                                         ELSE q.next \in Live(u) \ {q.image})
    BY <1>2, <1>3 DEF MainShape
  <2>3. \A a, c \in Main(u) : a = c
    BY DEF ImageInv, MainInOrder
  <2>4. CASE q.asMain
    <3>1. q.image \in Main(u)
      BY <1>4, <2>2, <2>4 DEF Main, Live
    <3>2. \A k \in Live(u) \ {q.image} : isMain'[k] <=> k = q.next
      <4>1. ASSUME NEW k \in Live(u) \ {q.image}
            PROVE  isMain'[k] <=> k = q.next
        <5>1. k \in Images /\ ~deleted[k] /\ ~isMain[k]
          BY <2>3, <3>1, <4>1 DEF Main, Live, Rows
        <5>. QED  BY <1>5, <5>1
      <4>. QED  BY <4>1
    <3>3. Main(u)' = {k \in Live(u) \ {q.image} : k = q.next}
      BY <1>12, <3>2 DEF Main
    <3>. QED  BY <1>12, <2>1, <2>2, <2>4, <3>3
  <2>5. CASE ~q.asMain
    <3>1. \A k \in Live(u) : isMain'[k] <=> isMain[k]
      <4>1. ASSUME NEW k \in Live(u)
            PROVE  isMain'[k] <=> isMain[k]
        <5>1. k \in Images /\ k # q.next
          BY <1>6, <2>2, <2>5, <4>1 DEF Live, Rows
        <5>. QED  BY <1>5, <5>1
      <4>. QED  BY <4>1
    <3>2. Main(u)' = Main(u) /\ q.image \notin Main(u)
      BY <1>12, <2>2, <2>5, <3>1 DEF Main
    <3>. QED  BY <2>1, <2>3, <3>2
  <2>. QED  BY <2>4, <2>5 DEF ImageInv, ImageShape, ImagesTypeOK
<1>17. MainInOrder'
  <2>. SUFFICES ASSUME NEW v \in calm \cap careful
                PROVE  /\ \A a, c \in Main(v)' : a = c
                       /\ \A k \in Busy(v)' : MainShape(v, job[k])'
    BY <1>2 DEF MainInOrder, histories
  <2>1. v \in Users
    BY DEF ImageInv, ImageShape, ImagesTypeOK
  <2>2. \A a, c \in Main(v)' : a = c
    BY <1>13, <1>16, <2>1 DEF ImageInv, MainInOrder
  <2>3. ASSUME NEW k \in Busy(v)', v # u
        PROVE  MainShape(v, job[k])'
    <3>1. k \in Busy(v) /\ k \in Jobs /\ job'[k] = job[k] /\ MainShape(v, job[k])
      BY <1>10, <2>3 DEF ImageInv, MainInOrder
    <3>2. JobShape(job[k]) /\ job[k].user = v
      BY <3>1 DEF ImageInv, ImageShape, Busy
    <3>3. Live(v)' = Live(v) /\ Main(v)' = Main(v)
      BY <1>13, <2>1, <2>3
    <3>4. job[k].kind \in {"delete", "setMain"} =>
            /\ isMain'[job[k].image] = isMain[job[k].image]
            /\ deleted'[job[k].image] = deleted[job[k].image]
      BY <1>13, <2>1, <2>3, <3>2 DEF JobShape, DeleteShape, SetMainShape
    <3>. QED  BY <3>1, <3>3, <3>4 DEF MainShape
  <2>. QED  BY <1>16, <2>2, <2>3
<1>. QED  BY <1>0, <1>2, <1>3, <1>10, <1>11, <1>13, <1>15, <1>16, <1>17 DEF ImageInv, Saving

LEMMA CommitMainInv ==
  ASSUME ImageInv, NEW j \in Jobs, NEW u, u = job[j].user, CommitMain(j)
  PROVE  /\ ImageInv' /\ ~Saving(j) /\ j \in Busy(u)
         /\ deleted' = deleted
         /\ \A v : Rows(v)' = Rows(v)
         /\ \A v \in Users \ {u} : Busy(v)' = Busy(v) /\ Main(v)' = Main(v)
         /\ u \in calm \cap careful => Main(u)' # {}
<1>0. PICK q : q = job[j]
  OBVIOUS
<1>1. u = q.user
  BY <1>0
<1>2. /\ job[j] # NoJob /\ q.kind = "setMain" /\ q.pc = "commit" /\ q.wants = {}
      /\ ~Waits(j) /\ UNCHANGED <<profile, imageOrder, deleted, histories>>
  BY <1>0 DEF CommitMain, At, Waits
<1>3. /\ q \in Job /\ JobShape(q) /\ u \in Users /\ u # Null /\ j \in Busy(u)
      /\ (u \in calm \cap careful => MainShape(u, q))
  BY <1>0, <1>1, <1>2, Fields, UsersAssumption
<1>4. /\ q.image \in Rows(u) /\ q.image \in q.holds /\ q.holds \subseteq Rows(u)
      /\ Rows(u) \subseteq Images
  BY <1>1, <1>2, <1>3 DEF JobShape, SetMainShape, Rows
<1>5. /\ isMain' = [i \in Images |-> IF i \in q.holds THEN i = q.image ELSE isMain[i]]
      /\ job' = [job EXCEPT ![j] = NoJob]
  BY <1>0 DEF CommitMain
<1>6. profile' = profile /\ deleted' = deleted /\ isMain \in [Images -> BOOLEAN]
  BY <1>2 DEF ImageInv, ImageShape, ImagesTypeOK
<1>7. Commits(j)
  BY <1>2, <1>5, <1>6 DEF Commits
<1>8. ImagesTypeOK'
  <2>1. job' \in [Jobs -> Job \cup {NoJob}]
    BY <1>5 DEF ImageInv, ImageShape, ImagesTypeOK
  <2>2. isMain' \in [Images -> BOOLEAN]
    BY <1>5, <1>6
  <2>. QED  BY <1>2, <2>1, <2>2 DEF ImageInv, ImageShape, ImagesTypeOK, histories
<1>9. \A k \in Images : profile'[k] = Null => ~deleted'[k]
  BY <1>6 DEF ImageInv, ImageShape
<1>10. /\ \A v : Busy(v)' = Busy(v) \ {j}
       /\ \A v : \A k \in Busy(v)' :
             k \in Busy(v) /\ k # j /\ k \in Jobs /\ job'[k] = job[k]
       /\ ImageShape' /\ AloneInCalm'
  BY <1>7, <1>8, <1>9, CommitsInv
<1>11. \A v : Rows(v)' = Rows(v) /\ Live(v)' = Live(v)
  BY <1>6 DEF Rows, Live
<1>12. ASSUME NEW v \in Users, v # u
       PROVE  /\ Main(v)' = Main(v) /\ Busy(v)' = Busy(v)
              /\ \A k \in Rows(v) : isMain'[k] = isMain[k]
  <2>1. \A k \in Rows(v) : k \in Images /\ k \notin q.holds
    BY <1>4, <1>6, <1>12 DEF Rows
  <2>2. \A k \in Rows(v) : isMain'[k] = isMain[k]
    BY <1>5, <2>1
  <2>3. Live(v) \subseteq Rows(v)
    BY DEF Live
  <2>4. j \notin Busy(v)
    BY <1>0, <1>1, <1>12 DEF Busy
  <2>. QED  BY <1>10, <1>11, <2>2, <2>3, <2>4 DEF Main
<1>13. SavedApart'
  BY <1>2, <1>10, <1>11 DEF ImageInv, SavedApart, Saving, histories
<1>14. u \in calm \cap careful =>
         /\ \A k \in Busy(u)' : job'[k].kind # "delete" /\ ~Chooses(k)'
         /\ Main(u)' = {q.image}
  <2>. SUFFICES ASSUME u \in calm \cap careful
                PROVE  /\ \A k \in Busy(u)' : job'[k].kind # "delete" /\ ~Chooses(k)'
                       /\ Main(u)' = {q.image}
    OBVIOUS
  <2>1. Chooses(j)
    BY <1>0, <1>2 DEF Chooses, ChoosesMain
  <2>2. \A k \in Busy(u)' : job'[k].kind # "delete" /\ ~Chooses(k)'
    BY <1>3, <1>10, <2>1 DEF ImageInv, AloneInCalm, Chooses
  <2>3. ~deleted[q.image] /\ Main(u) \subseteq q.holds
    BY <1>2, <1>3 DEF MainShape
  <2>4. \A k \in Live(u) : isMain'[k] <=> k = q.image
    <3>1. ASSUME NEW k \in Live(u)
          PROVE  isMain'[k] <=> k = q.image
      <4>1. k \in Images /\ (isMain[k] => k \in q.holds)
        BY <2>3, <3>1 DEF Main, Live, Rows
      <4>. QED  BY <1>4, <1>5, <4>1
    <3>. QED  BY <3>1
  <2>5. q.image \in Live(u)
    BY <1>4, <2>3 DEF Live
  <2>. QED  BY <1>11, <2>2, <2>4, <2>5 DEF Main
<1>15. MainInOrder'
  <2>. SUFFICES ASSUME NEW v \in calm \cap careful
                PROVE  /\ \A a, c \in Main(v)' : a = c
                       /\ \A k \in Busy(v)' : MainShape(v, job[k])'
    BY <1>2 DEF MainInOrder, histories
  <2>1. v \in Users
    BY DEF ImageInv, ImageShape, ImagesTypeOK
  <2>2. \A a, c \in Main(v)' : a = c
    BY <1>12, <1>14, <2>1 DEF ImageInv, MainInOrder
  <2>3. ASSUME NEW k \in Busy(v)'
        PROVE  MainShape(v, job[k])'
    <3>1. k \in Busy(v) /\ k \in Jobs /\ job'[k] = job[k] /\ MainShape(v, job[k])
      BY <1>10, <2>3 DEF ImageInv, MainInOrder
    <3>2. JobShape(job[k]) /\ job[k].user = v /\ job[k] \in Job
      BY <3>1, JobTyped DEF ImageInv, ImageShape, Busy
    <3>3. CASE v # u
      <4>1. job[k].kind = "delete" => isMain'[job[k].image] = isMain[job[k].image]
        BY <1>12, <2>1, <3>2, <3>3 DEF JobShape, DeleteShape
      <4>. QED  BY <1>6, <1>11, <1>12, <2>1, <3>1, <3>3, <4>1 DEF MainShape
    <3>4. CASE v = u
      <4>1. job[k].kind = "save" /\ ~job[k].asMain
        BY <1>14, <2>3, <3>1, <3>2, <3>4 DEF Chooses, ChoosesMain
      <4>. QED  BY <3>1, <4>1 DEF MainShape
    <3>. QED  BY <3>3, <3>4
  <2>. QED  BY <2>2, <2>3
<1>. QED  BY <1>0, <1>2, <1>3, <1>6, <1>10, <1>11, <1>12, <1>13, <1>14, <1>15 DEF ImageInv, Saving

-----------------------------------------------------------------------------
(* Registration: what a step leaves alone. *)

LEMMA PostTyped ==
  ASSUME SignupTypeOK, NEW r \in Posts, request[r] # NoRequest
  PROVE  request[r] \in Post /\ request[r].user \in Users /\ r \in AtWork(request[r].user)
BY DEF SignupTypeOK, Post, AtWork

LEMMA ImagesKept ==
  ASSUME ImageInv, UNCHANGED imageVars
  PROVE  /\ ImageInv'
         /\ \A u : /\ Rows(u)' = Rows(u) /\ Live(u)' = Live(u) /\ Main(u)' = Main(u)
                   /\ Busy(u)' = Busy(u)
<1>1. UNCHANGED <<profile, isMain, imageOrder, deleted, job, apart, calm, careful>>
  BY DEF imageVars, imageRows, histories
<1>2. \A u : /\ Rows(u)' = Rows(u) /\ Live(u)' = Live(u) /\ Main(u)' = Main(u)
             /\ Busy(u)' = Busy(u)
  BY <1>1 DEF Rows, Live, Main, Busy
<1>3. ImageShape'
  <2>1. ASSUME NEW k \in Jobs, job[k] # NoJob
        PROVE  JobShape(job[k])'
    BY <1>1, <2>1, ShapeKept, JobTyped DEF ImageInv, ImageShape
  <2>. QED  BY <1>1, <2>1 DEF ImageInv, ImageShape, ImagesTypeOK
<1>4. SavedApart' /\ AloneInCalm'
  BY <1>1, <1>2 DEF ImageInv, SavedApart, AloneInCalm, Saving, Chooses
<1>5. MainInOrder'
  <2>1. ASSUME NEW u \in calm \cap careful, NEW k \in Busy(u)
        PROVE  MainShape(u, job[k])'
    BY <1>1, <2>1, MainShapeKept DEF ImageInv, MainInOrder, Busy, imageRows
  <2>. QED  BY <1>1, <1>2, <2>1 DEF ImageInv, MainInOrder
<1>. QED  BY <1>2, <1>3, <1>4, <1>5 DEF ImageInv

LEMMA FilesKept ==
  ASSUME RegInv, UNCHANGED <<imageVars, member, created, unsent, saved>>
  PROVE  /\ ImageInv' /\ Newcomers'
         /\ \A u : /\ Busy(u)' = Busy(u) /\ Main(u)' = Main(u) /\ Rows(u)' = Rows(u)
                   /\ Filed(u)' = Filed(u) /\ (MainOnItsWay(u)' <=> MainOnItsWay(u))
<1>1. /\ ImageInv'
      /\ \A u : Rows(u)' = Rows(u) /\ Main(u)' = Main(u) /\ Busy(u)' = Busy(u)
  BY ImagesKept DEF RegInv
<1>2. UNCHANGED <<profile, isMain, imageOrder, deleted, job, apart, calm, careful>>
  BY DEF imageVars, imageRows, histories
<1>3. \A u : Filed(u)' = Filed(u) /\ (MainOnItsWay(u)' <=> MainOnItsWay(u))
  BY <1>1, <1>2 DEF Filed, MainOnItsWay
<1>4. Newcomers'
  BY <1>1, <1>2, <1>3 DEF RegInv, SignupInv, Newcomers, Saving
<1>. QED  BY <1>1, <1>3, <1>4

\* A request goes on; what it does concerns its user only.
LEMMA PostMoves ==
  ASSUME RegInv, NEW r \in Posts, request[r] # NoRequest, NEW u, u = request[r].user,
         NEW q \in Post, q.user = u, q.op = request[r].op,
         request' = [request EXCEPT ![r] = q],
         ImageInv', Newcomers', created' = created, steady' = steady,
         \A v \in Users \ {u} :
            /\ Busy(v)' = Busy(v) /\ Main(v)' = Main(v) /\ Filed(v)' = Filed(v)
            /\ MainOnItsWay(v)' <=> MainOnItsWay(v)
            /\ saved'[v] = saved[v] /\ unsent'[v] = unsent[v]
            /\ Current(v)' = Current(v) /\ universityDetailId'[v] = universityDetailId[v]
            /\ \A d \in Details : owner'[d] = v <=> owner[d] = v,
         q.op = "signup" => q.pc # "remove" /\ FilesOf(u, q)' /\ DetailOf(u, q)',
         q.op = "university" => q.pc \in {"remove", "count", "write", "answer"},
         u \in steady /\ q.op = "university" =>
            /\ (q.pc \in {"count", "write"} => Current(u)' = {})
            /\ (q.pc = "write" => ~q.exists)
            /\ (q.pc = "answer" => HasOne(u)'),
         SignupTypeOK', Owners'
  PROVE  RegInv'
<1>1. /\ request'[r] = q /\ \A k \in Posts \ {r} : request'[k] = request[k]
      /\ q # NoRequest
  BY DEF RegInv, SignupInv, SignupTypeOK, Post, NoRequest
<1>2. \A v : AtWork(v)' = AtWork(v)
  BY <1>1 DEF AtWork
<1>3. r \in AtWork(u) /\ u \in Users /\ u \in created
  BY PostTyped DEF RegInv, SignupInv, Signups
<1>4. Signups'
  <2>. SUFFICES ASSUME NEW v \in Users, NEW k \in AtWork(v)
                PROVE  /\ v \in created
                       /\ request'[k].op = "signup" =>
                             /\ request'[k].pc # "remove" /\ AtWork(v) = {k}
                             /\ FilesOf(v, request[k])' /\ DetailOf(v, request[k])'
                       /\ request'[k].op = "university" =>
                             request'[k].pc \in {"remove", "count", "write", "answer"}
    BY <1>2 DEF Signups
  <2>1. /\ v \in created /\ k \in Posts /\ request[k].user = v
        /\ (request[k].op = "signup" => AtWork(v) = {k})
    BY DEF RegInv, SignupInv, Signups, AtWork
  <2>2. CASE k = r
    BY <1>1, <2>1, <2>2 DEF FilesOf, DetailOf
  <2>3. CASE k # r
    <3>1. request'[k] = request[k]
      BY <1>1, <2>1, <2>3
    <3>2. CASE request[k].op = "signup"
      <4>1. v # u
        BY <1>3, <2>1, <2>3, <3>2
      <4>2. FilesOf(v, request[k]) /\ DetailOf(v, request[k]) /\ request[k].pc # "remove"
        BY <3>2 DEF RegInv, SignupInv, Signups
      <4>3. FilesOf(v, request[k])'
        BY <3>1, <4>1, <4>2 DEF FilesOf
      <4>4. DetailOf(v, request[k])'
        BY <3>1, <4>1, <4>2 DEF DetailOf
      <4>. QED  BY <2>1, <3>1, <3>2, <4>2, <4>3, <4>4
    <3>3. CASE request[k].op # "signup"
      BY <2>1, <3>1, <3>3 DEF RegInv, SignupInv, Signups
    <3>. QED  BY <3>2, <3>3
  <2>. QED  BY <2>2, <2>3
<1>5. Steady'
  <2>. SUFFICES ASSUME NEW v \in steady
                PROVE  /\ \A k, h \in AtWork(v) : k = h
                       /\ AtWork(v) = {} => HasOne(v)' \/ \A d \in Details : owner'[d] # v
                       /\ \A k \in AtWork(v) : request'[k].op = "university" =>
                             /\ request'[k].pc \in {"count", "write"} => Current(v)' = {}
                             /\ request'[k].pc = "write" => ~request'[k].exists
                             /\ request'[k].pc = "answer" => HasOne(v)'
    BY <1>2 DEF Steady
  <2>1. v \in Users
    BY DEF RegInv, SignupInv, SignupTypeOK
  <2>2. CASE v = u
    BY <1>1, <1>3, <2>2 DEF RegInv, SignupInv, Steady
  <2>3. CASE v # u
    <3>1. HasOne(v)' <=> HasOne(v)
      BY <2>1, <2>3 DEF HasOne
    <3>2. \A k \in AtWork(v) : request'[k] = request[k]
      BY <1>1, <2>3 DEF AtWork
    <3>. QED  BY <2>1, <2>3, <3>1, <3>2 DEF RegInv, SignupInv, Steady
  <2>. QED  BY <2>2, <2>3
<1>. QED  BY <1>4, <1>5 DEF RegInv, SignupInv

\* A request is answered or fails.
LEMMA PostEnds ==
  ASSUME RegInv, NEW r \in Posts, request[r] # NoRequest, NEW u, u = request[r].user,
         request' = [request EXCEPT ![r] = NoRequest],
         UNCHANGED <<imageVars, owner, removed, authenticated, universityDetailId,
                     member, created, unsent, saved>>,
         steady' \subseteq steady,
         u \in steady' => HasOne(u)
  PROVE  RegInv'
<1>1. /\ request'[r] = NoRequest /\ \A k \in Posts \ {r} : request'[k] = request[k]
      /\ request' \in [Posts -> Post \cup {NoRequest}]
  BY DEF RegInv, SignupInv, SignupTypeOK
<1>2. \A v : AtWork(v)' = AtWork(v) \ {r}
  BY <1>1 DEF AtWork
<1>3. /\ ImageInv' /\ Newcomers'
      /\ \A v : /\ Busy(v)' = Busy(v) /\ Main(v)' = Main(v) /\ Rows(v)' = Rows(v)
                /\ Filed(v)' = Filed(v) /\ (MainOnItsWay(v)' <=> MainOnItsWay(v))
  BY FilesKept
<1>4. SignupTypeOK'
  BY <1>1, <1>3 DEF RegInv, SignupInv, SignupTypeOK, ImageInv, ImageShape
<1>5. \A v : Current(v)' = Current(v) /\ (HasOne(v)' <=> HasOne(v))
  BY DEF Current, HasOne
<1>6. Owners'
  BY DEF RegInv, SignupInv, Owners
<1>7. Signups'
  <2>. SUFFICES ASSUME NEW v \in Users, NEW k \in AtWork(v), k # r
                PROVE  /\ v \in created
                       /\ request'[k].op = "signup" =>
                             /\ request'[k].pc # "remove" /\ AtWork(v) \ {r} = {k}
                             /\ FilesOf(v, request[k])' /\ DetailOf(v, request[k])'
                       /\ request'[k].op = "university" =>
                             request'[k].pc \in {"remove", "count", "write", "answer"}
    BY <1>2 DEF Signups
  <2>1. k \in Posts /\ request'[k] = request[k]
    BY <1>1 DEF AtWork
  <2>2. ASSUME request[k].op = "signup"
        PROVE  FilesOf(v, request[k])' /\ DetailOf(v, request[k])'
    <3>1. FilesOf(v, request[k]) /\ DetailOf(v, request[k])
      BY <2>2 DEF RegInv, SignupInv, Signups
    <3>. QED  BY <1>3, <1>5, <2>1, <3>1 DEF FilesOf, DetailOf
  <2>. QED  BY <2>1, <2>2 DEF RegInv, SignupInv, Signups
<1>8. Steady'
  <2>. SUFFICES ASSUME NEW v \in steady'
                PROVE  /\ \A k, h \in AtWork(v) \ {r} : k = h
                       /\ AtWork(v) \ {r} = {} => HasOne(v) \/ \A d \in Details : owner[d] # v
                       /\ \A k \in AtWork(v) \ {r} : request'[k].op = "university" =>
                             /\ request'[k].pc \in {"count", "write"} => Current(v) = {}
                             /\ request'[k].pc = "write" => ~request'[k].exists
                             /\ request'[k].pc = "answer" => HasOne(v)
    BY <1>2, <1>5 DEF Steady
  <2>1. v = u \/ r \notin AtWork(v)
    BY DEF AtWork
  <2>2. \A k \in AtWork(v) \ {r} : request'[k] = request[k]
    BY <1>1 DEF AtWork
  <2>. QED  BY <2>1, <2>2 DEF RegInv, SignupInv, Steady
<1>. QED  BY <1>3, <1>4, <1>6, <1>7, <1>8 DEF RegInv, SignupInv

-----------------------------------------------------------------------------
(* The steps of the requests. *)

\* What is known of a request being worked on.
LEMMA PostFields ==
  ASSUME RegInv, NEW r \in Posts, request[r] # NoRequest, NEW u, u = request[r].user
  PROVE  /\ request[r] \in Post /\ r \in AtWork(u) /\ u \in Users /\ u # Null /\ u \in created
         /\ request[r].op = "signup" => AtWork(u) = {r} /\ FilesOf(u, request[r])
                                        /\ DetailOf(u, request[r])
         /\ request[r].op = "university" => \A k \in AtWork(u) : request[k].op # "signup"
<1>1. request[r] \in Post /\ r \in AtWork(u) /\ u \in Users /\ u # Null
  BY PostTyped, UsersAssumption DEF RegInv, SignupInv
<1>. QED  BY <1>1 DEF RegInv, SignupInv, Signups

LEMMA RemoveUniversityInv ==
  ASSUME RegInv, NEW r \in Posts, RemoveUniversity(r)
  PROVE  RegInv'
<1>0. PICK p, u : p = request[r] /\ u = p.user
  OBVIOUS
<1>1. request[r] # NoRequest /\ p.op = "university" /\ p.pc = "remove"
  BY <1>0 DEF RemoveUniversity, Is
<1>2. p \in Post /\ u \in Users /\ u # Null
  BY <1>0, <1>1, PostFields
<1> DEFINE q == [p EXCEPT !.pc = "count"]
<1>3. /\ request' = [request EXCEPT ![r] = q]
      /\ removed' = [d \in Details |-> removed[d] \/ owner[d] = u]
      /\ UNCHANGED <<imageVars, owner, authenticated, universityDetailId, steady,
                     member, created, unsent, saved>>
  BY <1>0 DEF RemoveUniversity
<1>4. q \in Post /\ q.user = u /\ q.op = "university" /\ q.pc = "count"
  BY <1>0, <1>1, <1>2 DEF Post
<1> HIDE DEF q
<1>5. /\ ImageInv' /\ Newcomers'
      /\ \A v : /\ Busy(v)' = Busy(v) /\ Main(v)' = Main(v)
                /\ Filed(v)' = Filed(v) /\ (MainOnItsWay(v)' <=> MainOnItsWay(v))
  BY <1>3, FilesKept
<1>6. SignupTypeOK'
  BY <1>3, <1>4, <1>5 DEF RegInv, SignupInv, SignupTypeOK, ImageInv, ImageShape
<1>7. Owners'
  BY <1>2, <1>3 DEF RegInv, SignupInv, Owners
<1>8. Current(u)' = {}
  BY <1>3 DEF Current
<1>9. \A v \in Users \ {u} : Current(v)' = Current(v)
  BY <1>3 DEF Current
<1>. QED  BY <1>0, <1>1, <1>3, <1>4, <1>5, <1>6, <1>7, <1>8, <1>9, PostMoves

LEMMA CountDetailsInv ==
  ASSUME RegInv, NEW r \in Posts, CountDetails(r)
  PROVE  RegInv'
<1>0. PICK p, u : p = request[r] /\ u = p.user
  OBVIOUS
<1>1. request[r] # NoRequest /\ p.op \in Either /\ p.pc = "count"
  BY <1>0 DEF CountDetails, Is
<1>2. /\ p \in Post /\ u \in Users /\ u # Null /\ r \in AtWork(u)
      /\ (p.op = "signup" => FilesOf(u, p) /\ DetailOf(u, p))
  BY <1>0, <1>1, PostFields
<1>3a. PICK has \in BOOLEAN : has = (Current(u) # {})
  OBVIOUS
<1> DEFINE q == [p EXCEPT !.pc = "write", !.exists = has]
<1>3. /\ request' = [request EXCEPT ![r] = q]
      /\ UNCHANGED <<imageVars, universityVars, member, created, unsent, saved>>
  BY <1>0, <1>3a DEF CountDetails
<1>3b. has <=> Current(u) # {}
  BY <1>3a
<1>4. /\ q \in Post /\ q.user = u /\ q.op = p.op /\ q.pc = "write"
      /\ q.files = p.files
  BY <1>0, <1>1, <1>2, <1>3a DEF Post
<1>4a. q.exists <=> has
  BY <1>2, <1>3a DEF Post
<1> HIDE DEF q
<1>5. /\ ImageInv' /\ Newcomers'
      /\ \A v : /\ Busy(v)' = Busy(v) /\ Main(v)' = Main(v)
                /\ Filed(v)' = Filed(v) /\ (MainOnItsWay(v)' <=> MainOnItsWay(v))
  BY <1>3, FilesKept
<1>5a. UNCHANGED <<owner, removed, authenticated, universityDetailId, steady>>
  BY <1>3 DEF universityVars
<1>6. SignupTypeOK'
  BY <1>3, <1>4, <1>5, <1>5a DEF RegInv, SignupInv, SignupTypeOK, ImageInv, ImageShape
<1>7. Owners'
  BY <1>3, <1>5a DEF RegInv, SignupInv, Owners
<1>8. \A v : Current(v)' = Current(v)
  BY <1>5a DEF Current
<1>9. ASSUME q.op = "signup"
      PROVE  FilesOf(u, q)' /\ DetailOf(u, q)'
  <2>1. FilesOf(u, p) /\ DetailOf(u, p)
    BY <1>2, <1>4, <1>9
  <2>2. ~q.exists
    BY <1>1, <1>3b, <1>4a, <2>1 DEF DetailOf, Current
  <2>3. FilesOf(u, q)'
    BY <1>1, <1>3, <1>4, <1>5, <2>1 DEF FilesOf
  <2>. QED  BY <1>1, <1>4, <1>5a, <2>1, <2>2, <2>3 DEF DetailOf
<1>10. u \in steady /\ q.op = "university" => Current(u) = {}
  BY <1>0, <1>1, <1>2, <1>4 DEF RegInv, SignupInv, Steady
<1>11. u \in steady /\ q.op = "university" =>
          /\ (q.pc \in {"count", "write"} => Current(u)' = {})
          /\ (q.pc = "write" => ~q.exists)
          /\ (q.pc = "answer" => HasOne(u)')
  BY <1>3b, <1>4, <1>4a, <1>8, <1>10
<1>12. /\ q.op = "signup" => q.pc # "remove" /\ FilesOf(u, q)' /\ DetailOf(u, q)'
       /\ q.op = "university" => q.pc \in {"remove", "count", "write", "answer"}
  BY <1>4, <1>9
<1>. QED  BY <1>0, <1>1, <1>3, <1>4, <1>5, <1>5a, <1>6, <1>7, <1>8, <1>11, <1>12, PostMoves

LEMMA UpdateDetailsInv ==
  ASSUME RegInv, NEW r \in Posts, UpdateDetails(r)
  PROVE  RegInv'
<1>0. PICK p, u : p = request[r] /\ u = p.user
  OBVIOUS
<1>1. request[r] # NoRequest /\ p.op \in Either /\ p.pc = "write" /\ p.exists
  BY <1>0 DEF UpdateDetails, Is
<1>2. /\ p \in Post /\ u \in Users /\ u # Null /\ r \in AtWork(u)
      /\ (p.op = "signup" => FilesOf(u, p) /\ DetailOf(u, p))
  BY <1>0, <1>1, PostFields
<1>2a. p.op = "university"
  BY <1>1, <1>2 DEF DetailOf, Either
<1>2b. PICK d \in Details \cup {Null} : Written(r, d)
  BY DEF UpdateDetails, Current
<1> DEFINE q == [p EXCEPT !.detail = d, !.pc = "answer"]
<1>3. /\ request' = [request EXCEPT ![r] = q]
      /\ UNCHANGED <<imageVars, universityVars, member, created, unsent, saved>>
  BY <1>0, <1>2a, <1>2b DEF UpdateDetails, Written
<1>4. q \in Post /\ q.user = u /\ q.op = "university" /\ q.pc = "answer"
  BY <1>0, <1>1, <1>2, <1>2a DEF Post
<1> HIDE DEF q
<1>5. /\ ImageInv' /\ Newcomers'
      /\ \A v : /\ Busy(v)' = Busy(v) /\ Main(v)' = Main(v)
                /\ Filed(v)' = Filed(v) /\ (MainOnItsWay(v)' <=> MainOnItsWay(v))
  BY <1>3, FilesKept
<1>5a. UNCHANGED <<owner, removed, authenticated, universityDetailId, steady>>
  BY <1>3 DEF universityVars
<1>6. SignupTypeOK'
  BY <1>3, <1>4, <1>5, <1>5a DEF RegInv, SignupInv, SignupTypeOK, ImageInv, ImageShape
<1>7. Owners'
  BY <1>3, <1>5a DEF RegInv, SignupInv, Owners
<1>8. \A v : Current(v)' = Current(v)
  BY <1>5a DEF Current
<1>9. u \notin steady
  BY <1>0, <1>1, <1>2, <1>2a DEF RegInv, SignupInv, Steady
<1>. QED  BY <1>0, <1>1, <1>2a, <1>3, <1>4, <1>5, <1>5a, <1>6, <1>7, <1>8, <1>9, PostMoves

LEMMA InsertDetailsInv ==
  ASSUME RegInv, NEW r \in Posts, NEW d \in Details, InsertDetails(r, d)
  PROVE  RegInv'
<1>0. PICK p, u : p = request[r] /\ u = p.user
  OBVIOUS
<1>1. request[r] # NoRequest /\ p.op \in Either /\ p.pc = "write" /\ ~p.exists /\ owner[d] = Null
  BY <1>0 DEF InsertDetails, Is
<1>2. /\ p \in Post /\ u \in Users /\ u # Null /\ u \in created /\ r \in AtWork(u)
      /\ (p.op = "signup" => FilesOf(u, p) /\ DetailOf(u, p))
  BY <1>0, <1>1, PostFields
<1> DEFINE pc == IF p.op = "signup" THEN "reference" ELSE "answer"
           q == [p EXCEPT !.detail = d, !.pc = pc]
<1>3. /\ request' = [request EXCEPT ![r] = q]
      /\ owner' = [owner EXCEPT ![d] = u]
      /\ UNCHANGED <<imageVars, removed, authenticated, universityDetailId, steady,
                     member, created, unsent, saved>>
  BY <1>0, <1>1 DEF InsertDetails, Written
<1>4. /\ q \in Post /\ q.user = u /\ q.op = p.op /\ q.pc = pc /\ q.detail = d
      /\ q.files = p.files
  BY <1>0, <1>1, <1>2 DEF Post
<1> HIDE DEF q
<1>5. /\ ImageInv' /\ Newcomers'
      /\ \A v : /\ Busy(v)' = Busy(v) /\ Main(v)' = Main(v)
                /\ Filed(v)' = Filed(v) /\ (MainOnItsWay(v)' <=> MainOnItsWay(v))
  BY <1>3, FilesKept
<1>6. SignupTypeOK'
  BY <1>2, <1>3, <1>4, <1>5 DEF RegInv, SignupInv, SignupTypeOK, ImageInv, ImageShape
<1>7. /\ owner'[d] = u /\ \A e \in Details \ {d} : owner'[e] = owner[e]
      /\ ~removed[d] /\ removed' = removed
  BY <1>1, <1>3 DEF RegInv, SignupInv, SignupTypeOK, Owners
<1>8. Owners'
  BY <1>2, <1>3, <1>7 DEF RegInv, SignupInv, Owners
<1>9. \A v \in Users \ {u} : /\ Current(v)' = Current(v)
                             /\ \A e \in Details : owner'[e] = v <=> owner[e] = v
  <2>1. \A v \in Users \ {u} : v # Null
    BY UsersAssumption
  <2>. QED  BY <1>1, <1>7, <2>1 DEF Current
<1>10. Current(u)' = Current(u) \cup {d}
  BY <1>1, <1>2, <1>7 DEF Current
<1>11. ASSUME q.op = "signup"
       PROVE  FilesOf(u, q)' /\ DetailOf(u, q)'
  <2>1. FilesOf(u, p) /\ DetailOf(u, p) /\ q.pc = "reference"
    BY <1>2, <1>4, <1>11
  <2>2. Current(u)' = {d}
    BY <1>1, <1>10, <2>1 DEF DetailOf, Current
  <2>3. FilesOf(u, q)'
    BY <1>1, <1>3, <1>4, <1>5, <2>1 DEF FilesOf
  <2>. QED  BY <1>4, <2>1, <2>2, <2>3 DEF DetailOf
<1>12. /\ q.op = "signup" => q.pc # "remove" /\ FilesOf(u, q)' /\ DetailOf(u, q)'
       /\ q.op = "university" => q.pc \in {"remove", "count", "write", "answer"}
  BY <1>4, <1>11
<1>13. u \in steady /\ q.op = "university" =>
          /\ (q.pc \in {"count", "write"} => Current(u)' = {})
          /\ (q.pc = "write" => ~q.exists)
          /\ (q.pc = "answer" => HasOne(u)')
  <2>1. u \in steady /\ q.op = "university" => Current(u) = {}
    BY <1>0, <1>1, <1>2, <1>4 DEF RegInv, SignupInv, Steady
  <2>. QED  BY <1>4, <1>10, <2>1 DEF HasOne
<1>14. \A v \in Users \ {u} :
         /\ Busy(v)' = Busy(v) /\ Main(v)' = Main(v) /\ Filed(v)' = Filed(v)
         /\ MainOnItsWay(v)' <=> MainOnItsWay(v)
         /\ saved'[v] = saved[v] /\ unsent'[v] = unsent[v]
         /\ Current(v)' = Current(v) /\ universityDetailId'[v] = universityDetailId[v]
         /\ \A e \in Details : owner'[e] = v <=> owner[e] = v
  BY <1>3, <1>5, <1>9
<1>15. created' = created /\ steady' = steady
  BY <1>3
<1> HIDE DEF pc
<1>. QED  BY <1>0, <1>1, <1>3, <1>4, <1>5, <1>6, <1>8, <1>12, <1>13, <1>14, <1>15, PostMoves

LEMMA UpdateUniversityIdInv ==
  ASSUME RegInv, NEW r \in Posts, UpdateUniversityId(r)
  PROVE  RegInv'
<1>0. PICK p, u : p = request[r] /\ u = p.user
  OBVIOUS
<1>1. request[r] # NoRequest /\ p.op = "signup" /\ p.pc = "reference"
  BY <1>0 DEF UpdateUniversityId, Is
<1>2. /\ p \in Post /\ u \in Users /\ u # Null /\ u \in created /\ r \in AtWork(u)
      /\ FilesOf(u, p) /\ DetailOf(u, p)
  BY <1>0, <1>1, PostFields
<1> DEFINE q == [p EXCEPT !.pc = "upload"]
<1>3. /\ request' = [request EXCEPT ![r] = q]
      /\ universityDetailId' = [universityDetailId EXCEPT ![u] = p.detail]
      /\ unsent' = [unsent EXCEPT ![u] = 1 .. p.files]
      /\ UNCHANGED <<imageVars, owner, removed, authenticated, steady, member,
                     created, saved>>
  BY <1>0, <1>1 DEF UpdateUniversityId
<1>4. /\ q \in Post /\ q.user = u /\ q.op = "signup" /\ q.pc = "upload" /\ q.files = p.files
  BY <1>0, <1>1, <1>2 DEF Post
<1> HIDE DEF q
<1>5. /\ ImageInv'
      /\ \A v : /\ Busy(v)' = Busy(v) /\ Main(v)' = Main(v) /\ Rows(v)' = Rows(v)
  BY <1>3, ImagesKept DEF RegInv
<1>5a. UNCHANGED <<profile, isMain, imageOrder, deleted, job, apart, calm, careful>>
  BY <1>3 DEF imageVars, imageRows, histories
<1>6. /\ p.files \in 1 .. Limit /\ p.detail \in Details /\ Current(u) = {p.detail}
      /\ unsent[u] = {} /\ Busy(u) = {} /\ saved[u] = 0
  BY <1>1, <1>2, LimitAssumption DEF FilesOf, DetailOf, Post
<1>7. /\ universityDetailId'[u] = p.detail /\ unsent'[u] = 1 .. p.files
      /\ \A v \in Users \ {u} : universityDetailId'[v] = universityDetailId[v]
                                /\ unsent'[v] = unsent[v]
  BY <1>2, <1>3 DEF RegInv, SignupInv, SignupTypeOK
<1>8. SignupTypeOK'
  <2>1. 1 .. p.files \subseteq 1 .. Limit
    BY <1>6, LimitAssumption
  <2>. QED  BY <1>2, <1>3, <1>4, <1>5, <1>6, <2>1 DEF RegInv, SignupInv, SignupTypeOK, ImageInv, ImageShape
<1>9. Owners'
  BY <1>3 DEF RegInv, SignupInv, Owners
<1>10. \A v : Current(v)' = Current(v)
  BY <1>3 DEF Current
<1>11. \A v \in Users \ {u} : Filed(v)' = Filed(v) /\ (MainOnItsWay(v)' <=> MainOnItsWay(v))
  BY <1>3, <1>5, <1>5a, <1>7 DEF Filed, MainOnItsWay
<1>12. Filed(u)' = p.files
  <2>1. Cardinality(unsent'[u]) = p.files
    <3>1. p.files \in Nat \ {0}
      BY <1>6, LimitAssumption
    <3>2. Cardinality(1 .. p.files) = p.files - 1 + 1
      BY <3>1, FS_Interval
    <3>. QED  BY <1>7, <3>1, <3>2
  <2>2. Cardinality(Busy(u)') = 0
    BY <1>5, <1>6, FS_EmptySet
  <2>. QED  BY <1>3, <1>6, <2>1, <2>2, LimitAssumption DEF Filed
<1>13. MainOnItsWay(u)'
  BY <1>6, <1>7, LimitAssumption DEF MainOnItsWay
<1>14. Main(u) = {} /\ Rows(u) = {}
  <2>1. Cardinality(Rows(u)) = 0
    BY <1>2, <1>6 DEF RegInv, SignupInv, Newcomers
  <2>2. Rows(u) = {}
    BY <2>1, Finite, FS_EmptySet
  <2>. QED  BY <2>2 DEF Main, Live
<1>15. Newcomers'
  <2>1. \A v \in Users \ created : v # u
    BY <1>2
  <2>2. ASSUME NEW v \in created
        PROVE  /\ v \in calm \cap careful
               /\ \A j \in Busy(v)' : Saving(j)'
               /\ \A i \in Rows(v)' : ~deleted'[i]
               /\ saved'[v] = Cardinality(Rows(v))'
               /\ Filed(v)' <= Limit
               /\ 1 \in unsent'[v] => \A j \in Busy(v)' : ~job'[j].asMain
               /\ MainOnItsWay(v)' => Main(v)' = {}
    <3>1. CASE v = u
      BY <1>3, <1>5, <1>5a, <1>6, <1>12, <1>14, <3>1, LimitAssumption DEF RegInv, SignupInv, Newcomers
    <3>2. CASE v # u
      <4>1. v \in Users
        BY DEF RegInv, SignupInv, SignupTypeOK
      <4>. QED  BY <1>3, <1>5, <1>5a, <1>7, <1>11, <3>2, <4>1 DEF RegInv, SignupInv, Newcomers, Saving
    <3>. QED  BY <3>1, <3>2
  <2>. QED  BY <1>3, <1>5, <1>5a, <1>7, <2>1, <2>2 DEF RegInv, SignupInv, Newcomers
<1>16. FilesOf(u, q)'
  BY <1>4, <1>6, <1>12, <1>13, LimitAssumption DEF FilesOf
<1>17. DetailOf(u, q)'
  BY <1>4, <1>6, <1>7, <1>10 DEF DetailOf
<1>. QED  BY <1>0, <1>1, <1>3, <1>4, <1>5, <1>7, <1>8, <1>9, <1>10, <1>11, <1>15, <1>16, <1>17, PostMoves

LEMMA UploadsDoneInv ==
  ASSUME RegInv, NEW r \in Posts, UploadsDone(r)
  PROVE  RegInv'
<1>0. PICK p, u : p = request[r] /\ u = p.user
  OBVIOUS
<1>1. request[r] # NoRequest /\ p.op = "signup" /\ p.pc = "upload" /\ saved[u] = p.files
  BY <1>0 DEF UploadsDone, Is
<1>2. p \in Post /\ r \in AtWork(u) /\ FilesOf(u, p) /\ DetailOf(u, p)
  BY <1>0, <1>1, PostFields
<1> DEFINE q == [p EXCEPT !.pc = "answer"]
<1>3. /\ request' = [request EXCEPT ![r] = q]
      /\ UNCHANGED <<imageVars, universityVars, member, created, unsent, saved>>
  BY <1>0 DEF UploadsDone
<1>4. /\ q \in Post /\ q.user = u /\ q.op = "signup" /\ q.pc = "answer" /\ q.files = p.files
  BY <1>0, <1>1, <1>2 DEF Post
<1> HIDE DEF q
<1>5. /\ ImageInv' /\ Newcomers'
      /\ \A v : /\ Busy(v)' = Busy(v) /\ Main(v)' = Main(v)
                /\ Filed(v)' = Filed(v) /\ (MainOnItsWay(v)' <=> MainOnItsWay(v))
  BY <1>3, FilesKept
<1>5a. UNCHANGED <<owner, removed, authenticated, universityDetailId, steady>>
  BY <1>3 DEF universityVars
<1>6. SignupTypeOK'
  BY <1>3, <1>4, <1>5, <1>5a DEF RegInv, SignupInv, SignupTypeOK, ImageInv, ImageShape
<1>7. Owners'
  BY <1>3, <1>5a DEF RegInv, SignupInv, Owners
<1>8. \A v : Current(v)' = Current(v)
  BY <1>5a DEF Current
<1>9. FilesOf(u, q)' /\ DetailOf(u, q)'
  <2>1. FilesOf(u, q)'
    BY <1>1, <1>2, <1>3, <1>4, <1>5 DEF FilesOf
  <2>2. DetailOf(u, q)'
    BY <1>1, <1>2, <1>4, <1>5a, <1>8 DEF DetailOf
  <2>. QED  BY <2>1, <2>2
<1>. QED  BY <1>0, <1>1, <1>3, <1>4, <1>5, <1>5a, <1>6, <1>7, <1>8, <1>9, PostMoves

LEMMA AnswerPostInv ==
  ASSUME RegInv, NEW r \in Posts, AnswerPost(r)
  PROVE  RegInv'
<1>0. PICK p, u : p = request[r] /\ u = p.user
  OBVIOUS
<1>1. request[r] # NoRequest /\ p.op \in Either /\ p.pc = "answer"
  BY <1>0 DEF AnswerPost, Is
<1>2. /\ r \in AtWork(u) /\ u \in Users
      /\ (p.op = "signup" => DetailOf(u, p))
  BY <1>0, <1>1, PostFields
<1>3. u \in steady => HasOne(u)
  <2>1. CASE p.op = "signup"
    BY <1>1, <1>2, <2>1 DEF DetailOf, HasOne, Current
  <2>2. CASE p.op = "university"
    BY <1>0, <1>1, <1>2, <2>2 DEF RegInv, SignupInv, Steady
  <2>. QED  BY <1>1, <2>1, <2>2 DEF Either
<1>. QED  BY <1>0, <1>1, <1>3, PostEnds DEF AnswerPost, universityVars

LEMMA RequestFailsInv ==
  ASSUME RegInv, NEW r \in Posts, RequestFails(r)
  PROVE  RegInv'
BY PostEnds DEF RequestFails

LEMMA AuthenticateInv ==
  ASSUME RegInv, NEW d \in Details, Authenticate(d)
  PROVE  RegInv'
<1>1. /\ UNCHANGED <<imageVars, signupVars, owner, removed, universityDetailId, steady>>
      /\ UNCHANGED <<member, created, request, unsent, saved>>
      /\ authenticated' = [authenticated EXCEPT ![d] = TRUE]
  BY DEF Authenticate, signupVars
<1>2. /\ ImageInv' /\ Newcomers'
      /\ \A v : /\ Busy(v)' = Busy(v) /\ Main(v)' = Main(v)
                /\ Filed(v)' = Filed(v) /\ (MainOnItsWay(v)' <=> MainOnItsWay(v))
  BY <1>1, FilesKept
<1>3. SignupTypeOK' /\ Owners'
  BY <1>1, <1>2 DEF RegInv, SignupInv, SignupTypeOK, ImageInv, ImageShape, Owners
<1>4. \A v : Current(v)' = Current(v) /\ AtWork(v)' = AtWork(v) /\ (HasOne(v)' <=> HasOne(v))
  BY <1>1 DEF Current, AtWork, HasOne
<1>5. Signups'
  BY <1>1, <1>2, <1>4 DEF RegInv, SignupInv, Signups, FilesOf, DetailOf
<1>6. Steady'
  BY <1>1, <1>4 DEF RegInv, SignupInv, Steady
<1>. QED  BY <1>2, <1>3, <1>5, <1>6 DEF RegInv, SignupInv

\* A request begins: the user has none, or none that is a signup.
LEMMA Begun ==
  ASSUME RegInv, NEW r \in Posts, NEW op \in Either, NEW u \in Users, NEW n \in 0 .. Limit,
         BeginPost(r, op, u, n)
  PROVE  \E q \in Post :
           /\ q.op = op /\ q.user = u /\ q.files = n /\ q # NoRequest
           /\ q.pc = IF op = "signup" THEN "count" ELSE "remove"
           /\ request' \in [Posts -> Post \cup {NoRequest}]
           /\ request'[r] = q /\ \A k \in Posts \ {r} : request'[k] = request[k]
           /\ AtWork(u)' = AtWork(u) \cup {r} /\ r \notin AtWork(u)
           /\ \A v : v # u => AtWork(v)' = AtWork(v)
           /\ \A v : \A k \in AtWork(v) : request'[k] = request[k]
<1> DEFINE q == [op |-> op, pc |-> IF op = "signup" THEN "count" ELSE "remove",
                 user |-> u, files |-> n, exists |-> FALSE, detail |-> Null]
<1>1. q \in Post /\ q # NoRequest
  BY DEF Post, Either, NoRequest
<1>2. request' = [request EXCEPT ![r] = q] /\ request[r] = NoRequest
  BY DEF BeginPost
<1>3. /\ q.op = op /\ q.user = u /\ q.files = n
      /\ q.pc = IF op = "signup" THEN "count" ELSE "remove"
  OBVIOUS
<1> HIDE DEF q
<1>4. /\ request' \in [Posts -> Post \cup {NoRequest}]
      /\ request'[r] = q /\ \A k \in Posts \ {r} : request'[k] = request[k]
  BY <1>1, <1>2 DEF RegInv, SignupInv, SignupTypeOK
<1>5. /\ AtWork(u)' = AtWork(u) \cup {r} /\ r \notin AtWork(u)
      /\ \A v : v # u => AtWork(v)' = AtWork(v)
      /\ \A v : \A k \in AtWork(v) : request'[k] = request[k]
  BY <1>1, <1>2, <1>3, <1>4 DEF AtWork
<1>. QED  BY <1>1, <1>3, <1>4, <1>5

LEMMA RegisterUniversityInv ==
  ASSUME RegInv, NEW r \in Posts, NEW u \in Users, RegisterUniversity(r, u)
  PROVE  RegInv'
<1>1. /\ u \in created /\ ~SigningUp(u) /\ BeginPost(r, "university", u, 0)
      /\ steady' = (IF AtWork(u) = {} THEN steady ELSE steady \ {u})
      /\ UNCHANGED <<imageVars, owner, removed, authenticated, universityDetailId,
                     member, created, unsent, saved>>
  BY DEF RegisterUniversity, BeginPost
<1>2. "university" \in Either /\ 0 \in 0 .. Limit
  BY LimitAssumption DEF Either
<1>3. PICK q \in Post :
           /\ q.op = "university" /\ q.user = u /\ q # NoRequest /\ q.pc = "remove"
           /\ request' \in [Posts -> Post \cup {NoRequest}]
           /\ request'[r] = q /\ \A k \in Posts \ {r} : request'[k] = request[k]
           /\ AtWork(u)' = AtWork(u) \cup {r} /\ r \notin AtWork(u)
           /\ \A v : v # u => AtWork(v)' = AtWork(v)
           /\ \A v : \A k \in AtWork(v) : request'[k] = request[k]
  BY <1>1, <1>2, Begun
<1>4. /\ ImageInv' /\ Newcomers'
      /\ \A v : /\ Busy(v)' = Busy(v) /\ Main(v)' = Main(v)
                /\ Filed(v)' = Filed(v) /\ (MainOnItsWay(v)' <=> MainOnItsWay(v))
  BY <1>1, FilesKept
<1>5. SignupTypeOK' /\ Owners'
  BY <1>1, <1>3, <1>4 DEF RegInv, SignupInv, SignupTypeOK, ImageInv, ImageShape, Owners
<1>6. \A v : Current(v)' = Current(v) /\ (HasOne(v)' <=> HasOne(v))
  BY <1>1 DEF Current, HasOne
<1>7. Signups'
  <2>. SUFFICES ASSUME NEW v \in Users, NEW k \in AtWork(v)'
                PROVE  /\ v \in created
                       /\ request'[k].op = "signup" =>
                             /\ request'[k].pc # "remove" /\ AtWork(v)' = {k}
                             /\ FilesOf(v, request[k])' /\ DetailOf(v, request[k])'
                       /\ request'[k].op = "university" =>
                             request'[k].pc \in {"remove", "count", "write", "answer"}
    BY <1>1 DEF Signups
  <2>1. CASE k \notin AtWork(v)
    BY <1>1, <1>3, <2>1
  <2>2. CASE k \in AtWork(v)
    <3>1. request'[k] = request[k]
      BY <1>3, <2>2
    <3>2. ASSUME request[k].op = "signup"
          PROVE  v # u /\ FilesOf(v, request[k])' /\ DetailOf(v, request[k])'
      <4>1. v # u /\ FilesOf(v, request[k]) /\ DetailOf(v, request[k])
        BY <1>1, <2>2, <3>2 DEF RegInv, SignupInv, Signups, SigningUp
      <4>. QED  BY <1>1, <1>4, <1>6, <3>1, <4>1 DEF FilesOf, DetailOf
    <3>. QED  BY <1>3, <2>2, <3>1, <3>2 DEF RegInv, SignupInv, Signups
  <2>. QED  BY <2>1, <2>2
<1>8. Steady'
  <2>. SUFFICES ASSUME NEW v \in steady'
                PROVE  /\ \A k, h \in AtWork(v)' : k = h
                       /\ AtWork(v)' = {} => HasOne(v) \/ \A d \in Details : owner[d] # v
                       /\ \A k \in AtWork(v)' : request'[k].op = "university" =>
                             /\ request'[k].pc \in {"count", "write"} => Current(v) = {}
                             /\ request'[k].pc = "write" => ~request'[k].exists
                             /\ request'[k].pc = "answer" => HasOne(v)
    BY <1>1, <1>6 DEF Steady
  <2>1. v \in steady /\ (v = u => AtWork(u) = {})
    BY <1>1
  <2>2. CASE v = u
    BY <1>3, <2>1, <2>2
  <2>3. CASE v # u
    BY <1>3, <2>1, <2>3 DEF RegInv, SignupInv, Steady
  <2>. QED  BY <2>2, <2>3
<1>. QED  BY <1>4, <1>5, <1>7, <1>8 DEF RegInv, SignupInv

LEMMA CreateUserInv ==
  ASSUME RegInv, NEW r \in Posts, NEW u \in Users, NEW n \in 1 .. Limit, CreateUser(r, u, n)
  PROVE  RegInv'
<1>1. /\ u \notin created \cup member /\ BeginPost(r, "signup", u, n)
      /\ created' = created \cup {u}
      /\ UNCHANGED <<imageVars, owner, removed, authenticated, universityDetailId,
                     member, unsent, saved, steady>>
  BY DEF CreateUser, BeginPost
<1>2. "signup" \in Either /\ n \in 0 .. Limit /\ n > 0 /\ n <= Limit
  BY LimitAssumption DEF Either
<1>3. PICK q \in Post :
           /\ q.op = "signup" /\ q.user = u /\ q.files = n /\ q # NoRequest /\ q.pc = "count"
           /\ request' \in [Posts -> Post \cup {NoRequest}]
           /\ request'[r] = q /\ \A k \in Posts \ {r} : request'[k] = request[k]
           /\ AtWork(u)' = AtWork(u) \cup {r} /\ r \notin AtWork(u)
           /\ \A v : v # u => AtWork(v)' = AtWork(v)
           /\ \A v : \A k \in AtWork(v) : request'[k] = request[k]
  BY <1>1, <1>2, Begun
<1>4. /\ ImageInv'
      /\ \A v : /\ Busy(v)' = Busy(v) /\ Main(v)' = Main(v) /\ Rows(v)' = Rows(v)
  BY <1>1, ImagesKept DEF RegInv
<1>4a. UNCHANGED <<profile, isMain, imageOrder, deleted, job, apart, calm, careful>>
  BY <1>1 DEF imageVars, imageRows, histories
<1>5. \A v : Filed(v)' = Filed(v) /\ (MainOnItsWay(v)' <=> MainOnItsWay(v))
  BY <1>1, <1>4, <1>4a DEF Filed, MainOnItsWay
<1>6. /\ u \in calm \cap careful /\ Rows(u) = {} /\ Busy(u) = {} /\ unsent[u] = {} /\ saved[u] = 0
      /\ AtWork(u) = {} /\ \A d \in Details : owner[d] # u
  <2>1. u # Null
    BY UsersAssumption
  <2>. QED  BY <1>1, <2>1 DEF RegInv, SignupInv, Newcomers, Signups, Owners
<1>7. SignupTypeOK'
  BY <1>1, <1>3, <1>4 DEF RegInv, SignupInv, SignupTypeOK, ImageInv, ImageShape
<1>8. Owners'
  BY <1>1 DEF RegInv, SignupInv, Owners
<1>9. \A v : Current(v)' = Current(v) /\ (HasOne(v)' <=> HasOne(v))
  BY <1>1 DEF Current, HasOne
<1>10. Newcomers'
  <2>1. Cardinality({}) = 0 /\ 0 <= Limit
    BY FS_EmptySet, LimitAssumption
  <2>2. Filed(u) = 0 /\ ~MainOnItsWay(u)
    BY <1>6, <2>1 DEF Filed, MainOnItsWay
  <2>3. \A v \in created : v \in Users
    BY DEF RegInv, SignupInv, SignupTypeOK
  <2>4. ASSUME NEW v \in created'
        PROVE  /\ v \in calm \cap careful
               /\ \A j \in Busy(v) : Saving(j)
               /\ \A i \in Rows(v) : ~deleted[i]
               /\ saved[v] = Cardinality(Rows(v))
               /\ Filed(v) <= Limit
               /\ 1 \in unsent[v] => \A j \in Busy(v) : ~job[j].asMain
               /\ MainOnItsWay(v) => Main(v) = {}
    <3>1. CASE v = u
      BY <1>6, <2>1, <2>2, <3>1
    <3>2. CASE v # u
      BY <1>1, <2>4, <3>2 DEF RegInv, SignupInv, Newcomers
    <3>. QED  BY <3>1, <3>2
  <2>5. \A v \in Users \ created' : unsent[v] = {} /\ saved[v] = 0
    BY <1>1 DEF RegInv, SignupInv, Newcomers
  <2>6. created' \cap member = {}
    BY <1>1 DEF RegInv, SignupInv, Newcomers
  <2>7. \A v \in Users \ (created' \cup member) :
           v \in calm \cap careful /\ Rows(v) = {} /\ Busy(v) = {}
    BY <1>1 DEF RegInv, SignupInv, Newcomers
  <2>. QED  BY <1>1, <1>4, <1>4a, <1>5, <2>4, <2>5, <2>6, <2>7 DEF Newcomers, Saving
<1>11. Signups'
  <2>. SUFFICES ASSUME NEW v \in Users, NEW k \in AtWork(v)'
                PROVE  /\ v \in created'
                       /\ request'[k].op = "signup" =>
                             /\ request'[k].pc # "remove" /\ AtWork(v)' = {k}
                             /\ FilesOf(v, request[k])' /\ DetailOf(v, request[k])'
                       /\ request'[k].op = "university" =>
                             request'[k].pc \in {"remove", "count", "write", "answer"}
    BY DEF Signups
  <2>1. CASE v = u
    <3>1. k = r /\ AtWork(v)' = {k} /\ request'[k] = q
      BY <1>3, <1>6, <2>1
    <3>2. FilesOf(v, request[k])'
      BY <1>1, <1>2, <1>3, <1>4, <1>6, <2>1, <3>1 DEF FilesOf
    <3>3. DetailOf(v, request[k])'
      BY <1>1, <1>3, <1>6, <2>1, <3>1 DEF DetailOf
    <3>. QED  BY <1>1, <1>3, <2>1, <3>1, <3>2, <3>3
  <2>2. CASE v # u
    <3>1. k \in AtWork(v) /\ request'[k] = request[k] /\ AtWork(v)' = AtWork(v)
      BY <1>3, <2>2
    <3>2. ASSUME request[k].op = "signup"
          PROVE  FilesOf(v, request[k])' /\ DetailOf(v, request[k])'
      <4>1. FilesOf(v, request[k]) /\ DetailOf(v, request[k])
        BY <3>1, <3>2 DEF RegInv, SignupInv, Signups
      <4>. QED  BY <1>1, <1>4, <1>5, <1>9, <3>1, <4>1 DEF FilesOf, DetailOf
    <3>. QED  BY <1>1, <3>1, <3>2 DEF RegInv, SignupInv, Signups
  <2>. QED  BY <2>1, <2>2
<1>12. Steady'
  <2>. SUFFICES ASSUME NEW v \in steady
                PROVE  /\ \A k, h \in AtWork(v)' : k = h
                       /\ AtWork(v)' = {} => HasOne(v) \/ \A d \in Details : owner[d] # v
                       /\ \A k \in AtWork(v)' : request'[k].op = "university" =>
                             /\ request'[k].pc \in {"count", "write"} => Current(v) = {}
                             /\ request'[k].pc = "write" => ~request'[k].exists
                             /\ request'[k].pc = "answer" => HasOne(v)
    BY <1>1, <1>9 DEF Steady
  <2>1. CASE v = u
    BY <1>3, <1>6, <2>1
  <2>2. CASE v # u
    BY <1>3, <2>2 DEF RegInv, SignupInv, Steady
  <2>. QED  BY <2>1, <2>2
<1>. QED  BY <1>4, <1>7, <1>8, <1>10, <1>11, <1>12 DEF RegInv, SignupInv

-----------------------------------------------------------------------------
(* The steps of the images. *)

\* Images other than those of who has signed up here are not seen by a signup.
LEMMA ImagesMove ==
  ASSUME RegInv, ImageInv', UNCHANGED <<universityVars, signupVars>>,
         \A u \in created :
            /\ u \in calm' \cap careful'
            /\ Busy(u)' = Busy(u) /\ Main(u)' = Main(u) /\ Rows(u)' = Rows(u)
            /\ \A i \in Rows(u) : deleted'[i] = deleted[i]
            /\ \A j \in Busy(u) : job'[j].kind = "save" /\ job'[j].asMain = job[j].asMain,
         \A u \in Users \ (created \cup member) :
            u \in calm' \cap careful' /\ Rows(u)' = {} /\ Busy(u)' = {}
  PROVE  RegInv'
<1>1. /\ UNCHANGED <<owner, removed, authenticated, universityDetailId, steady>>
      /\ UNCHANGED <<member, created, request, unsent, saved>>
  BY DEF universityVars, signupVars
<1>2. \A u \in created : Filed(u)' = Filed(u) /\ (MainOnItsWay(u)' <=> MainOnItsWay(u))
  BY <1>1 DEF Filed, MainOnItsWay
<1>3. SignupTypeOK' /\ Owners'
  BY <1>1 DEF RegInv, SignupInv, SignupTypeOK, ImageInv, ImageShape, Owners
<1>4. \A v : Current(v)' = Current(v) /\ AtWork(v)' = AtWork(v) /\ (HasOne(v)' <=> HasOne(v))
  BY <1>1 DEF Current, AtWork, HasOne
<1>5. Newcomers'
  <2>1. \A u \in created :
               /\ u \in calm' \cap careful'
               /\ \A j \in Busy(u)' : Saving(j)'
               /\ \A i \in Rows(u)' : ~deleted'[i]
               /\ saved'[u] = Cardinality(Rows(u))'
               /\ Filed(u)' <= Limit
               /\ 1 \in unsent'[u] => \A j \in Busy(u)' : ~job'[j].asMain
               /\ MainOnItsWay(u)' => Main(u)' = {}
    BY <1>1, <1>2 DEF RegInv, SignupInv, Newcomers, Saving
  <2>2. \A u \in Users \ (created \cup member) :
            u \in calm' \cap careful' /\ Rows(u)' = {} /\ Busy(u)' = {}
    OBVIOUS
  <2>. QED  BY <1>1, <2>1, <2>2 DEF RegInv, SignupInv, Newcomers
<1>6. Signups'
  <2>. SUFFICES ASSUME NEW v \in Users, NEW k \in AtWork(v)
                PROVE  /\ v \in created
                       /\ request[k].op = "signup" =>
                             /\ request[k].pc # "remove" /\ AtWork(v) = {k}
                             /\ FilesOf(v, request[k])' /\ DetailOf(v, request[k])'
                       /\ request[k].op = "university" =>
                             request[k].pc \in {"remove", "count", "write", "answer"}
    BY <1>1, <1>4 DEF Signups
  <2>1. v \in created
    BY DEF RegInv, SignupInv, Signups
  <2>2. ASSUME request[k].op = "signup"
        PROVE  FilesOf(v, request[k])' /\ DetailOf(v, request[k])'
    <3>1. FilesOf(v, request[k]) /\ DetailOf(v, request[k])
      BY <2>2 DEF RegInv, SignupInv, Signups
    <3>2. FilesOf(v, request[k])'
      BY <1>1, <1>2, <2>1, <3>1 DEF FilesOf
    <3>3. DetailOf(v, request[k])'
      BY <1>1, <1>4, <3>1 DEF DetailOf
    <3>. QED  BY <3>2, <3>3
  <2>. QED  BY <2>1, <2>2 DEF RegInv, SignupInv, Signups
<1>7. Steady'
  BY <1>1, <1>4 DEF RegInv, SignupInv, Steady
<1>. QED  BY <1>3, <1>5, <1>6, <1>7 DEF RegInv, SignupInv

\* Whose job it is: of one who signs up here it saves an image.
LEMMA JobOwner ==
  ASSUME RegInv, NEW j \in Jobs, job[j] # NoJob, NEW u, u = job[j].user
  PROVE  /\ u \in Users /\ j \in Busy(u) /\ u \in created \cup member
         /\ u \in created => Saving(j)
<1>1. u \in Users /\ j \in Busy(u)
  BY Fields DEF RegInv
<1>. QED  BY <1>1 DEF RegInv, SignupInv, Newcomers

LEMMA ImageStepInv ==
  ASSUME RegInv, NEW j \in Jobs, ImageStep(j)
  PROVE  RegInv'
<1>0. ImageInv /\ UNCHANGED <<universityVars, signupVars>>
  BY DEF ImageStep, RegInv
<1>1. \A v \in created : v \in Users /\ v \in calm \cap careful /\ \A k \in Busy(v) : Saving(k)
  BY DEF RegInv, SignupInv, Newcomers, SignupTypeOK
<1>2. \A v \in Users \ (created \cup member) :
         v \in calm \cap careful /\ Rows(v) = {} /\ Busy(v) = {}
  BY DEF RegInv, SignupInv, Newcomers
<1>3. CASE Moves(j)
  <2>1. /\ ImageInv' /\ job[j] # NoJob /\ UNCHANGED <<imageRows, histories>>
    BY <1>0, <1>3, MovesInv
  <2>2. PICK b : Onward(j, b)
    BY <1>0, <1>3, MovesInv
  <2>3. b # NoJob /\ job \in [Jobs -> Job \cup {NoJob}] /\ job[j] \in Job
    <3>1. b \in Job /\ job[j] \in Job
      BY <1>0, <2>1, <2>2, Fields DEF Onward
    <3>2. b # NoJob
      BY <3>1 DEF Job, NoJob
    <3>. QED  BY <1>0, <3>1, <3>2 DEF ImageInv, ImageShape, ImagesTypeOK
  <2>4. /\ job'[j] = b /\ \A k \in Jobs \ {j} : job'[k] = job[k]
        /\ b.user = job[j].user /\ b.kind = job[j].kind
        /\ (b.kind = "save" => b.asMain = job[j].asMain)
    BY <2>2, <2>3 DEF Onward
  <2>5. \A v : Busy(v)' = Busy(v) /\ Rows(v)' = Rows(v) /\ Main(v)' = Main(v)
    BY <2>1, <2>3, <2>4, SameImages DEF Busy
  <2>6. deleted' = deleted /\ calm' = calm /\ careful' = careful
    BY <2>1 DEF imageRows, histories
  <2>7. \A v \in created : \A k \in Busy(v) :
           job'[k].kind = "save" /\ job'[k].asMain = job[k].asMain
    BY <1>1, <2>4 DEF Saving, Busy
  <2>8. \A v \in created :
            /\ v \in calm' \cap careful'
            /\ Busy(v)' = Busy(v) /\ Main(v)' = Main(v) /\ Rows(v)' = Rows(v)
            /\ \A i \in Rows(v) : deleted'[i] = deleted[i]
            /\ \A k \in Busy(v) : job'[k].kind = "save" /\ job'[k].asMain = job[k].asMain
    BY <1>1, <2>5, <2>6, <2>7
  <2>9. \A v \in Users \ (created \cup member) :
            v \in calm' \cap careful' /\ Rows(v)' = {} /\ Busy(v)' = {}
    BY <1>2, <2>5, <2>6
  <2>. QED  BY <1>0, <2>1, <2>8, <2>9, ImagesMove
<1>4. CASE CommitDelete(j) \/ CommitMain(j)
  <2>0. PICK u : u = job[j].user
    OBVIOUS
  <2>1. job[j] # NoJob /\ job' = [job EXCEPT ![j] = NoJob] /\ UNCHANGED histories
    BY <1>4 DEF CommitDelete, CommitMain, At
  <2>2. /\ ImageInv' /\ ~Saving(j) /\ j \in Busy(u)
        /\ \A v : Rows(v)' = Rows(v)
        /\ \A v \in Users \ {u} : /\ Busy(v)' = Busy(v) /\ Main(v)' = Main(v)
                                  /\ \A k \in Rows(v) : deleted'[k] = deleted[k]
    BY <1>0, <1>4, <2>0, CommitDeleteInv, CommitMainInv
  <2>3. u \notin created /\ u \in created \cup member
    BY <2>0, <2>1, <2>2, JobOwner
  <2>4. \A v \in created : \A k \in Busy(v) : job'[k] = job[k]
    BY <1>0, <2>0, <2>1, <2>3 DEF Busy, ImageInv, ImageShape, ImagesTypeOK
  <2>5. \A v \in created :
            /\ v \in calm' \cap careful'
            /\ Busy(v)' = Busy(v) /\ Main(v)' = Main(v) /\ Rows(v)' = Rows(v)
            /\ \A i \in Rows(v) : deleted'[i] = deleted[i]
            /\ \A k \in Busy(v) : job'[k].kind = "save" /\ job'[k].asMain = job[k].asMain
    BY <1>1, <2>1, <2>2, <2>3, <2>4 DEF Saving, histories
  <2>6. \A v \in Users \ (created \cup member) :
            v \in calm' \cap careful' /\ Rows(v)' = {} /\ Busy(v)' = {}
    BY <1>2, <2>1, <2>2, <2>3 DEF histories
  <2>. QED  BY <1>0, <2>2, <2>5, <2>6, ImagesMove
<1>5. ASSUME NEW u \in member, Ask(j, u)
      PROVE  RegInv'
  <2>1. u \in Users /\ u \notin created
    BY DEF RegInv, SignupInv, SignupTypeOK, Newcomers
  <2>2. PICK kind \in Kinds, i \in Images \cup {Null}, asMain \in BOOLEAN :
           /\ Start(j, kind, u, i, asMain)
           /\ (kind = "save" => i = Null)
           /\ (kind # "save" => i \in Rows(u))
    BY <1>5 DEF Ask, UploadProfileImage, DeleteProfileImage, SetMainProfileImage, Rows, Kinds
  <2>3. /\ ImageInv'
        /\ \A v : v # u => Busy(v)' = Busy(v)
    BY <1>0, <2>1, <2>2, StartInv
  <2>4. /\ UNCHANGED imageRows /\ job[j] = NoJob
        /\ calm \ {u} \subseteq calm' /\ careful \ {u} \subseteq careful'
        /\ \A k \in Jobs \ {j} : job'[k] = job[k]
    BY <1>0, <2>2 DEF Start, ImageInv, ImageShape, ImagesTypeOK
  <2>5. \A v : Rows(v)' = Rows(v) /\ Main(v)' = Main(v)
    BY <2>4, SameImages
  <2>6. deleted' = deleted
    BY <2>4 DEF imageRows
  <2>7. \A v \in created : \A k \in Busy(v) : job'[k] = job[k]
    BY <2>4 DEF Busy
  <2>8. \A v \in created :
            /\ v \in calm' \cap careful'
            /\ Busy(v)' = Busy(v) /\ Main(v)' = Main(v) /\ Rows(v)' = Rows(v)
            /\ \A k \in Rows(v) : deleted'[k] = deleted[k]
            /\ \A k \in Busy(v) : job'[k].kind = "save" /\ job'[k].asMain = job[k].asMain
    BY <1>1, <2>1, <2>3, <2>4, <2>5, <2>6, <2>7 DEF Saving
  <2>9. \A v \in Users \ (created \cup member) :
            v \in calm' \cap careful' /\ Rows(v)' = {} /\ Busy(v)' = {}
    BY <1>2, <2>3, <2>4, <2>5
  <2>. QED  BY <1>0, <2>3, <2>8, <2>9, ImagesMove
<1>. QED  BY <1>3, <1>4, <1>5 DEF ImageStep, Statement, Moves

\* What is known of the images of one who signs up here.
OwnFiles(u) ==
    /\ u \in calm \cap careful
    /\ \A j \in Busy(u) : Saving(j)
    /\ \A i \in Rows(u) : ~deleted[i]
    /\ saved[u] = Cardinality(Rows(u))
    /\ Filed(u) <= Limit
    /\ 1 \in unsent[u] => \A j \in Busy(u) : ~job[j].asMain
    /\ MainOnItsWay(u) => Main(u) = {}

\* A step of the files of one user, with the requests it takes along.
LEMMA FilesMove ==
  ASSUME RegInv, NEW u \in created, ImageInv',
         UNCHANGED <<universityVars, member, created>>,
         request' \in [Posts -> Post \cup {NoRequest}],
         unsent' \in [Users -> SUBSET (1 .. Limit)], saved' \in [Users -> 0 .. Limit],
         \A v \in Users \ {u} :
            /\ AtWork(v)' = AtWork(v) /\ unsent'[v] = unsent[v] /\ saved'[v] = saved[v]
            /\ Busy(v)' = Busy(v) /\ Main(v)' = Main(v) /\ Rows(v)' = Rows(v)
            /\ \A k \in Busy(v) : job'[k] = job[k]
            /\ \A i \in Rows(v) : deleted'[i] = deleted[i]
            /\ v \in calm \cap careful => v \in calm' \cap careful',
         AtWork(u)' \subseteq AtWork(u),
         \A v \in Users : \A r \in AtWork(v)' : request'[r] = request[r],
         \A r \in AtWork(u)' : request[r].op = "signup" => FilesOf(u, request[r])',
         u \in steady /\ AtWork(u)' = {} => AtWork(u) = {} \/ HasOne(u),
         OwnFiles(u)'
  PROVE  RegInv'
<1>1. UNCHANGED <<owner, removed, authenticated, universityDetailId, steady>>
  BY DEF universityVars
<1>2. SignupTypeOK' /\ Owners'
  BY <1>1 DEF RegInv, SignupInv, SignupTypeOK, ImageInv, ImageShape, Owners
<1>3. \A v : Current(v)' = Current(v) /\ (HasOne(v)' <=> HasOne(v))
  BY <1>1 DEF Current, HasOne
<1>4. \A v \in Users \ {u} : Filed(v)' = Filed(v) /\ (MainOnItsWay(v)' <=> MainOnItsWay(v))
  <2>. SUFFICES ASSUME NEW v \in Users \ {u}
                PROVE  Filed(v)' = Filed(v) /\ (MainOnItsWay(v)' <=> MainOnItsWay(v))
    OBVIOUS
  <2>1. Filed(v)' = Filed(v)
    BY DEF Filed
  <2>2. MainOnItsWay(v)' <=> MainOnItsWay(v)
    BY DEF MainOnItsWay
  <2>. QED  BY <2>1, <2>2
<1>5. created \subseteq Users
  BY DEF RegInv, SignupInv, SignupTypeOK
<1>6. Newcomers'
  <2>1. \A v \in created \ {u} : OwnFiles(v)
    BY DEF RegInv, SignupInv, Newcomers, OwnFiles
  <2>2. \A v \in created \ {u} : OwnFiles(v)'
    BY <1>4, <1>5, <2>1 DEF OwnFiles, Saving
  <2>3. \A v \in created' : OwnFiles(v)'
    BY <2>2
  <2>4. \A v \in Users \ created : unsent'[v] = {} /\ saved'[v] = 0
    BY DEF RegInv, SignupInv, Newcomers
  <2>5. \A v \in Users \ (created \cup member) :
          v \in calm' \cap careful' /\ Rows(v)' = {} /\ Busy(v)' = {}
    BY DEF RegInv, SignupInv, Newcomers
  <2>6. created \cap member = {}
    BY DEF RegInv, SignupInv, Newcomers
  <2>. QED  BY <2>3, <2>4, <2>5, <2>6 DEF Newcomers, OwnFiles
<1>7. Signups'
  <2>. SUFFICES ASSUME NEW v \in Users, NEW k \in AtWork(v)'
                PROVE  /\ v \in created
                       /\ request'[k].op = "signup" =>
                             /\ request'[k].pc # "remove" /\ AtWork(v)' = {k}
                             /\ FilesOf(v, request[k])' /\ DetailOf(v, request[k])'
                       /\ request'[k].op = "university" =>
                             request'[k].pc \in {"remove", "count", "write", "answer"}
    BY DEF Signups
  <2>1. k \in AtWork(v) /\ request'[k] = request[k]
    OBVIOUS
  <2>2. ASSUME request[k].op = "signup"
        PROVE  /\ request[k].pc # "remove" /\ AtWork(v)' = {k}
               /\ FilesOf(v, request[k])' /\ DetailOf(v, request[k])'
    <3>1. /\ FilesOf(v, request[k]) /\ DetailOf(v, request[k]) /\ request[k].pc # "remove"
          /\ AtWork(v) = {k}
      BY <2>1, <2>2 DEF RegInv, SignupInv, Signups
    <3>2. DetailOf(v, request[k])'
      BY <1>1, <1>3, <2>1, <3>1 DEF DetailOf
    <3>3. CASE v = u
      BY <2>1, <2>2, <3>1, <3>2, <3>3
    <3>4. CASE v # u
      <4>1. FilesOf(v, request[k])'
        BY <1>4, <2>1, <3>1, <3>4 DEF FilesOf
      <4>. QED  BY <3>1, <3>2, <3>4, <4>1
    <3>. QED  BY <3>3, <3>4
  <2>. QED  BY <2>1, <2>2 DEF RegInv, SignupInv, Signups
<1>8. Steady'
  <2>. SUFFICES ASSUME NEW v \in steady
                PROVE  /\ \A k, h \in AtWork(v)' : k = h
                       /\ AtWork(v)' = {} => HasOne(v) \/ \A d \in Details : owner[d] # v
                       /\ \A k \in AtWork(v)' : request'[k].op = "university" =>
                             /\ request'[k].pc \in {"count", "write"} => Current(v) = {}
                             /\ request'[k].pc = "write" => ~request'[k].exists
                             /\ request'[k].pc = "answer" => HasOne(v)
    BY <1>1, <1>3 DEF Steady
  <2>1. v \in Users
    BY DEF RegInv, SignupInv, SignupTypeOK
  <2>2. AtWork(v)' \subseteq AtWork(v) /\ (AtWork(v)' = {} => AtWork(v) = {} \/ HasOne(v))
    BY <2>1
  <2>. QED  BY <2>1, <2>2 DEF RegInv, SignupInv, Steady
<1>. QED  BY <1>2, <1>6, <1>7, <1>8 DEF RegInv, SignupInv

\* What is known of one who has signed up here.
LEMMA Own ==
  ASSUME RegInv, NEW u \in created
  PROVE  /\ OwnFiles(u) /\ u \in Users /\ u \notin member
         /\ IsFiniteSet(unsent[u]) /\ unsent[u] \in SUBSET (1 .. Limit)
         /\ saved[u] \in Nat
         /\ \A r \in AtWork(u) : request[r].op = "signup" =>
              FilesOf(u, request[r]) /\ DetailOf(u, request[r]) /\ request[r] \in Post
<1>1. u \in Users /\ unsent[u] \in SUBSET (1 .. Limit) /\ saved[u] \in Nat
  BY LimitAssumption DEF RegInv, SignupInv, SignupTypeOK
<1>2. IsFiniteSet(unsent[u])
  <2>1. IsFiniteSet(1 .. Limit)
    BY LimitAssumption, FS_Interval
  <2>. QED  BY <1>1, <2>1, FS_Subset
<1>3. OwnFiles(u) /\ u \notin member
  BY <1>1 DEF RegInv, SignupInv, Newcomers, OwnFiles
<1>4. \A r \in AtWork(u) : request[r] \in Post
  BY DEF RegInv, SignupInv, SignupTypeOK, AtWork
<1>. QED  BY <1>1, <1>2, <1>3, <1>4 DEF RegInv, SignupInv, Signups

LEMMA BusyFinite ==
  ASSUME NEW u
  PROVE  IsFiniteSet(Busy(u)) /\ Cardinality(Busy(u)) \in Nat
<1>1. IsFiniteSet(Busy(u))
  BY JobsAssumption, FS_Subset DEF Busy
<1>. QED  BY <1>1, FS_CardinalityType

LEMMA UploadedInv ==
  ASSUME RegInv, NEW j \in Jobs, NEW u \in Users, NEW f \in unsent[u], Uploaded(j, u, f)
  PROVE  RegInv'
<1>1. u \in created
  BY DEF RegInv, SignupInv, Newcomers
<1>2. PICK asMain \in BOOLEAN : asMain = (f = 1)
  OBVIOUS
<1>3. /\ unsent' = [unsent EXCEPT ![u] = @ \ {f}]
      /\ Start(j, "save", u, Null, asMain)
      /\ UNCHANGED <<universityVars, member, created, request, saved>>
  BY <1>2 DEF Uploaded
<1>4. /\ ImageInv' /\ Busy(u)' = Busy(u) \cup {j} /\ j \notin Busy(u)
      /\ \A v : v # u => Busy(v)' = Busy(v)
  BY <1>3, StartInv DEF RegInv, Kinds
<1>5. /\ UNCHANGED imageRows
      /\ job'[j].kind = "save" /\ job'[j].asMain = asMain
      /\ \A k \in Jobs \ {j} : job'[k] = job[k]
      /\ calm' = (IF \E k \in Busy(u) : Conflict(k, "save", asMain) THEN calm \ {u} ELSE calm)
      /\ careful' = careful
  BY <1>3, ImagesAssumption DEF Start, RegInv, ImageInv, ImageShape, ImagesTypeOK
<1>6. \A v : Rows(v)' = Rows(v) /\ Main(v)' = Main(v)
  BY <1>5, SameImages
<1>7. /\ OwnFiles(u) /\ IsFiniteSet(unsent[u]) /\ saved[u] \in Nat
      /\ unsent[u] \in SUBSET (1 .. Limit)
      /\ \A r \in AtWork(u) : request[r].op = "signup" =>
            FilesOf(u, request[r]) /\ request[r] \in Post
  BY <1>1, Own
<1>8. /\ unsent'[u] = unsent[u] \ {f}
      /\ \A v \in Users \ {u} : unsent'[v] = unsent[v]
      /\ unsent' \in [Users -> SUBSET (1 .. Limit)]
  BY <1>3 DEF RegInv, SignupInv, SignupTypeOK
<1>9. Filed(u)' = Filed(u)
  <2>1. Cardinality(unsent'[u]) = Cardinality(unsent[u]) - 1 /\ Cardinality(unsent[u]) \in Nat
    <3>1. f \in unsent[u] /\ IsFiniteSet(unsent[u]) /\ unsent'[u] = unsent[u] \ {f}
      BY <1>7, <1>8
    <3>2. Cardinality(unsent[u] \ {f}) = Cardinality(unsent[u]) - 1
      BY ONLY <3>1, FS_RemoveElement
    <3>. QED  BY <3>1, <3>2, FS_CardinalityType
  <2>2. Cardinality(Busy(u)') = Cardinality(Busy(u)) + 1 /\ Cardinality(Busy(u)) \in Nat
    BY <1>4, BusyFinite, FS_AddElement
  <2>. QED  BY <1>3, <1>7, <2>1, <2>2 DEF Filed
<1>10. \A k \in Busy(u) : k \in Jobs \ {j} /\ job'[k] = job[k] /\ Saving(k)
  BY <1>4, <1>5, <1>7 DEF Busy, OwnFiles
<1>11. f = 1 => \A k \in Busy(u) : ~job[k].asMain
  BY <1>7 DEF OwnFiles
<1>12. \A k \in Busy(u) : ~Conflict(k, "save", asMain)
  BY <1>2, <1>10, <1>11 DEF Conflict, ChoosesMain, Saving
<1>13. calm' = calm
  BY <1>5, <1>12
<1>14. MainOnItsWay(u)' <=> MainOnItsWay(u)
  <2>1. MainOnItsWay(u)' => MainOnItsWay(u)
    BY <1>2, <1>4, <1>5, <1>8, <1>10 DEF MainOnItsWay
  <2>2. MainOnItsWay(u) => MainOnItsWay(u)'
    BY <1>2, <1>4, <1>5, <1>8, <1>10 DEF MainOnItsWay
  <2>. QED  BY <2>1, <2>2
<1>15. OwnFiles(u)'
  <2>1. u \in calm' \cap careful'
    BY <1>5, <1>7, <1>13 DEF OwnFiles
  <2>2. \A k \in Busy(u)' : Saving(k)'
    BY <1>4, <1>5, <1>10 DEF Saving
  <2>3. \A i \in Rows(u)' : ~deleted'[i]
    BY <1>5, <1>6, <1>7 DEF OwnFiles, imageRows
  <2>4. saved'[u] = Cardinality(Rows(u))' /\ Filed(u)' <= Limit
    BY <1>3, <1>6, <1>7, <1>9 DEF OwnFiles
  <2>5. 1 \in unsent'[u] => \A k \in Busy(u)' : ~job'[k].asMain
    BY <1>2, <1>4, <1>5, <1>7, <1>8, <1>10 DEF OwnFiles
  <2>6. MainOnItsWay(u)' => Main(u)' = {}
    BY <1>6, <1>7, <1>14 DEF OwnFiles
  <2>. QED  BY <2>1, <2>2, <2>3, <2>4, <2>5, <2>6 DEF OwnFiles
<1>16. \A v : AtWork(v)' = AtWork(v)
  BY <1>3 DEF AtWork
<1>17. \A r \in AtWork(u)' : request[r].op = "signup" => FilesOf(u, request[r])'
  <2>. SUFFICES ASSUME NEW r \in AtWork(u), request[r].op = "signup"
                PROVE  FilesOf(u, request[r])'
    BY <1>16
  <2>1. FilesOf(u, request[r])
    BY <1>7
  <2>2. request'[r].pc \notin {"count", "write", "reference"}
    BY <1>3, <2>1 DEF FilesOf
  <2>. QED  BY <1>3, <1>6, <1>9, <1>14, <2>1, <2>2 DEF FilesOf
<1>18. \A v \in Users \ {u} :
            /\ AtWork(v)' = AtWork(v) /\ unsent'[v] = unsent[v] /\ saved'[v] = saved[v]
            /\ Busy(v)' = Busy(v) /\ Main(v)' = Main(v) /\ Rows(v)' = Rows(v)
            /\ \A k \in Busy(v) : job'[k] = job[k]
            /\ \A i \in Rows(v) : deleted'[i] = deleted[i]
            /\ v \in calm \cap careful => v \in calm' \cap careful'
  <2>1. \A v \in Users \ {u} : \A k \in Busy(v) : job'[k] = job[k]
    BY <1>3, <1>5 DEF Busy, Start
  <2>. QED  BY <1>3, <1>4, <1>5, <1>6, <1>8, <1>13, <1>16, <2>1 DEF imageRows
<1>19. /\ request' = request /\ request' \in [Posts -> Post \cup {NoRequest}]
       /\ saved' \in [Users -> 0 .. Limit]
       /\ UNCHANGED <<universityVars, member, created>>
  BY <1>3 DEF RegInv, SignupInv, SignupTypeOK
<1>. QED  BY <1>1, <1>4, <1>8, <1>15, <1>16, <1>17, <1>18, <1>19, FilesMove

LEMMA InsertStepInv ==
  ASSUME RegInv, NEW j \in Jobs, NEW i \in Images, Insert(j, i)
  PROVE  RegInv'
<1>0. PICK u : u = job[j].user
  OBVIOUS
<1>1. /\ InsertImage(j, i)
      /\ saved' = (IF u \in created THEN [saved EXCEPT ![u] = @ + 1] ELSE saved)
      /\ UNCHANGED <<universityVars, member, created, request, unsent>>
  BY <1>0 DEF Insert
<1>2. /\ ImageInv' /\ Saving(j) /\ j \in Busy(u)
      /\ Busy(u)' = Busy(u) \ {j}
      /\ Rows(u)' = Rows(u) \cup {i} /\ i \notin Rows(u) /\ ~deleted[i]
      /\ (job[j].asMain => (u \in calm \cap careful => Main(u)' = {i}))
      /\ (~job[j].asMain => Main(u)' = Main(u))
      /\ \A v \in Users \ {u} : /\ Rows(v)' = Rows(v) /\ Main(v)' = Main(v)
                                /\ Busy(v)' = Busy(v)
  BY <1>0, <1>1, InsertInv DEF RegInv
<1>3. /\ job[j] # NoJob /\ UNCHANGED <<deleted, histories>>
      /\ \A k \in Jobs \ {j} : job'[k] = job[k]
  BY <1>1 DEF InsertImage, At, RegInv, ImageInv, ImageShape, ImagesTypeOK
<1>4. u \in Users /\ u \in created \cup member
  BY <1>0, <1>3, JobOwner
<1>5. \A v : \A k \in Busy(v) : k # j => job'[k] = job[k]
  BY <1>3 DEF Busy
<1>6. calm' = calm /\ careful' = careful /\ deleted' = deleted
  BY <1>3 DEF histories
<1>7. \A v \in Users \ {u} : \A k \in Busy(v) : job'[k] = job[k]
  BY <1>0, <1>5 DEF Busy
<1>8. CASE u \notin created
  <2>1. UNCHANGED signupVars /\ UNCHANGED universityVars
    BY <1>1, <1>8 DEF signupVars
  <2>2. \A v \in created : v \in Users /\ v \in calm \cap careful /\ \A k \in Busy(v) : Saving(k)
    BY DEF RegInv, SignupInv, Newcomers, SignupTypeOK
  <2>3. \A v \in Users \ (created \cup member) :
           v \in calm \cap careful /\ Rows(v) = {} /\ Busy(v) = {}
    BY DEF RegInv, SignupInv, Newcomers
  <2>4. \A v \in created :
            /\ v \in calm' \cap careful'
            /\ Busy(v)' = Busy(v) /\ Main(v)' = Main(v) /\ Rows(v)' = Rows(v)
            /\ \A k \in Rows(v) : deleted'[k] = deleted[k]
            /\ \A k \in Busy(v) : job'[k].kind = "save" /\ job'[k].asMain = job[k].asMain
    BY <1>2, <1>6, <1>7, <1>8, <2>2 DEF Saving
  <2>5. \A v \in Users \ (created \cup member) :
            v \in calm' \cap careful' /\ Rows(v)' = {} /\ Busy(v)' = {}
    BY <1>2, <1>4, <1>6, <2>3
  <2>. QED  BY <1>2, <2>1, <2>4, <2>5, ImagesMove
<1>9. CASE u \in created
  <2>1. /\ OwnFiles(u) /\ IsFiniteSet(unsent[u]) /\ saved[u] \in Nat
        /\ unsent[u] \in SUBSET (1 .. Limit)
        /\ \A r \in AtWork(u) : request[r].op = "signup" =>
              FilesOf(u, request[r]) /\ request[r] \in Post
    BY <1>9, Own
  <2>2. /\ saved'[u] = saved[u] + 1 /\ \A v \in Users \ {u} : saved'[v] = saved[v]
    BY <1>1, <1>4, <1>9 DEF RegInv, SignupInv, SignupTypeOK
  <2>3. /\ Cardinality(Busy(u)') = Cardinality(Busy(u)) - 1
        /\ Cardinality(Busy(u)) \in Nat /\ Cardinality(Busy(u)) > 0
    <3>1. Cardinality(Busy(u)) # 0
      BY <1>2, BusyFinite, FS_EmptySet
    <3>2. Cardinality(Busy(u)') = Cardinality(Busy(u)) - 1
      BY <1>2, BusyFinite, FS_RemoveElement
    <3>3. Cardinality(Busy(u)) \in Nat
      BY BusyFinite
    <3>. QED  BY <3>1, <3>2, <3>3
  <2>4. Cardinality(unsent[u]) \in Nat
    BY <2>1, FS_CardinalityType
  <2>5. Filed(u)' = Filed(u) /\ saved[u] < Filed(u)
    BY <1>1, <2>1, <2>2, <2>3, <2>4 DEF Filed
  <2>6. saved' \in [Users -> 0 .. Limit]
    <3>1. saved[u] + 1 \in 0 .. Limit
      BY <2>1, <2>5, <2>3, <2>4, LimitAssumption DEF OwnFiles, Filed
    <3>. QED  BY <1>1, <1>4, <1>9, <3>1 DEF RegInv, SignupInv, SignupTypeOK
  <2>7. \A k \in Busy(u)' : k \in Busy(u) /\ k # j /\ job'[k] = job[k]
    BY <1>2, <1>5
  <2>8. job[j].asMain => \A k \in Busy(u) : k # j => ~job[k].asMain
    <3>1. ASSUME job[j].asMain, NEW k \in Busy(u), job[k].asMain
          PROVE  k = j
      <4>1. Chooses(j) /\ Chooses(k) /\ u \in calm
        BY <2>1, <3>1 DEF Chooses, ChoosesMain, OwnFiles
      <4>. QED  BY <1>2, <4>1 DEF RegInv, ImageInv, AloneInCalm
    <3>. QED  BY <3>1
  <2>9. job[j].asMain => ~MainOnItsWay(u)'
    <3>1. job[j].asMain => 1 \notin unsent[u]
      BY <1>2, <2>1 DEF OwnFiles
    <3>. QED  BY <1>1, <2>7, <2>8, <3>1 DEF MainOnItsWay
  <2>10. ~job[j].asMain => (MainOnItsWay(u)' <=> MainOnItsWay(u))
    <3>1. ~job[j].asMain =>
             ((\E k \in Busy(u)' : job'[k].asMain) <=> \E k \in Busy(u) : job[k].asMain)
      BY <1>2, <1>5, <2>7
    <3>. QED  BY <1>1, <3>1 DEF MainOnItsWay
  <2>11. job[j].asMain => Main(u)' = {i}
    BY <1>2, <2>1 DEF OwnFiles
  <2>12. OwnFiles(u)'
    <3>1. saved'[u] = Cardinality(Rows(u))'
      <4>1. Cardinality(Rows(u)') = Cardinality(Rows(u)) + 1
        BY <1>2, Finite, FS_AddElement
      <4>. QED  BY <2>1, <2>2, <4>1 DEF OwnFiles
    <3>2. \A k \in Busy(u)' : Saving(k)'
      BY <2>1, <2>7 DEF OwnFiles, Saving
    <3>3. \A k \in Rows(u)' : ~deleted'[k]
      BY <1>2, <1>6, <2>1 DEF OwnFiles
    <3>4. 1 \in unsent'[u] => \A k \in Busy(u)' : ~job'[k].asMain
      BY <1>1, <2>1, <2>7 DEF OwnFiles
    <3>5. MainOnItsWay(u)' => Main(u)' = {}
      BY <1>2, <2>1, <2>9, <2>10 DEF OwnFiles
    <3>6. u \in calm' \cap careful' /\ Filed(u)' <= Limit
      BY <1>6, <2>1, <2>5 DEF OwnFiles
    <3>. QED  BY <3>1, <3>2, <3>3, <3>4, <3>5, <3>6 DEF OwnFiles
  <2>13. \A v : AtWork(v)' = AtWork(v)
    BY <1>1 DEF AtWork
  <2>14. \A r \in AtWork(u)' : request[r].op = "signup" => FilesOf(u, request[r])'
    <3>. SUFFICES ASSUME NEW r \in AtWork(u), request[r].op = "signup"
                  PROVE  FilesOf(u, request[r])'
      BY <2>13
    <3>1. FilesOf(u, request[r]) /\ request[r].files \in Nat
      BY <2>1, LimitAssumption DEF Post
    <3>2. request'[r].pc \notin {"count", "write", "reference", "answer"}
      BY <1>1, <1>2, <2>1, <2>3, <2>4, <2>5, <3>1 DEF FilesOf, Filed
    <3>3. MainOnItsWay(u)' \/ Main(u)' # {} \/ request'[r].pc # "upload"
      BY <1>1, <1>2, <2>10, <2>11, <3>1 DEF FilesOf
    <3>. QED  BY <1>1, <2>5, <3>1, <3>2, <3>3 DEF FilesOf
  <2>15. \A v \in Users \ {u} :
            /\ AtWork(v)' = AtWork(v) /\ unsent'[v] = unsent[v] /\ saved'[v] = saved[v]
            /\ Busy(v)' = Busy(v) /\ Main(v)' = Main(v) /\ Rows(v)' = Rows(v)
            /\ \A k \in Busy(v) : job'[k] = job[k]
            /\ \A k \in Rows(v) : deleted'[k] = deleted[k]
            /\ v \in calm \cap careful => v \in calm' \cap careful'
    BY <1>1, <1>2, <1>6, <1>7, <2>2, <2>13
  <2>16. /\ request' = request /\ request' \in [Posts -> Post \cup {NoRequest}]
         /\ unsent' \in [Users -> SUBSET (1 .. Limit)]
         /\ UNCHANGED <<universityVars, member, created>>
    BY <1>1 DEF RegInv, SignupInv, SignupTypeOK
  <2>. QED  BY <1>2, <1>9, <2>6, <2>12, <2>13, <2>14, <2>15, <2>16, FilesMove
<1>. QED  BY <1>8, <1>9

LEMMA UploadFailsInv ==
  ASSUME RegInv, NEW j \in Jobs, UploadFails(j)
  PROVE  RegInv'
<1>0. PICK u : u = job[j].user
  OBVIOUS
<1>1. /\ job[j] # NoJob /\ Rollback(j) /\ Reject(u)
      /\ UNCHANGED <<universityVars, member, created, unsent, saved>>
  BY <1>0 DEF UploadFails, TooManyImages, JobFails, At
<1>2. ImageInv' /\ \A v : Busy(v)' = Busy(v) \ {j}
  BY <1>1, RollbackInv DEF RegInv
<1>3. u \in Users /\ j \in Busy(u) /\ u \in created \cup member
  BY <1>0, <1>1, JobOwner
<1>4. /\ UNCHANGED imageRows /\ UNCHANGED histories
      /\ \A k \in Jobs \ {j} : job'[k] = job[k]
  BY <1>1 DEF Rollback, RegInv, ImageInv, ImageShape, ImagesTypeOK
<1>5. /\ \A v : Rows(v)' = Rows(v) /\ Main(v)' = Main(v)
      /\ calm' = calm /\ careful' = careful /\ deleted' = deleted
  BY <1>4, SameImages DEF imageRows, histories
<1>6. \A v \in Users \ {u} : Busy(v)' = Busy(v) /\ \A k \in Busy(v) : job'[k] = job[k]
  BY <1>0, <1>2, <1>4 DEF Busy
<1>7. /\ request' = [r \in Posts |-> IF r \in AtWork(u) /\ request[r].op = "signup"
                                       THEN NoRequest ELSE request[r]]
      /\ request \in [Posts -> Post \cup {NoRequest}]
  BY <1>1 DEF Reject, RegInv, SignupInv, SignupTypeOK
<1>8. CASE u \notin created
  <2>1. AtWork(u) = {}
    BY <1>3, <1>8 DEF RegInv, SignupInv, Signups
  <2>2. request' = request
    BY <1>7, <2>1
  <2>3. UNCHANGED signupVars /\ UNCHANGED universityVars
    BY <1>1, <2>2 DEF signupVars
  <2>4. \A v \in created : v \in Users /\ v \in calm \cap careful /\ \A k \in Busy(v) : Saving(k)
    BY DEF RegInv, SignupInv, Newcomers, SignupTypeOK
  <2>5. \A v \in Users \ (created \cup member) :
           v \in calm \cap careful /\ Rows(v) = {} /\ Busy(v) = {}
    BY DEF RegInv, SignupInv, Newcomers
  <2>6. \A v \in created :
            /\ v \in calm' \cap careful'
            /\ Busy(v)' = Busy(v) /\ Main(v)' = Main(v) /\ Rows(v)' = Rows(v)
            /\ \A k \in Rows(v) : deleted'[k] = deleted[k]
            /\ \A k \in Busy(v) : job'[k].kind = "save" /\ job'[k].asMain = job[k].asMain
    BY <1>5, <1>6, <1>8, <2>4 DEF Saving
  <2>7. \A v \in Users \ (created \cup member) :
            v \in calm' \cap careful' /\ Rows(v)' = {} /\ Busy(v)' = {}
    BY <1>2, <1>5, <2>5
  <2>. QED  BY <1>2, <2>3, <2>6, <2>7, ImagesMove
<1>9. CASE u \in created
  <2>1. /\ OwnFiles(u) /\ IsFiniteSet(unsent[u]) /\ saved[u] \in Nat
        /\ \A r \in AtWork(u) : request[r].op = "signup" =>
              FilesOf(u, request[r]) /\ DetailOf(u, request[r]) /\ request[r] \in Post
    BY <1>9, Own
  <2>2. /\ AtWork(u)' = {r \in AtWork(u) : request[r].op # "signup"}
        /\ \A v \in Users \ {u} : AtWork(v)' = AtWork(v)
        /\ \A v \in Users : \A r \in AtWork(v)' : request'[r] = request[r]
    BY <1>7 DEF AtWork
  <2>3. request' \in [Posts -> Post \cup {NoRequest}]
    BY <1>7
  <2>4. ASSUME u \in steady, AtWork(u)' = {}, AtWork(u) # {}
        PROVE  HasOne(u)
    <3>1. PICK r \in AtWork(u) : request[r].op = "signup"
      BY <2>2, <2>4
    <3>2. FilesOf(u, request[r]) /\ DetailOf(u, request[r]) /\ request[r] \in Post
      BY <2>1, <3>1
    <3>3. request[r].pc \in {"upload", "answer"}
      <4>1. request[r].pc # "remove"
        BY <1>3, <3>1 DEF RegInv, SignupInv, Signups
      <4>2. request[r].pc \in {"remove", "count", "write", "reference", "upload", "answer"}
        BY <3>2 DEF Post
      <4>. QED  BY <1>3, <3>2, <4>1, <4>2 DEF FilesOf
    <3>4. Current(u) = {universityDetailId[u]}
      BY <3>2, <3>3 DEF DetailOf
    <3>. QED  BY <3>4 DEF HasOne, Current
  <2>5. \A k \in Busy(u)' : k \in Busy(u) /\ job'[k] = job[k]
    BY <1>2, <1>4 DEF Busy
  <2>6. Filed(u)' <= Limit
    <3>1. /\ Cardinality(Busy(u)') = Cardinality(Busy(u)) - 1
          /\ Cardinality(Busy(u)) \in Nat
      BY <1>2, <1>3, BusyFinite, FS_RemoveElement
    <3>2. Cardinality(unsent[u]) \in Nat
      BY <2>1, FS_CardinalityType
    <3>. QED  BY <1>1, <2>1, <3>1, <3>2, LimitAssumption DEF Filed, OwnFiles
  <2>7. MainOnItsWay(u)' => MainOnItsWay(u)
    BY <1>1, <2>5 DEF MainOnItsWay
  <2>8. OwnFiles(u)'
    BY <1>1, <1>5, <2>1, <2>5, <2>6, <2>7 DEF OwnFiles, Saving
  <2>9. \A r \in AtWork(u)' : request[r].op = "signup" => FilesOf(u, request[r])'
    BY <2>2
  <2>10. \A v \in Users \ {u} :
            /\ AtWork(v)' = AtWork(v) /\ unsent'[v] = unsent[v] /\ saved'[v] = saved[v]
            /\ Busy(v)' = Busy(v) /\ Main(v)' = Main(v) /\ Rows(v)' = Rows(v)
            /\ \A k \in Busy(v) : job'[k] = job[k]
            /\ \A k \in Rows(v) : deleted'[k] = deleted[k]
            /\ v \in calm \cap careful => v \in calm' \cap careful'
    BY <1>1, <1>5, <1>6, <2>2
  <2>11. /\ unsent' \in [Users -> SUBSET (1 .. Limit)] /\ saved' \in [Users -> 0 .. Limit]
         /\ UNCHANGED <<universityVars, member, created>>
    BY <1>1 DEF RegInv, SignupInv, SignupTypeOK
  <2>12. AtWork(u)' \subseteq AtWork(u)
    BY <2>2
  <2>. QED  BY <1>2, <1>9, <2>2, <2>3, <2>4, <2>8, <2>9, <2>10, <2>11, <2>12, FilesMove
<1>. QED  BY <1>8, <1>9

-----------------------------------------------------------------------------
(* What registration keeps. *)

LEMMA SignupStarts == SignupInit => RegInv
<1>. SUFFICES ASSUME SignupInit PROVE RegInv
  OBVIOUS
<1>1. /\ \A u \in Users : u # Null
      /\ Cardinality({}) = 0
  BY UsersAssumption, FS_EmptySet
<1>2. /\ \A j \in Jobs : job[j] = NoJob
      /\ \A u : Busy(u) = {}
  BY DEF SignupInit, ImagesInit, Busy
<1>3. \A u \in Users : Rows(u) = {} /\ Live(u) = {} /\ Main(u) = {}
  BY <1>1 DEF SignupInit, ImagesInit, Rows, Live, Main
<1>4. \A u : AtWork(u) = {}
  BY DEF SignupInit, AtWork
<1>5. ImagesTypeOK
  BY LimitAssumption DEF SignupInit, ImagesInit, ImagesTypeOK
<1>6. ImageInv
  <2>1. ImageShape
    BY <1>2, <1>5 DEF SignupInit, ImagesInit, ImageShape
  <2>2. SavedApart
    <3>1. \A u \in Users : Cardinality(Live(u)) <= Limit
      <4>. SUFFICES ASSUME NEW u \in Users PROVE Cardinality(Live(u)) <= Limit
        OBVIOUS
      <4>1. Live(u) = {} /\ 0 <= Limit
        BY <1>3, LimitAssumption
      <4>. QED  BY <1>1, <4>1
    <3>. QED  BY <1>2, <3>1 DEF SignupInit, ImagesInit, SavedApart
  <2>3. AloneInCalm
    BY <1>2 DEF AloneInCalm
  <2>4. MainInOrder
    BY <1>2, <1>3 DEF SignupInit, ImagesInit, MainInOrder
  <2>. QED  BY <2>1, <2>2, <2>3, <2>4 DEF ImageInv
<1>7. SignupTypeOK
  BY <1>5, LimitAssumption DEF SignupInit, SignupTypeOK
<1>8. Newcomers
  BY <1>2, <1>3 DEF SignupInit, ImagesInit, Newcomers
<1>9. Signups
  BY <1>4 DEF Signups
<1>10. Owners
  BY DEF SignupInit, Owners
<1>11. Steady
  BY <1>1, <1>4 DEF SignupInit, Steady
<1>. QED  BY <1>6, <1>7, <1>8, <1>9, <1>10, <1>11 DEF RegInv, SignupInv

LEMMA SignupSteps == RegInv /\ [SignupNext]_registrationVars => RegInv'
<1>. SUFFICES ASSUME RegInv, [SignupNext]_registrationVars PROVE RegInv'
  OBVIOUS
<1>1. ASSUME NEW r \in Posts, NEW u \in Users, RegisterUniversity(r, u)
      PROVE  RegInv'
  BY <1>1, RegisterUniversityInv
<1>2. ASSUME NEW r \in Posts, NEW u \in Users, NEW n \in 1 .. Limit, CreateUser(r, u, n)
      PROVE  RegInv'
  BY <1>2, CreateUserInv
<1>3. ASSUME NEW r \in Posts,
             \/ RemoveUniversity(r) \/ CountDetails(r) \/ UpdateDetails(r)
             \/ UpdateUniversityId(r) \/ UploadsDone(r) \/ AnswerPost(r) \/ RequestFails(r)
      PROVE  RegInv'
  BY <1>3, RemoveUniversityInv, CountDetailsInv, UpdateDetailsInv, UpdateUniversityIdInv,
     UploadsDoneInv, AnswerPostInv, RequestFailsInv
<1>4. ASSUME NEW r \in Posts, NEW d \in Details, InsertDetails(r, d)
      PROVE  RegInv'
  BY <1>4, InsertDetailsInv
<1>5. ASSUME NEW d \in Details, Authenticate(d)
      PROVE  RegInv'
  BY <1>5, AuthenticateInv
<1>6. ASSUME NEW j \in Jobs, NEW u \in Users, NEW f \in unsent[u], Uploaded(j, u, f)
      PROVE  RegInv'
  BY <1>6, UploadedInv
<1>7. ASSUME NEW j \in Jobs, ImageStep(j)
      PROVE  RegInv'
  BY <1>7, ImageStepInv
<1>8. ASSUME NEW j \in Jobs, UploadFails(j)
      PROVE  RegInv'
  BY <1>8, UploadFailsInv
<1>9. ASSUME NEW j \in Jobs, NEW i \in Images, Insert(j, i)
      PROVE  RegInv'
  BY <1>9, InsertStepInv
<1>10. CASE UNCHANGED registrationVars
  <2>1. /\ UNCHANGED <<imageVars, universityVars, signupVars>>
        /\ UNCHANGED <<owner, removed, authenticated, universityDetailId, steady>>
        /\ UNCHANGED <<member, created, request, unsent, saved>>
    BY <1>10 DEF registrationVars, universityVars, signupVars
  <2>2. /\ ImageInv' /\ Newcomers'
        /\ \A v : /\ Busy(v)' = Busy(v) /\ Main(v)' = Main(v)
                  /\ Filed(v)' = Filed(v) /\ (MainOnItsWay(v)' <=> MainOnItsWay(v))
    BY <2>1, FilesKept
  <2>3. SignupTypeOK' /\ Owners'
    BY <2>1, <2>2 DEF RegInv, SignupInv, SignupTypeOK, ImageInv, ImageShape, Owners
  <2>4. \A v : Current(v)' = Current(v) /\ AtWork(v)' = AtWork(v) /\ (HasOne(v)' <=> HasOne(v))
    BY <2>1 DEF Current, AtWork, HasOne
  <2>5. Signups'
    BY <2>1, <2>2, <2>4 DEF RegInv, SignupInv, Signups, FilesOf, DetailOf
  <2>6. Steady'
    BY <2>1, <2>4 DEF RegInv, SignupInv, Steady
  <2>. QED  BY <2>2, <2>3, <2>5, <2>6 DEF RegInv, SignupInv
<1>. QED
  BY <1>1, <1>2, <1>3, <1>4, <1>5, <1>6, <1>7, <1>8, <1>9, <1>10 DEF SignupNext

\* What is in order at a signup and at the images stays so, whatever the
\* requests of any number of users do and whichever of their calls fails.
THEOREM RegistrationInductive == SignupSpec => []RegInv
BY SignupStarts, SignupSteps, PTL DEF SignupSpec

\* Every variable of registration keeps its type.
THEOREM RegistrationTyped == SignupSpec => []SignupTypeOK
<1>1. RegInv => SignupTypeOK
  BY DEF RegInv, SignupInv
<1>. QED  BY <1>1, RegistrationInductive, PTL

\* A profile whose images were saved one after the other has no more than the
\* limit (the count and the insert of saveProfileImage are two statements).
THEOREM ImagesAreLimited == SignupSpec => []AtMostLimit
<1>1. RegInv => AtMostLimit
  BY DEF RegInv, ImageInv, SavedApart, AtMostLimit
<1>. QED  BY <1>1, RegistrationInductive, PTL

LEMMA OneAtMost ==
  ASSUME NEW S, IsFiniteSet(S), \A a, b \in S : a = b
  PROVE  Cardinality(S) <= 1 /\ (S # {} => Cardinality(S) = 1)
<1>1. CASE S = {}
  BY <1>1, FS_EmptySet
<1>2. CASE S # {}
  <2>1. PICK x : S = {x}
    BY <1>2
  <2>. QED  BY <2>1, FS_Singleton
<1>. QED  BY <1>1, <1>2

\* A profile whose main image is chosen by one job at a time, and never meets a
\* deletion on its way, has at most one, although the statements that clear the
\* old one and set the new one are apart.
THEOREM MainIsOne == SignupSpec => []OneMain
<1>1. RegInv => OneMain
  <2>. SUFFICES ASSUME RegInv, NEW u \in calm \cap careful PROVE Cardinality(Main(u)) <= 1
    BY DEF OneMain
  <2>1. \A a, b \in Main(u) : a = b
    BY DEF RegInv, ImageInv, MainInOrder
  <2>. QED  BY <2>1, Finite, OneAtMost
<1>. QED  BY <1>1, RegistrationInductive, PTL

KeepsMain == \A u \in calm \cap careful : Main(u) # {} => Main(u)' # {} \/ Live(u)' = {}

LEMMA KeepsMainSteps == RegInv /\ [SignupNext]_registrationVars => [KeepsMain]_imageVars
<1>. SUFFICES ASSUME RegInv, SignupNext, NEW u \in calm \cap careful, Main(u) # {}
              PROVE  Main(u)' # {} \/ Live(u)' = {} \/ UNCHANGED imageVars
  BY DEF KeepsMain, registrationVars
<1>1. ImageInv /\ u \in Users
  BY DEF RegInv, ImageInv, ImageShape, ImagesTypeOK
<1>2. CASE UNCHANGED imageRows
  BY <1>2, SameImages
<1>3. ASSUME NEW j \in Jobs, ImageStep(j), ~UNCHANGED imageRows
      PROVE  Main(u)' # {} \/ Live(u)' = {}
  <2>1. CommitDelete(j) \/ CommitMain(j)
    BY <1>1, <1>3, MovesInv DEF ImageStep, Statement, Moves, Ask, UploadProfileImage,
       DeleteProfileImage, SetMainProfileImage, Start
  <2>2. PICK v : v = job[j].user
    OBVIOUS
  <2>3. CASE v = u
    BY <1>1, <2>1, <2>2, <2>3, CommitDeleteInv, CommitMainInv
  <2>4. CASE v # u
    BY <1>1, <2>1, <2>2, <2>4, CommitDeleteInv, CommitMainInv
  <2>. QED  BY <2>3, <2>4
<1>4. ASSUME NEW j \in Jobs, NEW i \in Images, Insert(j, i)
      PROVE  Main(u)' # {}
  <2>1. PICK v : v = job[j].user
    OBVIOUS
  <2>2. /\ (job[j].asMain => (v \in calm \cap careful => Main(v)' = {i}))
        /\ (~job[j].asMain => Main(v)' = Main(v))
        /\ \A w \in Users \ {v} : Main(w)' = Main(w)
    BY <1>1, <1>4, <2>1, InsertInv DEF Insert
  <2>. QED  BY <1>1, <2>2
<1>5. \/ UNCHANGED imageRows
      \/ \E j \in Jobs : ImageStep(j) \/ \E i \in Images : Insert(j, i)
  BY DEF SignupNext, RegisterUniversity, CreateUser, BeginPost, RemoveUniversity, CountDetails,
     UpdateDetails, UpdateUniversityId, UploadsDone, AnswerPost, RequestFails, InsertDetails,
     Authenticate, Uploaded, Start, UploadFails, TooManyImages, JobFails, Rollback, imageVars
<1>. QED  BY <1>2, <1>3, <1>4, <1>5

\* No step of any request takes the main image from such a profile as long as it
\* has images.
THEOREM MainIsKept == SignupSpec => MainKept
<1>1. SignupSpec => [][KeepsMain]_imageVars
  BY RegistrationInductive, KeepsMainSteps, PTL DEF SignupSpec
<1>. QED  BY <1>1 DEF MainKept, KeepsMain

\* Whoever is told that the signup is done has a university the profile refers
\* to, a row for every file sent, and exactly one main image.
THEOREM SignupsAreComplete == SignupSpec => []SignupComplete
<1>1. RegInv => SignupComplete
  <2>. SUFFICES ASSUME RegInv, NEW r \in Posts, Is(r, {"signup"}, "answer"), NEW u,
                       u = request[r].user
                PROVE  /\ Current(u) = {universityDetailId[u]}
                       /\ Cardinality(Live(u)) = request[r].files
                       /\ Cardinality(Main(u)) = 1
    BY DEF SignupComplete
  <2>1. /\ request[r] # NoRequest /\ request[r].op = "signup" /\ request[r].pc = "answer"
    BY DEF Is
  <2>2. /\ u \in created /\ FilesOf(u, request[r]) /\ DetailOf(u, request[r])
        /\ request[r] \in Post
    BY <2>1, PostFields
  <2>3. OwnFiles(u) /\ IsFiniteSet(unsent[u]) /\ saved[u] \in Nat
    BY <2>2, Own
  <2>4. /\ Cardinality(Rows(u)) = request[r].files /\ Filed(u) <= saved[u]
        /\ saved[u] = request[r].files
    BY <2>1, <2>2, <2>3 DEF FilesOf, OwnFiles
  <2>5. Live(u) = Rows(u)
    BY <2>3 DEF OwnFiles, Live
  <2>6. Busy(u) = {} /\ unsent[u] = {}
    <3>1. Cardinality(Busy(u)) \in Nat /\ Cardinality(unsent[u]) \in Nat
      BY <2>3, BusyFinite, FS_CardinalityType
    <3>2. Cardinality(Busy(u)) = 0 /\ Cardinality(unsent[u]) = 0
      BY <2>3, <2>4, <3>1 DEF Filed
    <3>. QED  BY <2>3, <3>2, BusyFinite, FS_EmptySet
  <2>7. Main(u) # {}
    BY <2>1, <2>2, <2>6 DEF FilesOf, MainOnItsWay
  <2>8. Cardinality(Main(u)) = 1
    <3>1. \A a, b \in Main(u) : a = b
      BY <2>3 DEF OwnFiles, RegInv, ImageInv, MainInOrder
    <3>. QED  BY <2>7, <3>1, Finite, OneAtMost
  <2>. QED  BY <2>1, <2>2, <2>4, <2>5, <2>8 DEF DetailOf
<1>. QED  BY <1>1, RegistrationInductive, PTL

\* A user whose registrations came one after the other has exactly one
\* university, although the old one is removed and the new one written in steps.
THEOREM UniversityIsOne == SignupSpec => []OneUniversity
<1>1. RegInv => OneUniversity
  <2>. SUFFICES ASSUME RegInv, NEW u \in steady, AtWork(u) = {}, \E d \in Details : owner[d] = u
                PROVE  Cardinality(Current(u)) = 1
    BY DEF OneUniversity
  <2>1. PICK d : Current(u) = {d}
    BY DEF RegInv, SignupInv, Steady, HasOne
  <2>. QED  BY <2>1, FS_Singleton
<1>. QED  BY <1>1, RegistrationInductive, PTL

-----------------------------------------------------------------------------
(* The sessions. *)

USE OwnerAssumption, TimeAssumption, NullAssumption

\* Who is asking, with which token, and which step of which handler comes next.
Shape(q) ==
    /\ q.op \in LoginOps => q.pc \in {"user", "store", "answer"}
    /\ q.op = "refresh" => q.pc \in {"find", "user", "store", "answer"}
    /\ q.op = "logout" => q.pc \in {"guard", "remove", "answer"}
    /\ q.op = "withdraw" => q.pc \in {"guard", "delete", "answer"}
    /\ q.op = "authWithdraw" => q.pc \in {"guard", "nothing", "answer"}
    /\ q.op \notin LoginOps => q.token # Null
    /\ q.token # Null => q.token.id = Owner[q.client]
    /\ q.new # Null => q.new.id = Owner[q.client]
    /\ q.op \in LoginOps \cup {"refresh"} /\ q.pc \in {"store", "answer"} => q.new # Null

Shaped == {q \in Request : Shape(q)}
Typed ==
    /\ TypeOK
    /\ \A r \in Requests : Working(r) => req[r] \in Shaped
    /\ \A c \in Clients : session[c] # Null => session[c].id = Owner[c]

LEMMA InitTyped == Init => Typed
BY DEF Init, Typed, TypeOK, Working, Done

\* One request is replaced by a well-formed one, or is done.
LEMMA Replaced ==
  ASSUME Typed, NEW r \in Requests, NEW q, q \in Shaped \/ q = Done,
         req' = [req EXCEPT ![r] = q]
  PROVE  /\ req' \in [Requests -> Request \cup {Done}]
         /\ \A s \in Requests : Working(s)' => req'[s] \in Shaped
         /\ req'[r] = q
         /\ \A s \in Requests : s # r => req'[s] = req[s]
<1>1. q \in Request \cup {Done}
  BY DEF Shaped
<1>2. /\ req' \in [Requests -> Request \cup {Done}]
      /\ req'[r] = q /\ \A s \in Requests : s # r => req'[s] = req[s]
  BY <1>1 DEF Typed, TypeOK
<1>3. \A s \in Requests : Working(s)' => req'[s] \in Shaped
  BY <1>2 DEF Typed, Working, Done
<1>. QED  BY <1>2, <1>3

\* What is known of a request being worked on.
LEMMA WorkingOn ==
  ASSUME Typed, NEW r \in Requests, Working(r)
  PROVE  /\ req[r] \in Shaped /\ req[r] \in Request /\ Shape(req[r])
         /\ req[r].client \in Clients /\ UserOf(r) \in Users
         /\ req[r].op \in Ops /\ req[r].pc \in Steps
         /\ req[r].token \in Token \cup {Null} /\ req[r].new \in Token \cup {Null}
         /\ req[r].op \notin LoginOps => /\ req[r].token \in Token
                                         /\ req[r].token.id = UserOf(r)
BY DEF Typed, Shaped, Request, UserOf, Shape

LEMMA AtStep ==
  ASSUME Typed, NEW r \in Requests, req[r].pc \in Steps
  PROVE  Working(r)
BY DEF Typed, Working, Steps

\* Every operation of the five is one of these.
LEMMA OpsAre ==
  /\ \A o \in Ops : o \in LoginOps \/ o \in {"refresh", "logout", "withdraw", "authWithdraw"}
  /\ \A o \in LoginOps : o \notin {"refresh", "logout", "withdraw", "authWithdraw"}
BY DEF Ops, LoginOps

LEMMA BeginTyped ==
  ASSUME Typed, NEW r \in Requests, NEW c \in Clients,
         \/ Login(r, c) \/ PassLogin(r, c) \/ Refresh(r, c)
         \/ Logout(r, c) \/ Withdraw(r, c) \/ AuthWithdraw(r, c)
  PROVE  Typed'
<1>1. PICK op \in Ops, pc \in Steps :
        /\ Begin(r, c, op, pc)
        /\ op \in LoginOps => pc = "user"
        /\ op = "refresh" => pc = "find"
        /\ op \in {"logout", "withdraw", "authWithdraw"} => pc = "guard"
        /\ op \notin LoginOps => session[c] # Null
  BY DEF Login, PassLogin, Refresh, Logout, Withdraw, AuthWithdraw, Ops, Steps, LoginOps
<1> DEFINE q == [op |-> op, pc |-> pc, client |-> c, token |-> session[c], new |-> Null]
<1>2. session[c] \in Token \cup {Null} /\ (session[c] # Null => session[c].id = Owner[c])
  BY DEF Typed, TypeOK
<1>3. q \in Shaped
  BY <1>1, <1>2, OpsAre DEF Shaped, Shape, Request, LoginOps
<1>4. req' = [req EXCEPT ![r] = q]
  BY <1>1 DEF Begin
<1>5. /\ UNCHANGED <<refreshToken, deletedAt, session, now, failures, clear>>
      /\ plain' \subseteq plain
  BY <1>1 DEF Begin
<1> HIDE DEF q
<1>6. /\ req' \in [Requests -> Request \cup {Done}]
      /\ \A s \in Requests : Working(s)' => req'[s] \in Shaped
  BY <1>3, <1>4, Replaced
<1>. QED  BY <1>5, <1>6 DEF Typed, TypeOK

\* What a handler puts in place of its request.
LEMMA HandlerMoves ==
  ASSUME Typed, NEW r \in Requests, Working(r)
  PROVE  /\ \A pc \in Steps :
              Shape([req[r] EXCEPT !.pc = pc]) => [req[r] EXCEPT !.pc = pc] \in Shaped
         /\ Advance(r, "answer") =>
              req' = [req EXCEPT ![r] = [req[r] EXCEPT !.pc = "answer"]]
<1>1. req[r] \in Request
  BY WorkingOn
<1>. QED  BY <1>1 DEF Shaped, Request, Advance

LEMMA ReadTyped ==
  ASSUME Typed, NEW r \in Requests, CanActivate(r) \/ FindRefreshToken(r) \/ FindUser(r)
  PROVE  Typed'
<1>1. Working(r)
  BY AtStep DEF CanActivate, FindRefreshToken, FindUser, Steps
<1>2. req[r] \in Request /\ Shape(req[r]) /\ req[r].op \in Ops
  BY <1>1, WorkingOn
<1>3. /\ UNCHANGED <<refreshToken, deletedAt, session, now, failures, plain>>
      /\ clear' \subseteq clear \cup {r}
  BY DEF CanActivate, FindRefreshToken, FindUser, Refuse
<1>4. ASSUME NEW q, q \in Shaped \/ q = Done, req' = [req EXCEPT ![r] = q]
      PROVE  Typed'
  <2>1. /\ req' \in [Requests -> Request \cup {Done}]
        /\ \A s \in Requests : Working(s)' => req'[s] \in Shaped
    BY <1>4, Replaced
  <2>. QED  BY <1>3, <2>1 DEF Typed, TypeOK
<1>5. CASE Refuse(r)
  BY <1>4, <1>5 DEF Refuse
<1>6. CASE CanActivate(r) /\ ~Refuse(r)
  <2>1. PICK pc \in {"remove", "delete", "nothing"} :
          /\ req' = [req EXCEPT ![r].pc = pc]
          /\ req[r].op = "logout" => pc = "remove"
          /\ req[r].op = "withdraw" => pc = "delete"
          /\ req[r].op = "authWithdraw" => pc = "nothing"
          /\ req[r].pc = "guard"
    BY <1>6 DEF CanActivate, Advance
  <2> DEFINE q == [req[r] EXCEPT !.pc = pc]
  <2>2. req' = [req EXCEPT ![r] = q]
    BY <2>1
  <2>3. q \in Shaped
    BY <1>2, <2>1, OpsAre DEF Shaped, Shape, Request, Steps, LoginOps
  <2>. QED  BY <1>4, <2>2, <2>3
<1>7. CASE FindRefreshToken(r) /\ ~Refuse(r)
  <2> DEFINE q == [req[r] EXCEPT !.pc = "user"]
  <2>1. req' = [req EXCEPT ![r] = q] /\ req[r].pc = "find"
    BY <1>7 DEF FindRefreshToken, Advance
  <2>2. q \in Shaped
    BY <1>2, <2>1, OpsAre DEF Shaped, Shape, Request, Steps, LoginOps
  <2>. QED  BY <1>4, <2>1, <2>2
<1>8. CASE FindUser(r) /\ ~Refuse(r)
  <2> DEFINE t == [id |-> UserOf(r), iat |-> now]
             q == [req[r] EXCEPT !.pc = "store", !.new = t]
  <2>1. req' = [req EXCEPT ![r] = q] /\ req[r].pc = "user"
    BY <1>8 DEF FindUser
  <2>2. t \in Token /\ t.id = Owner[req[r].client]
    BY <1>1, WorkingOn DEF Token, Typed, TypeOK, UserOf
  <2> HIDE DEF t
  <2>3. q \in Shaped
    BY <1>2, <2>1, <2>2, OpsAre DEF Shaped, Shape, Request, Steps, LoginOps
  <2>. QED  BY <1>4, <2>1, <2>3
<1>. QED  BY <1>5, <1>6, <1>7, <1>8

\* The row of one user is written, or none.
LEMMA WriteTyped ==
  ASSUME Typed, NEW r \in Requests,
         \/ SaveRefreshToken(r) \/ UpdateRefreshToken(r) \/ RemoveRefreshToken(r)
         \/ DeleteUser(r) \/ CheckPassword(r)
  PROVE  Typed'
<1>1. Working(r)
  BY AtStep DEF SaveRefreshToken, UpdateRefreshToken, RemoveRefreshToken, DeleteUser,
                CheckPassword, Steps
<1>2. /\ req[r] \in Request /\ Shape(req[r]) /\ req[r].op \in Ops /\ UserOf(r) \in Users
      /\ req[r].new \in Token \cup {Null}
  BY <1>1, WorkingOn
<1> DEFINE q == [req[r] EXCEPT !.pc = "answer"]
<1>3. /\ q \in Request /\ q.pc = "answer" /\ q.op = req[r].op /\ q.client = req[r].client
      /\ q.token = req[r].token /\ q.new = req[r].new
  BY <1>2 DEF Request, Steps
<1>4. req[r].op \in LoginOps \cup {"refresh"} => req[r].pc = "store"
  BY <1>2, OpsAre DEF SaveRefreshToken, UpdateRefreshToken, RemoveRefreshToken, DeleteUser,
                CheckPassword, Shape, LoginOps
<1>5. q \in Shaped
  <2>1. req[r].op \in LoginOps \cup {"refresh"} => req[r].new # Null
    BY <1>2, <1>4 DEF Shape
  <2> HIDE DEF q
  <2>. QED  BY <1>2, <1>3, <2>1, OpsAre DEF Shaped, Shape
<1> HIDE DEF q
<1>6. ASSUME NEW p, p \in Shaped \/ p = Done, req' = [req EXCEPT ![r] = p],
             UNCHANGED <<session, now, failures, plain>>, clear' \subseteq clear,
             refreshToken' \in [Users -> Token \cup {Null}], deletedAt' \in [Users -> BOOLEAN]
      PROVE  Typed'
  <2>1. /\ req' \in [Requests -> Request \cup {Done}]
        /\ \A s \in Requests : Working(s)' => req'[s] \in Shaped
    BY <1>6, Replaced
  <2>. QED  BY <1>6, <2>1 DEF Typed, TypeOK
<1>7. /\ refreshToken \in [Users -> Token \cup {Null}] /\ deletedAt \in [Users -> BOOLEAN]
      /\ refreshToken[UserOf(r)] \in Token \cup {Null}
  BY <1>2 DEF Typed, TypeOK
<1>8. ASSUME NEW t \in Token \cup {Null}, NEW d \in BOOLEAN, Write(r, UserOf(r), t, d)
      PROVE  Typed'
  <2>1. req' = [req EXCEPT ![r] = q]
    BY <1>8 DEF Write, Advance, q
  <2>2. /\ refreshToken' \in [Users -> Token \cup {Null}]
        /\ deletedAt' \in [Users -> BOOLEAN]
        /\ UNCHANGED <<session, now, failures, plain>> /\ clear' \subseteq clear
    BY <1>2, <1>7, <1>8 DEF Write
  <2>. QED  BY <1>5, <1>6, <2>1, <2>2
<1>9. CASE WriteNothing(r)
  <2>1. req' = [req EXCEPT ![r] = q]
    BY <1>9 DEF WriteNothing, Advance, q
  <2>. QED  BY <1>5, <1>6, <1>7, <1>9, <2>1 DEF WriteNothing
<1>10. CASE Refuse(r)
  BY <1>6, <1>7, <1>10 DEF Refuse
<1>. QED  BY <1>2, <1>7, <1>8, <1>9, <1>10
          DEF SaveRefreshToken, UpdateRefreshToken, RemoveRefreshToken, DeleteUser, CheckPassword

LEMMA EndTyped ==
  ASSUME Typed, NEW r \in Requests, Answer(r) \/ Fail(r)
  PROVE  Typed'
<1>1. Working(r)
  BY AtStep DEF Answer, Fail, Steps
<1>2. /\ req[r].client \in Clients /\ req[r].new \in Token \cup {Null} /\ Shape(req[r])
      /\ session \in [Clients -> Token \cup {Null}]
  BY <1>1, WorkingOn DEF Typed, TypeOK
<1>3. /\ req' \in [Requests -> Request \cup {Done}]
      /\ \A s \in Requests : Working(s)' => req'[s] \in Shaped
  BY Replaced DEF Answer, Fail
<1>4. /\ session' \in [Clients -> Token \cup {Null}]
      /\ \A c \in Clients : session'[c] # Null => session'[c].id = Owner[c]
  <2>1. \/ UNCHANGED session
        \/ session' = [session EXCEPT ![req[r].client] = req[r].new]
        \/ session' = [session EXCEPT ![req[r].client] = Null]
    BY DEF Answer, Fail
  <2>2. \A c \in Clients : session[c] # Null => session[c].id = Owner[c]
    BY DEF Typed
  <2>3. req[r].new # Null => req[r].new.id = Owner[req[r].client]
    BY <1>2 DEF Shape
  <2>. QED  BY <1>2, <2>1, <2>2, <2>3
<1>5. /\ UNCHANGED <<refreshToken, deletedAt, now>> /\ failures' \in 0 .. MaxFailures
      /\ clear' \subseteq clear /\ plain' \subseteq plain
  BY DEF Answer, Fail, Typed, TypeOK
<1>. QED  BY <1>3, <1>4, <1>5 DEF Typed, TypeOK

LEMMA NextTyped == Typed /\ [Next]_vars => Typed'
<1>1. ASSUME Typed, Tick  PROVE Typed'
  BY <1>1 DEF Tick, Typed, TypeOK, Working
<1>2. ASSUME Typed, UNCHANGED vars  PROVE Typed'
  BY <1>2 DEF vars, Typed, TypeOK, Working
<1>. QED  BY <1>1, <1>2, BeginTyped, ReadTyped, WriteTyped, EndTyped DEF Next, Handle

\* Rows, sessions and requests keep their types.
THEOREM TypeCorrect == Spec => []TypeOK
<1>1. Typed => TypeOK
  BY DEF Typed
<1>. QED  BY <1>1, InitTyped, NextTyped, PTL DEF Spec

-----------------------------------------------------------------------------
\* The row of u is as it was, or one of four requests of u has written it.
RowStep(r, u) ==
    /\ UserOf(r) = u /\ u \in Users /\ Working(r) /\ Advance(r, "answer")
    /\ clear' = {s \in clear : s = r \/ UserOf(s) # u}
    /\ UNCHANGED <<session, now, failures, plain>>
    /\ \A v \in Users : v # u => refreshToken'[v] = refreshToken[v] /\ deletedAt'[v] = deletedAt[v]
    /\ \/ /\ req[r].op \in LoginOps /\ req[r].pc = "store"
          /\ ~deletedAt[u] /\ ~deletedAt'[u] /\ refreshToken'[u] = req[r].new
       \/ /\ req[r].op = "refresh" /\ req[r].pc = "store"
          /\ ~deletedAt[u] /\ ~deletedAt'[u]
          /\ refreshToken[u] = req[r].token /\ refreshToken'[u] = req[r].new
       \/ /\ req[r].op = "logout" /\ req[r].pc = "remove"
          /\ ~deletedAt[u] /\ ~deletedAt'[u]
          /\ refreshToken[u] = req[r].token /\ refreshToken'[u] = Null
       \/ /\ req[r].op = "withdraw" /\ req[r].pc = "delete"
          /\ deletedAt'[u] /\ refreshToken'[u] = refreshToken[u]

LEMMA RowsWritten ==
  ASSUME Typed, [Next]_vars
  PROVE  \/ UNCHANGED <<refreshToken, deletedAt>>
         \/ \E r \in Requests : RowStep(r, UserOf(r))
<1>1. \/ UNCHANGED <<refreshToken, deletedAt>>
      \/ \E r \in Requests : \/ SaveRefreshToken(r) \/ UpdateRefreshToken(r)
                             \/ RemoveRefreshToken(r) \/ DeleteUser(r)
  <2>1. ASSUME NEW r \in Requests, Handle(r)
        PROVE  \/ UNCHANGED <<refreshToken, deletedAt>>
               \/ SaveRefreshToken(r) \/ UpdateRefreshToken(r)
               \/ RemoveRefreshToken(r) \/ DeleteUser(r)
    BY <2>1 DEF Handle, CanActivate, FindRefreshToken, FindUser, CheckPassword, WriteNothing,
                Refuse, Answer
  <2>2. CASE \A r \in Requests : ~Handle(r)
    BY <2>2 DEF Next, vars, Login, PassLogin, Refresh, Logout, Withdraw, AuthWithdraw,
                Begin, Fail, Tick
  <2>. QED  BY <2>1, <2>2
<1>2. ASSUME NEW r \in Requests,
             \/ SaveRefreshToken(r) \/ UpdateRefreshToken(r)
             \/ RemoveRefreshToken(r) \/ DeleteUser(r)
      PROVE  RowStep(r, UserOf(r)) \/ UNCHANGED <<refreshToken, deletedAt>>
  <2> DEFINE u == UserOf(r)
  <2>1. Working(r) /\ u \in Users
    BY <1>2, AtStep, WorkingOn DEF SaveRefreshToken, UpdateRefreshToken, RemoveRefreshToken,
                                DeleteUser, Steps
  <2>2. Shape(req[r]) /\ req[r].op \in Ops
    BY <2>1, WorkingOn
  <2>3. refreshToken \in [Users -> Token \cup {Null}] /\ deletedAt \in [Users -> BOOLEAN]
    BY DEF Typed, TypeOK
  <2> HIDE DEF u
  <2>4. ASSUME NEW t, NEW d, Write(r, u, t, d)
        PROVE  /\ refreshToken'[u] = t /\ deletedAt'[u] = d
               /\ \A v \in Users : v # u => refreshToken'[v] = refreshToken[v]
                                            /\ deletedAt'[v] = deletedAt[v]
               /\ clear' = {s \in clear : s = r \/ UserOf(s) # u}
               /\ UNCHANGED <<session, now, failures, plain>> /\ Advance(r, "answer")
    BY <2>1, <2>3, <2>4 DEF Write
  <2>5. CASE WriteNothing(r)
    BY <2>5 DEF WriteNothing
  <2>6. CASE SaveRefreshToken(r) /\ ~WriteNothing(r)
    <3>1. /\ Write(r, u, req[r].new, FALSE) /\ ~deletedAt[u]
          /\ req[r].op \in LoginOps /\ req[r].pc = "store"
      BY <2>6 DEF SaveRefreshToken, u
    <3>. QED  BY <2>1, <2>4, <3>1 DEF RowStep, u
  <2>7. CASE UpdateRefreshToken(r) /\ ~WriteNothing(r)
    <3>1. /\ Write(r, u, req[r].new, FALSE) /\ ~deletedAt[u] /\ refreshToken[u] = req[r].token
          /\ req[r].op = "refresh" /\ req[r].pc = "store"
      BY <2>7 DEF UpdateRefreshToken, u
    <3>. QED  BY <2>1, <2>4, <3>1 DEF RowStep, u
  <2>8. CASE RemoveRefreshToken(r) /\ ~WriteNothing(r)
    <3>1. /\ Write(r, u, Null, FALSE) /\ ~deletedAt[u] /\ refreshToken[u] = req[r].token
          /\ req[r].pc = "remove"
      BY <2>8 DEF RemoveRefreshToken, u
    <3>2. req[r].op = "logout"
      BY <2>2, <3>1, OpsAre DEF Shape
    <3>. QED  BY <2>1, <2>4, <3>1, <3>2 DEF RowStep, u
  <2>9. CASE DeleteUser(r)
    <3>1. Write(r, u, refreshToken[u], TRUE) /\ req[r].pc = "delete"
      BY <2>9 DEF DeleteUser, u
    <3>2. req[r].op = "withdraw"
      BY <2>2, <3>1, OpsAre DEF Shape
    <3>. QED  BY <2>1, <2>4, <3>1, <3>2 DEF RowStep, u
  <2>. QED  BY <1>2, <2>5, <2>6, <2>7, <2>8, <2>9
<1>. QED  BY <1>1, <1>2

\* Nothing is written to the row of a withdrawn user, whatever was on its way.
THEOREM WithdrawnRowsAreFrozen == Spec => RowFrozen
<1>1. ASSUME Typed, [Next]_vars
      PROVE  [\A u \in Users : deletedAt[u] =>
                 deletedAt'[u] /\ refreshToken'[u] = refreshToken[u]]_vars
  <2> SUFFICES ASSUME NEW u \in Users, deletedAt[u]
               PROVE  deletedAt'[u] /\ refreshToken'[u] = refreshToken[u]
    BY Zenon
  <2>1. CASE UNCHANGED <<refreshToken, deletedAt>>
    BY <2>1, Zenon
  <2>2. ASSUME NEW r \in Requests, RowStep(r, UserOf(r))
        PROVE  deletedAt'[u] /\ refreshToken'[u] = refreshToken[u]
    <3>1. CASE UserOf(r) = u
      BY <2>2, <3>1 DEF RowStep
    <3>2. CASE UserOf(r) # u
      BY <2>2, <3>2, Zenon DEF RowStep
    <3>. QED  BY <3>1, <3>2
  <2>. QED  BY <1>1, <2>1, <2>2, RowsWritten
<1>. QED  BY <1>1, InitTyped, NextTyped, PTL DEF Spec, RowFrozen

\* A row without a token gets one by a login only.
THEOREM LogoutsStay == Spec => LoggedOutStays
<1> DEFINE ByLogin(u) == refreshToken[u] = Null /\ refreshToken'[u] # Null =>
                           \E r \in Requests : /\ req[r].op \in LoginOps /\ UserOf(r) = u
                                               /\ req[r].pc = "store" /\ req'[r].pc = "answer"
<1>1. ASSUME Typed, [Next]_vars  PROVE [\A u \in Users : ByLogin(u)]_vars
  <2> SUFFICES ASSUME NEW u \in Users, refreshToken[u] = Null, refreshToken'[u] # Null
               PROVE  \E r \in Requests : /\ req[r].op \in LoginOps /\ UserOf(r) = u
                                          /\ req[r].pc = "store" /\ req'[r].pc = "answer"
    BY Zenon
  <2>1. PICK r \in Requests : RowStep(r, UserOf(r))
    BY <1>1, RowsWritten
  <2>2. UserOf(r) = u
    BY <2>1 DEF RowStep
  <2>3. req[r].op \notin LoginOps => req[r].token # Null
    BY <1>1, <2>1, WorkingOn DEF RowStep
  <2>4. req[r].op \in LoginOps /\ req[r].pc = "store"
    BY <2>1, <2>2, <2>3, OpsAre DEF RowStep
  <2>5. req'[r].pc = "answer"
    <3>1. req[r] \in Request
      BY <1>1, <2>1, WorkingOn DEF RowStep
    <3>2. req \in [Requests -> Request \cup {Done}]
      BY <1>1 DEF Typed, TypeOK
    <3>. QED  BY <2>1, <3>1, <3>2 DEF RowStep, Advance, Request
  <2>. QED  BY <2>2, <2>4, <2>5
<1>. QED  BY <1>1, InitTyped, NextTyped, PTL DEF Spec, LoggedOutStays

-----------------------------------------------------------------------------
(* What a step does to the request it is made for.                         *)

\* How each action that leaves the rows alone moves its request.
Quiet == UNCHANGED <<refreshToken, deletedAt>>
Moved(r, q) ==
    /\ req'[r] = q
    /\ \A s \in Requests : s # r => req'[s] = req[s]

LEMMA Advances ==
  ASSUME Typed, NEW r \in Requests, Working(r), NEW pc, Advance(r, pc)
  PROVE  /\ Moved(r, [req[r] EXCEPT !.pc = pc])
         /\ req'[r].pc = pc /\ req'[r].op = req[r].op /\ req'[r].client = req[r].client
         /\ req'[r].token = req[r].token /\ req'[r].new = req[r].new
         /\ UserOf(r)' = UserOf(r)
<1>1. req \in [Requests -> Request \cup {Done}] /\ req[r] \in Request
  BY WorkingOn DEF Typed, TypeOK
<1>. QED  BY <1>1 DEF Advance, Moved, Request, UserOf

LEMMA Ends ==
  ASSUME Typed, NEW r \in Requests, req' = [req EXCEPT ![r] = Done]
  PROVE  Moved(r, Done) /\ ~Working(r)'
BY DEF Typed, TypeOK, Moved, Working, Done

\* The kinds of steps.
StepKinds ==
    \/ \E r \in Requests, c \in Clients, op \in Ops, pc \in Steps :
          Begin(r, c, op, pc) /\ pc # "answer"
    \/ \E r \in Requests : Working(r) /\
         \/ Refuse(r) /\ req[r].pc # "answer"
         \/ CanActivate(r) /\ ~Refuse(r)
         \/ FindRefreshToken(r) /\ ~Refuse(r)
         \/ FindUser(r) /\ ~Refuse(r)
         \/ RowStep(r, UserOf(r))
         \/ /\ WriteNothing(r)
            /\ \/ req[r].op \in LoginOps /\ deletedAt[UserOf(r)]
               \/ /\ req[r].op = "refresh" /\ req[r].pc = "store"
                  /\ deletedAt[UserOf(r)] \/ refreshToken[UserOf(r)] # req[r].token
               \/ /\ req[r].op = "logout"
                  /\ deletedAt[UserOf(r)] \/ refreshToken[UserOf(r)] # req[r].token
               \/ req[r].op = "authWithdraw"
            /\ req[r].pc # "answer"
         \/ Answer(r)
         \/ Fail(r)
    \/ UNCHANGED <<refreshToken, deletedAt, session, req, clear, plain>>

LEMMA OpKinds == Typed /\ [Next]_vars => StepKinds
<1> SUFFICES ASSUME Typed, [Next]_vars  PROVE StepKinds
  OBVIOUS
<1>1. ASSUME NEW r \in Requests, NEW c \in Clients,
             \/ Login(r, c) \/ PassLogin(r, c) \/ Refresh(r, c)
             \/ Logout(r, c) \/ Withdraw(r, c) \/ AuthWithdraw(r, c)
      PROVE  StepKinds
  <2>1. \E op \in Ops, pc \in Steps : Begin(r, c, op, pc) /\ pc # "answer"
    BY <1>1 DEF Login, PassLogin, Refresh, Logout, Withdraw, AuthWithdraw, Ops, Steps, LoginOps
  <2>. QED  BY <2>1 DEF StepKinds
<1>2. ASSUME NEW r \in Requests, Handle(r) \/ Fail(r)  PROVE StepKinds
  <2>1. Working(r)
    BY <1>2, AtStep DEF Handle, CanActivate, FindRefreshToken, FindUser, SaveRefreshToken,
         UpdateRefreshToken, RemoveRefreshToken, DeleteUser, CheckPassword, Answer, Fail, Steps
  <2>2. Shape(req[r]) /\ req[r].op \in Ops /\ UserOf(r) \in Users
    BY <2>1, WorkingOn
  <2>3. CASE \/ SaveRefreshToken(r) \/ UpdateRefreshToken(r)
             \/ RemoveRefreshToken(r) \/ DeleteUser(r)
    <3>1. CASE RowStep(r, UserOf(r))
      BY <2>1, <3>1 DEF StepKinds
    <3>2. CASE SaveRefreshToken(r) /\ ~RowStep(r, UserOf(r))
      <4>1. CASE WriteNothing(r) /\ deletedAt[UserOf(r)]
        BY <2>1, <3>2, <4>1 DEF StepKinds, SaveRefreshToken
      <4>2. CASE Write(r, UserOf(r), req[r].new, FALSE) /\ ~deletedAt[UserOf(r)]
        BY <2>1, <2>2, <3>2, <4>2 DEF SaveRefreshToken, Write, RowStep, Typed, TypeOK
      <4>. QED  BY <3>2, <4>1, <4>2 DEF SaveRefreshToken
    <3>3. CASE UpdateRefreshToken(r) /\ ~RowStep(r, UserOf(r))
      <4>1. CASE WriteNothing(r) /\ (deletedAt[UserOf(r)] \/ refreshToken[UserOf(r)] # req[r].token)
        BY <2>1, <3>3, <4>1 DEF StepKinds, UpdateRefreshToken
      <4>2. CASE /\ Write(r, UserOf(r), req[r].new, FALSE)
                 /\ ~deletedAt[UserOf(r)] /\ refreshToken[UserOf(r)] = req[r].token
        BY <2>1, <2>2, <3>3, <4>2 DEF UpdateRefreshToken, Write, RowStep, Typed, TypeOK
      <4>. QED  BY <3>3, <4>1, <4>2 DEF UpdateRefreshToken
    <3>4. CASE RemoveRefreshToken(r) /\ ~RowStep(r, UserOf(r))
      <4>0. req[r].op = "logout" /\ req[r].pc = "remove"
        BY <2>2, <3>4, OpsAre DEF Shape, RemoveRefreshToken
      <4>1. CASE WriteNothing(r) /\ (deletedAt[UserOf(r)] \/ refreshToken[UserOf(r)] # req[r].token)
        BY <2>1, <4>0, <4>1 DEF StepKinds
      <4>2. CASE /\ Write(r, UserOf(r), Null, FALSE)
                 /\ ~deletedAt[UserOf(r)] /\ refreshToken[UserOf(r)] = req[r].token
        BY <2>1, <2>2, <3>4, <4>0, <4>2 DEF Write, RowStep, Typed, TypeOK
      <4>. QED  BY <3>4, <4>1, <4>2 DEF RemoveRefreshToken
    <3>5. CASE DeleteUser(r) /\ ~RowStep(r, UserOf(r))
      <4>0. req[r].op = "withdraw" /\ req[r].pc = "delete"
        BY <2>2, <3>5, OpsAre DEF Shape, DeleteUser
      <4>. QED  BY <2>1, <2>2, <3>5, <4>0 DEF DeleteUser, Write, RowStep, Typed, TypeOK
    <3>. QED  BY <2>3, <3>1, <3>2, <3>3, <3>4, <3>5
  <2>4. CASE CheckPassword(r)
    <3>1. req[r].op = "authWithdraw" /\ req[r].pc = "nothing"
      BY <2>2, <2>4, OpsAre DEF Shape, CheckPassword
    <3>. QED  BY <2>1, <2>4, <3>1 DEF StepKinds, CheckPassword
  <2>5. CASE CanActivate(r) \/ FindRefreshToken(r) \/ FindUser(r)
    <3>1. req[r].pc # "answer"
      BY <2>5 DEF CanActivate, FindRefreshToken, FindUser
    <3>. QED  BY <2>1, <2>5, <3>1 DEF StepKinds
  <2>6. CASE Answer(r) \/ Fail(r)
    BY <2>1, <2>6 DEF StepKinds
  <2>. QED  BY <1>2, <2>3, <2>4, <2>5, <2>6 DEF Handle
<1>3. CASE Tick \/ UNCHANGED vars
  BY <1>3 DEF Tick, vars, StepKinds
<1>. QED  BY <1>1, <1>2, <1>3 DEF Next

-----------------------------------------------------------------------------
\* A refresh whose row nobody else has written still finds its token in it,
\* and after its own write the new one.
Found(r) ==
    r \in clear =>
      /\ Working(r) /\ req[r].op = "refresh" /\ req[r].pc \in {"user", "store", "answer"}
      /\ req[r].pc # "answer" => /\ ~deletedAt[UserOf(r)]
                                 /\ refreshToken[UserOf(r)] = req[r].token
      /\ req[r].pc = "answer" => refreshToken[UserOf(r)] = req[r].new

LEMMA NextFound ==
  ASSUME Typed, \A r \in Requests : Found(r), StepKinds, NEW s \in Requests
  PROVE  Found(s)'
\* A request that no step was made for, and whose row no step has written.
<1>1. ASSUME s \in clear' => s \in clear, req'[s] = req[s],
             s \in clear' => /\ refreshToken'[UserOf(s)] = refreshToken[UserOf(s)]
                             /\ deletedAt'[UserOf(s)] = deletedAt[UserOf(s)]
      PROVE  Found(s)'
  BY <1>1 DEF Found, Working, UserOf
<1>2. ASSUME NEW r \in Requests, NEW c \in Clients, NEW op \in Ops, NEW pc \in Steps,
             Begin(r, c, op, pc)
      PROVE  Found(s)'
  <2>1. r \notin clear'
    BY <1>2 DEF Begin, Found
  <2>2. s # r => req'[s] = req[s]
    BY <1>2 DEF Begin, Typed, TypeOK
  <2>3. UNCHANGED <<refreshToken, deletedAt, clear>>
    BY <1>2 DEF Begin
  <2>4. CASE s = r
    BY <2>1, <2>4 DEF Found
  <2>5. CASE s # r
    BY <1>1, <2>2, <2>3, <2>5
  <2>. QED  BY <2>4, <2>5
<1>3. ASSUME NEW r \in Requests, Refuse(r) \/ Answer(r) \/ Fail(r)  PROVE Found(s)'
  <2>1. /\ clear' = clear \ {r} /\ UNCHANGED <<refreshToken, deletedAt>>
        /\ req' = [req EXCEPT ![r] = Done]
    BY <1>3 DEF Refuse, Answer, Fail
  <2>2. s # r => req'[s] = req[s]
    BY <2>1 DEF Typed, TypeOK
  <2>3. CASE s = r
    BY <2>1, <2>3 DEF Found
  <2>4. CASE s # r
    BY <1>1, <2>1, <2>2, <2>4
  <2>. QED  BY <2>3, <2>4
<1>4. ASSUME NEW r \in Requests, Working(r), CanActivate(r), ~Refuse(r)  PROVE Found(s)'
  <2>1. PICK pc : Advance(r, pc)
    BY <1>4 DEF CanActivate
  <2>2. UNCHANGED <<refreshToken, deletedAt, clear>> /\ r \notin clear
    BY <1>4 DEF CanActivate, Found
  <2>3. s # r => req'[s] = req[s]
    BY <1>4, <2>1, Advances DEF Moved
  <2>4. CASE s = r
    BY <2>2, <2>4 DEF Found
  <2>5. CASE s # r
    BY <1>1, <2>2, <2>3, <2>5
  <2>. QED  BY <2>4, <2>5
<1>5. ASSUME NEW r \in Requests, Working(r), FindRefreshToken(r), ~Refuse(r)  PROVE Found(s)'
  <2>1. /\ Advance(r, "user") /\ clear' = clear \cup {r}
        /\ UNCHANGED <<refreshToken, deletedAt>> /\ req[r].pc = "find"
        /\ ~deletedAt[req[r].token.id] /\ refreshToken[req[r].token.id] = req[r].token
    BY <1>5 DEF FindRefreshToken
  <2>2. /\ req[r].op = "refresh" /\ req[r].token.id = UserOf(r)
    BY <1>5, <2>1, WorkingOn, OpsAre DEF Shape
  <2>3. CASE s = r
    <3>1. /\ req'[r].pc = "user" /\ req'[r].op = "refresh" /\ req'[r].token = req[r].token
          /\ UserOf(r)' = UserOf(r)
      BY <1>5, <2>1, <2>2, Advances
    <3>. QED  BY <2>1, <2>2, <2>3, <3>1 DEF Found, Working
  <2>4. CASE s # r
    <3>1. req'[s] = req[s]
      BY <1>5, <2>1, <2>4, Advances DEF Moved
    <3>. QED  BY <1>1, <2>1, <2>4, <3>1
  <2>. QED  BY <2>3, <2>4
<1>6. ASSUME NEW r \in Requests, Working(r), FindUser(r), ~Refuse(r)  PROVE Found(s)'
  <2> DEFINE t == [id |-> UserOf(r), iat |-> now]
  <2>1. /\ req' = [req EXCEPT ![r].pc = "store", ![r].new = t]
        /\ UNCHANGED <<refreshToken, deletedAt, clear>> /\ req[r].pc = "user"
    BY <1>6 DEF FindUser
  <2> HIDE DEF t
  <2>2. req \in [Requests -> Request \cup {Done}] /\ req[r] \in Request
    BY <1>6, WorkingOn DEF Typed, TypeOK
  <2>3. CASE s = r
    <3>1. /\ req'[r].pc = "store" /\ req'[r].op = req[r].op /\ req'[r].token = req[r].token
          /\ req'[r].client = req[r].client
      BY <2>1, <2>2 DEF Request
    <3>. QED  BY <2>1, <2>3, <3>1 DEF Found, Working, UserOf
  <2>4. CASE s # r
    <3>1. req'[s] = req[s]
      BY <2>1, <2>2, <2>4
    <3>. QED  BY <1>1, <2>1, <3>1
  <2>. QED  BY <2>3, <2>4
<1>7. ASSUME NEW r \in Requests, RowStep(r, UserOf(r))  PROVE Found(s)'
  <2>1. Working(r) /\ Advance(r, "answer") /\ UserOf(r) \in Users
    BY <1>7 DEF RowStep
  <2>2. CASE s = r
    <3>1. /\ req'[r].pc = "answer" /\ req'[r].op = req[r].op /\ req'[r].new = req[r].new
          /\ UserOf(r)' = UserOf(r)
      BY <2>1, Advances
    <3>2. r \in clear => req[r].op = "refresh"
      BY DEF Found
    <3>3. r \in clear => refreshToken'[UserOf(r)] = req[r].new
      BY <1>7, <3>2, OpsAre DEF RowStep
    <3>4. r \in clear' => r \in clear
      BY <1>7 DEF RowStep
    <3>. QED  BY <2>2, <3>1, <3>2, <3>3, <3>4 DEF Found, Working
  <2>3. CASE s # r
    <3>1. req'[s] = req[s]
      BY <2>1, <2>3, Advances DEF Moved
    <3>2. s \in clear' => s \in clear /\ UserOf(s) # UserOf(r)
      BY <1>7, <2>3 DEF RowStep
    <3>3. s \in clear' => UserOf(s) \in Users
      BY <3>2, WorkingOn DEF Found
    <3>4. s \in clear' => /\ refreshToken'[UserOf(s)] = refreshToken[UserOf(s)]
                          /\ deletedAt'[UserOf(s)] = deletedAt[UserOf(s)]
      BY <1>7, <3>2, <3>3 DEF RowStep
    <3>. QED  BY <1>1, <3>1, <3>2, <3>4
  <2>. QED  BY <2>2, <2>3
<1>8. ASSUME NEW r \in Requests, Working(r), WriteNothing(r), r \notin clear  PROVE Found(s)'
  <2>1. Advance(r, "answer") /\ UNCHANGED <<refreshToken, deletedAt, clear>>
    BY <1>8 DEF WriteNothing
  <2>2. CASE s = r
    BY <1>8, <2>1, <2>2 DEF Found
  <2>3. CASE s # r
    <3>1. req'[s] = req[s]
      BY <1>8, <2>1, <2>3, Advances DEF Moved
    <3>. QED  BY <1>1, <2>1, <3>1
  <2>. QED  BY <2>2, <2>3
<1>9. CASE UNCHANGED <<refreshToken, deletedAt, session, req, clear, plain>>
  BY <1>1, <1>9
<1>10. ASSUME NEW r \in Requests, Working(r), WriteNothing(r), r \in clear,
              \/ req[r].op \in LoginOps
              \/ /\ req[r].op = "refresh" /\ req[r].pc = "store"
                 /\ deletedAt[UserOf(r)] \/ refreshToken[UserOf(r)] # req[r].token
              \/ req[r].op = "logout"
              \/ req[r].op = "authWithdraw"
       PROVE  FALSE
  BY <1>10, OpsAre DEF Found
<1>. QED  BY <1>2, <1>3, <1>4, <1>5, <1>6, <1>7, <1>8, <1>9, <1>10 DEF StepKinds

\* A refresh answers with the token of the row, unless the row was written by
\* another request after the old token had been found in it.
THEOREM AnswersAreStored == Spec => []AnswerIsStored
<1> DEFINE All == \A r \in Requests : Found(r)
<1>1. Init => All
  BY DEF Init, Found
<1>2. Typed /\ All /\ [Next]_vars => All'
  BY OpKinds, NextFound
<1>3. Typed /\ All => AnswerIsStored
  BY DEF Typed, TypeOK, Found, AnswerIsStored
<1>. QED  BY <1>1, <1>2, <1>3, InitTyped, NextTyped, PTL DEF Spec

-----------------------------------------------------------------------------
\* The requests of a plain client's account are its own, and one at a time; it
\* has the token of the row until its request is answered with the new one.
InStepBy(c, r) ==
    LET u == Owner[c] IN
    /\ req[r].pc # "answer" =>
         /\ session[c] = refreshToken[u]
         /\ req[r].op \notin LoginOps => req[r].token = session[c]
    /\ req[r].pc = "answer" =>
         /\ req[r].op \in LoginOps \cup {"refresh"} => refreshToken[u] = req[r].new
         /\ req[r].op = "logout" => refreshToken[u] = Null
         /\ req[r].op = "authWithdraw" => session[c] = refreshToken[u]
         /\ req[r].op # "withdraw"
InStep(c) ==
    c \in plain /\ ~deletedAt[Owner[c]] =>
      /\ \A r \in Requests : Working(r) /\ UserOf(r) = Owner[c] => req[r].client = c
      /\ \A r, s \in Requests :
            (Working(r) /\ req[r].client = c /\ Working(s) /\ req[s].client = c) => r = s
      /\ AtRest(c) => session[c] = refreshToken[Owner[c]]
      /\ \A r \in Requests : Working(r) /\ req[r].client = c => InStepBy(c, r)

\* A step keeps a plain client in step if the request it is made for is
\* another's and leaves the row alone.
LEMMA Elsewhere ==
  ASSUME Typed, NEW c \in Clients, InStep(c), NEW r \in Requests, Working(r),
         req[r].client # c, plain' \subseteq plain,
         \A s \in Requests : s # r => req'[s] = req[s],
         ~Working(r)' \/ req'[r].client = req[r].client,
         session'[c] = session[c],
         c \in plain' /\ ~deletedAt'[Owner[c]] =>
            ~deletedAt[Owner[c]] /\ refreshToken'[Owner[c]] = refreshToken[Owner[c]]
  PROVE  InStep(c)'
<1> SUFFICES ASSUME c \in plain', ~deletedAt'[Owner[c]]
             PROVE  /\ \A s \in Requests :
                          Working(s)' /\ UserOf(s)' = Owner[c] => req'[s].client = c
                    /\ \A s, t \in Requests :
                          (Working(s)' /\ req'[s].client = c /\ Working(t)' /\ req'[t].client = c) => s = t
                    /\ AtRest(c)' => session'[c] = refreshToken'[Owner[c]]
                    /\ \A s \in Requests :
                          Working(s)' /\ req'[s].client = c => InStepBy(c, s)'
  BY DEF InStep
<1>1. /\ c \in plain /\ ~deletedAt[Owner[c]] /\ refreshToken'[Owner[c]] = refreshToken[Owner[c]]
  OBVIOUS
<1>2. /\ \A s \in Requests : Working(s) /\ UserOf(s) = Owner[c] => req[s].client = c
      /\ \A s, t \in Requests :
            (/\ Working(s) /\ req[s].client = c
             /\ Working(t) /\ req[t].client = c) => s = t
      /\ AtRest(c) => session[c] = refreshToken[Owner[c]]
      /\ \A s \in Requests : Working(s) /\ req[s].client = c => InStepBy(c, s)
  BY <1>1 DEF InStep
<1>3. \A s \in Requests : s # r =>
         /\ Working(s)' = Working(s) /\ UserOf(s)' = UserOf(s)
         /\ req'[s].client = req[s].client
         /\ InStepBy(c, s) => InStepBy(c, s)'
  BY <1>1 DEF Working, UserOf, InStepBy
<1>4. Working(r)' => /\ req'[r].client # c /\ UserOf(r)' # Owner[c]
  BY <1>2 DEF UserOf
<1>5. AtRest(c)' => AtRest(c)
  BY <1>3 DEF AtRest
<1>. QED  BY <1>1, <1>2, <1>3, <1>4, <1>5

\* A step made for the client's own request: what is left to show is that the
\* request stays in step, or that the client is in step at rest.
LEMMA OwnToken ==
  ASSUME Typed, NEW c \in Clients, InStep(c), NEW r \in Requests, Working(r),
         req[r].client = c, plain' \subseteq plain,
         \A s \in Requests : s # r => req'[s] = req[s],
         ~Working(r)' \/ req'[r].client = c,
         c \in plain' /\ ~deletedAt'[Owner[c]] =>
            /\ ~deletedAt[Owner[c]]
            /\ InStepBy(c, r) => IF Working(r)' THEN InStepBy(c, r)'
                                 ELSE session'[c] = refreshToken'[Owner[c]]
  PROVE  InStep(c)'
<1> SUFFICES ASSUME c \in plain', ~deletedAt'[Owner[c]]
             PROVE  /\ \A s \in Requests :
                          Working(s)' /\ UserOf(s)' = Owner[c] => req'[s].client = c
                    /\ \A s, t \in Requests :
                          (Working(s)' /\ req'[s].client = c /\ Working(t)' /\ req'[t].client = c) => s = t
                    /\ AtRest(c)' => session'[c] = refreshToken'[Owner[c]]
                    /\ \A s \in Requests :
                          Working(s)' /\ req'[s].client = c => InStepBy(c, s)'
  BY DEF InStep
<1>1. c \in plain /\ ~deletedAt[Owner[c]]
  OBVIOUS
<1>2. /\ \A s \in Requests : Working(s) /\ UserOf(s) = Owner[c] => req[s].client = c
      /\ \A s, t \in Requests :
            (/\ Working(s) /\ req[s].client = c
             /\ Working(t) /\ req[t].client = c) => s = t
      /\ InStepBy(c, r)
  BY <1>1 DEF InStep
<1>3. \A s \in Requests : s # r =>
         /\ Working(s)' = Working(s) /\ UserOf(s)' = UserOf(s)
         /\ req'[s].client = req[s].client
  BY DEF Working, UserOf
<1>4. \A s \in Requests : Working(s)' /\ req'[s].client = c => s = r
  BY <1>2, <1>3
<1>5. AtRest(c)' => ~Working(r)'
  BY DEF AtRest
<1>6. Working(r)' => InStepBy(c, r)'
  BY <1>2
<1>7. \A s \in Requests : Working(s)' /\ req'[s].client = c => InStepBy(c, s)'
  BY <1>4, <1>6 DEF InStepBy
<1>8. AtRest(c)' => session'[c] = refreshToken'[Owner[c]]
  BY <1>2, <1>5
<1>9. \A s \in Requests : Working(s)' /\ UserOf(s)' = Owner[c] => req'[s].client = c
  BY <1>2, <1>3
<1>. QED  BY <1>4, <1>7, <1>8, <1>9

LEMMA NextInStep ==
  ASSUME Typed, NEW c \in Clients, InStep(c), StepKinds
  PROVE  InStep(c)'
<1> DEFINE u == Owner[c]
<1>0. u \in Users
  OBVIOUS
<1>1. ASSUME NEW r \in Requests, NEW d \in Clients, NEW op \in Ops, NEW pc \in Steps,
             Begin(r, d, op, pc), pc # "answer"
      PROVE  InStep(c)'
  <2> SUFFICES ASSUME c \in plain', ~deletedAt'[u]  PROVE InStep(c)'
    BY DEF InStep
  <2>1. /\ UNCHANGED <<refreshToken, deletedAt, session>> /\ c \in plain /\ ~Working(r)
        /\ u = Owner[d] => c = d
        /\ c = d => \A s \in Requests : Working(s) => req[s].client # c
    BY <1>1 DEF Begin
  <2>2. /\ \A s \in Requests : s # r => req'[s] = req[s]
        /\ req'[r].op = op /\ req'[r].pc = pc /\ req'[r].client = d
        /\ req'[r].token = session[d]
    BY <1>1 DEF Begin, Typed, TypeOK
  <2>3. /\ \A s \in Requests : Working(s) /\ UserOf(s) = u => req[s].client = c
        /\ \A s, t \in Requests :
              (/\ Working(s) /\ req[s].client = c
               /\ Working(t) /\ req[t].client = c) => s = t
        /\ AtRest(c) => session[c] = refreshToken[u]
        /\ \A s \in Requests : Working(s) /\ req[s].client = c => InStepBy(c, s)
    BY <2>1 DEF InStep
  <2>4. \A s \in Requests : s # r =>
           /\ Working(s)' = Working(s) /\ UserOf(s)' = UserOf(s)
           /\ req'[s].client = req[s].client
           /\ InStepBy(c, s) => InStepBy(c, s)'
    BY <2>1, <2>2 DEF Working, UserOf, InStepBy
  <2>5. UserOf(r)' = Owner[d] /\ Working(r)'
    BY <1>1, <2>2 DEF UserOf, Working, Steps
  <2>6. CASE c = d
    <3>1. AtRest(c)
      BY <2>1, <2>6 DEF AtRest
    <3>2. InStepBy(c, r)'
      BY <1>1, <2>1, <2>2, <2>3, <2>6, <3>1 DEF InStepBy
    <3>3. ~AtRest(c)'
      BY <2>2, <2>5, <2>6 DEF AtRest
    <3>4. \A s \in Requests : Working(s)' /\ UserOf(s)' = u => req'[s].client = c
      BY <2>2, <2>3, <2>4, <2>6
    <3>5. \A s \in Requests : Working(s)' /\ req'[s].client = c => s = r
      BY <2>1, <2>4, <2>6
    <3>6. \A s \in Requests : Working(s)' /\ req'[s].client = c => InStepBy(c, s)'
      BY <3>2, <3>5 DEF InStepBy
    <3>. QED  BY <3>3, <3>4, <3>5, <3>6 DEF InStep
  <2>7. CASE c # d
    <3>1. AtRest(c)' => AtRest(c)
      BY <2>4, <2>1 DEF AtRest
    <3>2. \A s \in Requests : Working(s)' /\ UserOf(s)' = u => req'[s].client = c
      BY <2>1, <2>3, <2>4, <2>5, <2>7
    <3>3. \A s, t \in Requests : (Working(s)' /\ req'[s].client = c /\ Working(t)' /\ req'[t].client = c) => s = t
      BY <2>2, <2>3, <2>4, <2>7
    <3>4. ASSUME NEW s \in Requests, Working(s)', req'[s].client = c
          PROVE  InStepBy(c, s)'
      <4>1. s # r
        BY <2>2, <2>7, <3>4
      <4>2. InStepBy(c, s)
        BY <2>3, <2>4, <3>4, <4>1
      <4>. QED  BY <2>4, <4>1, <4>2
    <3>5. AtRest(c)' => session'[c] = refreshToken'[u]
      BY <2>1, <2>3, <3>1
    <3>. QED  BY <3>2, <3>3, <3>4, <3>5 DEF InStep
  <2>. QED  BY <2>6, <2>7
<1>2. ASSUME NEW r \in Requests, Working(r), Refuse(r), req[r].pc # "answer"
      PROVE  InStep(c)'
  <2>1. /\ UNCHANGED <<refreshToken, deletedAt, session, plain>>
        /\ req' = [req EXCEPT ![r] = Done]
    BY <1>2 DEF Refuse
  <2>2. (\A s \in Requests : s # r => req'[s] = req[s]) /\ ~Working(r)'
    BY <2>1, Ends DEF Moved
  <2>3. CASE req[r].client # c
    BY <1>2, <2>1, <2>2, <2>3, Elsewhere
  <2>4. CASE req[r].client = c
    <3>1. InStepBy(c, r) => session'[c] = refreshToken'[u]
      BY <1>2, <2>1 DEF InStepBy
    <3>. QED  BY <1>2, <2>1, <2>2, <2>4, <3>1, OwnToken
  <2>. QED  BY <2>3, <2>4
<1>3. ASSUME NEW r \in Requests, Working(r), Fail(r)  PROVE InStep(c)'
  <2>1. /\ UNCHANGED <<refreshToken, deletedAt, session>> /\ plain' = plain \ {req[r].client}
        /\ req' = [req EXCEPT ![r] = Done]
    BY <1>3 DEF Fail
  <2>2. (\A s \in Requests : s # r => req'[s] = req[s]) /\ ~Working(r)'
    BY <2>1, Ends DEF Moved
  <2>3. CASE req[r].client # c
    BY <1>3, <2>1, <2>2, <2>3, Elsewhere
  <2>4. CASE req[r].client = c
    BY <2>1, <2>4 DEF InStep
  <2>. QED  BY <2>3, <2>4
\* A handler advances without writing the row.
<1>4. ASSUME NEW r \in Requests, Working(r),
             UNCHANGED <<refreshToken, deletedAt, session, plain>>,
             \A s \in Requests : s # r => req'[s] = req[s],
             req'[r].client = req[r].client,
             c \in plain /\ ~deletedAt[u] /\ req[r].client = c
                /\ Working(r)' /\ InStepBy(c, r) => InStepBy(c, r)',
             Working(r)'
      PROVE  InStep(c)'
  <2>1. CASE req[r].client # c
    BY <1>4, <2>1, Elsewhere
  <2>2. CASE req[r].client = c
    BY <1>4, <2>2, OwnToken
  <2>. QED  BY <2>1, <2>2
<1>5. ASSUME NEW r \in Requests, Working(r), CanActivate(r) \/ FindRefreshToken(r), ~Refuse(r)
      PROVE  InStep(c)'
  <2>1. PICK pc \in {"remove", "delete", "nothing", "user"} : Advance(r, pc)
    BY <1>5 DEF CanActivate, FindRefreshToken
  <2>2. /\ UNCHANGED <<refreshToken, deletedAt, session, plain>> /\ req[r].pc # "answer"
    BY <1>5 DEF CanActivate, FindRefreshToken
  <2>3. /\ \A s \in Requests : s # r => req'[s] = req[s]
        /\ req'[r].pc = pc /\ req'[r].op = req[r].op /\ req'[r].client = req[r].client
        /\ req'[r].token = req[r].token
    BY <1>5, <2>1, Advances DEF Moved
  <2>4. Working(r)'
    BY <2>3 DEF Working
  <2>5. InStepBy(c, r) => InStepBy(c, r)'
    BY <2>2, <2>3 DEF InStepBy
  <2>. QED  BY <1>4, <1>5, <2>2, <2>3, <2>4, <2>5
<1>6. ASSUME NEW r \in Requests, Working(r), FindUser(r), ~Refuse(r)  PROVE InStep(c)'
  <2> DEFINE t == [id |-> UserOf(r), iat |-> now]
  <2>1. /\ req' = [req EXCEPT ![r].pc = "store", ![r].new = t]
        /\ UNCHANGED <<refreshToken, deletedAt, session, plain>> /\ req[r].pc = "user"
    BY <1>6 DEF FindUser
  <2> HIDE DEF t
  <2>2. req \in [Requests -> Request \cup {Done}] /\ req[r] \in Request
    BY <1>6, WorkingOn DEF Typed, TypeOK
  <2>3. /\ \A s \in Requests : s # r => req'[s] = req[s]
        /\ req'[r].pc = "store" /\ req'[r].op = req[r].op /\ req'[r].client = req[r].client
        /\ req'[r].token = req[r].token
    BY <2>1, <2>2 DEF Request
  <2>4. Working(r)'
    BY <2>3 DEF Working
  <2>5. InStepBy(c, r) => InStepBy(c, r)'
    BY <2>1, <2>3 DEF InStepBy
  <2>. QED  BY <1>4, <1>6, <2>1, <2>3, <2>4, <2>5
<1>7. ASSUME NEW r \in Requests, RowStep(r, UserOf(r))  PROVE InStep(c)'
  <2>1. Working(r) /\ Advance(r, "answer") /\ UNCHANGED <<session, plain>> /\ UserOf(r) \in Users
    BY <1>7 DEF RowStep
  <2>2. /\ \A s \in Requests : s # r => req'[s] = req[s]
        /\ req'[r].pc = "answer" /\ req'[r].op = req[r].op /\ req'[r].client = req[r].client
        /\ req'[r].token = req[r].token /\ req'[r].new = req[r].new
    BY <2>1, Advances DEF Moved
  <2>3. Working(r)'
    BY <2>2 DEF Working
  <2>4. CASE UserOf(r) # u
    <3>1. /\ refreshToken'[u] = refreshToken[u] /\ deletedAt'[u] = deletedAt[u]
          /\ req[r].client # c
      BY <1>7, <2>4, <1>0, Zenon DEF RowStep, UserOf
    <3>. QED  BY <2>1, <2>2, <3>1, Elsewhere
  <2>5. CASE UserOf(r) = u
    <3> SUFFICES ASSUME c \in plain', ~deletedAt'[u]  PROVE InStep(c)'
      BY DEF InStep
    <3>1. ~deletedAt[u] /\ req[r].op # "withdraw"
      BY <1>7, <2>5, OpsAre DEF RowStep
    <3>2. req[r].client = c
      BY <2>1, <2>5, <3>1 DEF InStep
    <3>3. InStepBy(c, r)'
      BY <1>7, <2>2, <2>5, <3>1, OpsAre DEF RowStep, InStepBy
    <3>. QED  BY <2>1, <2>2, <2>3, <3>1, <3>2, <3>3, OwnToken
  <2>. QED  BY <2>4, <2>5
<1>8. ASSUME NEW r \in Requests, Working(r), WriteNothing(r), req[r].pc # "answer",
             \/ req[r].op \in LoginOps /\ deletedAt[UserOf(r)]
             \/ /\ req[r].op \in {"refresh", "logout"}
                /\ deletedAt[UserOf(r)] \/ refreshToken[UserOf(r)] # req[r].token
             \/ req[r].op = "authWithdraw"
      PROVE  InStep(c)'
  <2>1. Advance(r, "answer") /\ UNCHANGED <<refreshToken, deletedAt, session, plain>>
    BY <1>8 DEF WriteNothing
  <2>2. /\ \A s \in Requests : s # r => req'[s] = req[s]
        /\ req'[r].pc = "answer" /\ req'[r].op = req[r].op /\ req'[r].client = req[r].client
    BY <1>8, <2>1, Advances DEF Moved
  <2>3. Working(r)'
    BY <2>2 DEF Working
  <2>4. ASSUME c \in plain, ~deletedAt[u], req[r].client = c, InStepBy(c, r)
        PROVE  InStepBy(c, r)'
    <3>1. UserOf(r) = u
      BY <2>4 DEF UserOf
    <3>2. req[r].op = "authWithdraw" /\ session[c] = refreshToken[u]
      BY <1>8, <2>4, <3>1, OpsAre DEF InStepBy
    <3>. QED  BY <2>1, <2>2, <3>2, OpsAre DEF InStepBy
  <2>. QED  BY <1>4, <1>8, <2>1, <2>2, <2>3, <2>4
<1>9. ASSUME NEW r \in Requests, Working(r), Answer(r)  PROVE InStep(c)'
  <2>1. /\ UNCHANGED <<refreshToken, deletedAt, plain>> /\ req[r].pc = "answer"
        /\ req' = [req EXCEPT ![r] = Done]
    BY <1>9 DEF Answer
  <2>2. (\A s \in Requests : s # r => req'[s] = req[s]) /\ ~Working(r)'
    BY <2>1, Ends DEF Moved
  <2>3. session \in [Clients -> Token \cup {Null}]
    BY DEF Typed, TypeOK
  <2>4. CASE req[r].client # c
    <3>1. session'[c] = session[c]
      BY <1>9, <2>3, <2>4 DEF Answer
    <3>. QED  BY <1>9, <2>1, <2>2, <2>4, <3>1, Elsewhere
  <2>5. CASE req[r].client = c
    <3>1. InStepBy(c, r) => session'[c] = refreshToken'[u]
      <4> SUFFICES ASSUME InStepBy(c, r)  PROVE session'[c] = refreshToken[u]
        BY <2>1
      <4>1. CASE req[r].op \in LoginOps \cup {"refresh"}
        BY <1>9, <2>1, <2>3, <2>5, <4>1 DEF Answer, InStepBy
      <4>2. CASE req[r].op = "logout"
        BY <1>9, <2>1, <2>3, <2>5, <4>2, OpsAre DEF Answer, InStepBy
      <4>3. CASE req[r].op = "authWithdraw"
        <5>1. session' = session
          BY <1>9, <4>3, OpsAre DEF Answer
        <5>. QED  BY <2>1, <4>3, <5>1 DEF InStepBy
      <4>4. req[r].op \in Ops /\ req[r].op # "withdraw"
        BY <1>9, <2>1, WorkingOn DEF InStepBy
      <4>. QED  BY <4>1, <4>2, <4>3, <4>4, OpsAre
    <3>. QED  BY <1>9, <2>1, <2>2, <2>5, <3>1, OwnToken
  <2>. QED  BY <2>4, <2>5
<1>10. ASSUME UNCHANGED <<refreshToken, deletedAt, session, req, clear, plain>>
       PROVE  InStep(c)'
  BY <1>10 DEF InStep, InStepBy, AtRest, Working, UserOf
<1>. QED  BY <1>1, <1>2, <1>3, <1>5, <1>6, <1>7, <1>8, <1>9, <1>10 DEF StepKinds

\* A client alone with its account that sends one request at a time and gets
\* every answer has the token of the row when it is at rest.
THEOREM PlainClientsInStep == Spec => []ClientInStep
<1> DEFINE All == \A c \in Clients : InStep(c)
<1>1. Init => All
  BY DEF Init, InStep, Working, Done
<1>2. Typed /\ All /\ [Next]_vars => All'
  BY OpKinds, NextInStep
<1>3. Typed /\ All => ClientInStep
  BY DEF Typed, TypeOK, InStep, ClientInStep
<1>. QED  BY <1>1, <1>2, <1>3, InitTyped, NextTyped, PTL DEF Spec

=============================================================================
