-------------------------- MODULE MatchmakingProofs --------------------------
(***************************************************************************)
(* Theorems about Matchmaking, for every choice of its constants.          *)
(***************************************************************************)
EXTENDS Matchmaking, TLAPS

USE MembersAssumption, EligibleAssumption, OwnerAssumption, NothingAssumption

-----------------------------------------------------------------------------
(***************************************************************************)
(* The inductive invariant.  JobOK says what a handler has established by  *)
(* the step it is at: often is the history of choices, rem the keys of the *)
(* history in Redis, log the table of matches.  It is a constant operator, *)
(* so that its monotonicity is a fact about values.                        *)
(***************************************************************************)
Chosen == PartnerSteps \ {"getMatched", "choose"}

JobOK(j, often, rem, log) ==
  /\ j.step \in BatchSteps \cup {"listRest", "nextUser"} => j.kind # "rematch"
  /\ j.step \in PartnerSteps \cup {"getTicket", "logFailure", "useTicket", "logRematch"}
       => j.user \in Users
  /\ j.kind = "rematch" /\ j.step \in PartnerSteps \cup {"logFailure", "useTicket"}
       => j.ticket \in Tickets /\ Owner[j.ticket] = j.user
  /\ j.step \in PartnerSteps \ {"getMatched"} =>
       \A i \in DOMAIN log :
         i <= j.seen /\ log[i].by = j.user => Partner(log[i]) \in j.except
  /\ j.step \in PartnerSteps \ {"getMatched"} => j.seen <= Len(log)
  /\ j.step \in Chosen => /\ j.partner \in Users \ {j.user}
                          /\ j.partner \notin j.except
  /\ j.step = "setCount" => j.count < often[j.partner]
  /\ j.step \in {"createReverse", "createForward"} => <<j.user, j.partner>> \in rem
  /\ j.step = "createForward" /\ TypeOf(j.kind) = "scheduled" =>
       \E k \in DOMAIN log : log[k] = Row(j.partner, j.user, "scheduled", j.user)
  /\ j.step = "useTicket" => /\ j.kind = "rematch"
                             /\ j.row \in DOMAIN log
                             /\ log[j.row].type = "rematching"
                             /\ log[j.row].my = j.user

JobsInv == \A h \in Handlers : JobOK(job[h], chosen, remembered, matches)

\* No two rematches about to use their tickets have made the same row, nor one
\* that a ticket has been used for.
RowsInv ==
  \A h \in Handlers :
    At(h, "useTicket") =>
      /\ \A t \in Tickets : usedFor[t] # job[h].row
      /\ \A g \in Handlers \ {h} : At(g, "useTicket") => job[g].row # job[h].row

\* The variables without what TypeOK says of the jobs' steps.
Typed ==
  /\ lock \in BOOLEAN /\ apart \in BOOLEAN
  /\ matchCount \in [Users -> Nat] /\ chosen \in [Users -> Nat]
  /\ remembered \in SUBSET (Users \X Users)
  /\ matches \in Seq(Rows)
  /\ failureLogs \in SUBSET Users
  /\ usedFor \in [Tickets -> Nat]
  /\ job \in [Handlers -> Jobs]
  /\ requests \in Nat /\ failures \in Nat /\ crashes \in Nat

IInv ==
  /\ Typed
  /\ JobsInv
  /\ RowsInv
  /\ ForwardAfterReverse
  /\ MatchesRemembered
  /\ TicketsBuyMatches
  /\ CountNotOver

\* The invariant gives the properties of the jobs.
LEMMA JobProperties == IInv => TypeOK /\ FreshPartner
<1> SUFFICES ASSUME IInv PROVE TypeOK /\ FreshPartner
  OBVIOUS
<1>1. TypeOK
  BY DEF IInv, Typed, JobsInv, JobOK, TypeOK, Chosen
<1>2. FreshPartner
  BY DEF IInv, JobsInv, JobOK, FreshPartner, Chosen
<1>. QED  BY <1>1, <1>2

-----------------------------------------------------------------------------
\* A job made by Task is well typed when its fields are.
LEMMA TaskType ==
  ASSUME NEW step \in Steps, NEW kind \in Kinds, NEW u \in Users \cup {NoUser},
         NEW t \in Tickets \cup {NoTicket}
  PROVE  Task(step, kind, u, t) \in Jobs
  BY DEF Task, Jobs

LEMMA IdleType == Idle \in Jobs /\ Idle.step = "idle"
  BY TaskType DEF Idle, Steps, Kinds, Task

LEMMA IdleOK ==
  ASSUME NEW often, NEW rem, NEW log PROVE JobOK(Idle, often, rem, log)
  BY IdleType DEF JobOK, PartnerSteps, BatchSteps, Chosen

LEMMA InitInv == Init => IInv
<1> SUFFICES ASSUME Init PROVE IInv
  OBVIOUS
<1> USE DEF Init
<1>1. Typed
  <2>1. matches \in Seq(Rows)
    OBVIOUS
  <2>2. job \in [Handlers -> Jobs]
    BY IdleType
  <2>. QED  BY <2>1, <2>2 DEF Typed
<1>2. JobsInv
  BY IdleOK DEF JobsInv
<1>3. RowsInv
  BY IdleType DEF RowsInv, At
<1>4. ForwardAfterReverse /\ MatchesRemembered
  BY DEF ForwardAfterReverse, MatchesRemembered
<1>5. TicketsBuyMatches /\ CountNotOver
  BY DEF TicketsBuyMatches, CountNotOver
<1>. QED  BY <1>1, <1>2, <1>3, <1>4, <1>5 DEF IInv

-----------------------------------------------------------------------------
(***************************************************************************)
(* How steps of handlers keep the parts of the invariant.                  *)
(***************************************************************************)
Grows ==
  /\ remembered \subseteq remembered'
  /\ Len(matches) <= Len(matches')
  /\ \A i \in DOMAIN matches : i \in DOMAIN matches' /\ matches'[i] = matches[i]
  /\ \A i \in DOMAIN matches' : i <= Len(matches) => i \in DOMAIN matches
  /\ \A u \in Users : chosen[u] <= chosen'[u]

\* What a handler has established stays established as the stores grow.
LEMMA JobOKMonotone ==
  ASSUME Typed, Typed', Grows, NEW j \in Jobs,
         JobOK(j, chosen, remembered, matches)
  PROVE  JobOK(j, chosen', remembered', matches')
<1>1. ASSUME j.step \in PartnerSteps \ {"getMatched"}
      PROVE  /\ j.seen <= Len(matches')
             /\ \A i \in DOMAIN matches' :
                  i <= j.seen /\ matches'[i].by = j.user => Partner(matches'[i]) \in j.except
  <2>1. j.seen <= Len(matches) /\ Len(matches) \in Nat /\ Len(matches') \in Nat /\ j.seen \in Nat
    <3>1. j.seen \in Nat
      BY DEF Jobs
    <3>2. Len(matches) \in Nat /\ Len(matches') \in Nat
      BY DEF Typed
    <3>. QED  BY <1>1, <3>1, <3>2 DEF JobOK
  <2>2. \A i \in DOMAIN matches : i <= j.seen /\ matches[i].by = j.user => Partner(matches[i]) \in j.except
    BY <1>1 DEF JobOK
  <2>3. ASSUME NEW i \in DOMAIN matches', i <= j.seen, matches'[i].by = j.user
        PROVE  Partner(matches'[i]) \in j.except
    <3>1. i \in Nat
      BY DEF Typed
    <3>2. i \in DOMAIN matches /\ matches'[i] = matches[i]
      BY <2>1, <2>3, <3>1 DEF Grows
    <3>. QED  BY <2>2, <2>3, <3>2
  <2>4. j.seen <= Len(matches')
    BY <2>1 DEF Grows
  <2>. QED  BY <2>3, <2>4
<1>2. ASSUME j.step = "setCount" PROVE j.count < chosen'[j.partner]
  <2>1. j.partner \in Users /\ j.count < chosen[j.partner] /\ j.count \in Nat
    BY <1>2 DEF JobOK, Jobs, Chosen, PartnerSteps
  <2>2. chosen[j.partner] \in Nat /\ chosen'[j.partner] \in Nat /\ chosen[j.partner] <= chosen'[j.partner]
    BY <2>1 DEF Typed, Grows
  <2>. QED  BY <2>1, <2>2
<1>3. ASSUME j.step \in {"createReverse", "createForward"}
      PROVE  <<j.user, j.partner>> \in remembered'
  BY <1>3 DEF JobOK, Grows
<1>4. ASSUME j.step = "createForward", TypeOf(j.kind) = "scheduled"
      PROVE  \E k \in DOMAIN matches' : matches'[k] = Row(j.partner, j.user, "scheduled", j.user)
  BY <1>4 DEF JobOK, Grows
<1>5. ASSUME j.step = "useTicket"
      PROVE  /\ j.row \in DOMAIN matches' /\ matches'[j.row].type = "rematching"
             /\ matches'[j.row].my = j.user /\ j.kind = "rematch"
  BY <1>5 DEF JobOK, Grows
<1>6. j.step \in PartnerSteps \cup {"getTicket", "logFailure", "useTicket", "logRematch"}
        => j.user \in Users
  BY DEF JobOK
<1>9. j.step \in BatchSteps \cup {"listRest", "nextUser"} => j.kind # "rematch"
  BY DEF JobOK
<1>7. j.kind = "rematch" /\ j.step \in PartnerSteps \cup {"logFailure", "useTicket"}
        => j.ticket \in Tickets /\ Owner[j.ticket] = j.user
  BY DEF JobOK
<1>8. j.step \in Chosen => j.partner \in Users \ {j.user} /\ j.partner \notin j.except
  BY DEF JobOK
<1>. QED  BY <1>1, <1>2, <1>3, <1>4, <1>5, <1>6, <1>7, <1>8, <1>9 DEF JobOK

\* A step of one handler keeps JobsInv when its new job is in order.
LEMMA OneJobMoves ==
  ASSUME IInv, Typed', Grows, NEW h \in Handlers,
         JobOK(job'[h], chosen', remembered', matches'),
         \A i \in Handlers \ {h} : job'[i] = job[i]
  PROVE  JobsInv'
<1> SUFFICES ASSUME NEW i \in Handlers PROVE JobOK(job'[i], chosen', remembered', matches')
  BY DEF JobsInv
<1>1. CASE i = h
  BY <1>1
<1>2. CASE i # h
  BY <1>2, JobOKMonotone DEF IInv, JobsInv, Typed
<1>. QED  BY <1>1, <1>2

\* So does a step that ends jobs.
LEMMA JobsEnd ==
  ASSUME IInv, Typed', Grows, \A i \in Handlers : job'[i] = job[i] \/ job'[i] = Idle
  PROVE  JobsInv'
<1> SUFFICES ASSUME NEW i \in Handlers PROVE JobOK(job'[i], chosen', remembered', matches')
  BY DEF JobsInv
<1>1. CASE job'[i] = Idle
  BY <1>1, IdleOK
<1>2. CASE job'[i] = job[i]
  BY <1>2, JobOKMonotone DEF IInv, JobsInv, Typed
<1>. QED  BY <1>1, <1>2

\* Tickets are in order as long as none is used and no job comes to use one.
LEMMA TicketsStill ==
  ASSUME IInv, Grows, usedFor' = usedFor,
         \A i \in Handlers : job'[i] = job[i] \/ job'[i].step # "useTicket"
  PROVE  RowsInv' /\ TicketsBuyMatches'
<1>1. RowsInv'
  BY DEF IInv, RowsInv, At
<1>2. TicketsBuyMatches'
  BY DEF IInv, TicketsBuyMatches, Grows
<1>. QED  BY <1>1, <1>2

\* The rows and the counters keep their properties while they are not touched.
LEMMA MatchesStill ==
  ASSUME IInv, matches' = matches, remembered \subseteq remembered'
  PROVE  ForwardAfterReverse' /\ MatchesRemembered'
  BY DEF IInv, ForwardAfterReverse, MatchesRemembered

LEMMA CountsStill ==
  ASSUME IInv, matchCount' = matchCount, chosen' = chosen PROVE CountNotOver'
  BY DEF IInv, CountNotOver

\* Steps that move jobs, the lock and the log only.
Quiet == UNCHANGED <<matchCount, chosen, remembered, matches, usedFor>>

LEMMA QuietGrows == ASSUME Typed, Quiet PROVE Grows
<1>1. Len(matches) \in Nat /\ \A u \in Users : chosen[u] \in Nat
  BY DEF Typed
<1>. QED  BY <1>1 DEF Quiet, Grows

\* A quiet step of one handler, to a job that is in order.
LEMMA QuietStep ==
  ASSUME IInv, Quiet, NEW h \in Handlers, NEW j \in Jobs,
         job' = [job EXCEPT ![h] = j],
         JobOK(j, chosen, remembered, matches), j.step # "useTicket",
         lock' \in BOOLEAN, apart' \in BOOLEAN, failureLogs' \in SUBSET Users,
         requests' \in Nat, failures' \in Nat, crashes' \in Nat
  PROVE  IInv'
<1>1. Typed'
  BY DEF IInv, Typed, Quiet
<1>2. Grows
  BY QuietGrows DEF IInv
<1>3. job'[h] = j /\ \A i \in Handlers \ {h} : job'[i] = job[i]
  BY DEF IInv, Typed
<1>4. JobsInv'
  BY <1>1, <1>2, <1>3, OneJobMoves DEF Quiet
<1>5. RowsInv' /\ TicketsBuyMatches'
  BY <1>2, <1>3, TicketsStill DEF Quiet
<1>6. ForwardAfterReverse' /\ MatchesRemembered' /\ CountNotOver'
  BY MatchesStill, CountsStill DEF Quiet
<1>. QED  BY <1>1, <1>4, <1>5, <1>6 DEF IInv

\* Between createPartner's calls a job has only to be no rematch.
Loose == BatchSteps \cup {"idle", "nextUser", "listRest"}

LEMMA LooseOK ==
  ASSUME NEW j, j.step \in Loose, j.kind # "rematch" \/ j.step = "idle", NEW often, NEW rem, NEW log
  PROVE  JobOK(j, often, rem, log) /\ j.step # "useTicket"
  BY DEF JobOK, Loose, BatchSteps, PartnerSteps, Chosen

\* What the control variables other than the jobs look like after a quiet step.
Calm ==
  /\ Quiet
  /\ lock' \in BOOLEAN /\ apart' \in BOOLEAN /\ failureLogs' \in SUBSET Users
  /\ requests' \in Nat /\ failures' \in Nat /\ crashes' \in Nat

LEMMA LooseStep ==
  ASSUME IInv, Calm, NEW h \in Handlers, NEW j \in Jobs, j.step \in Loose,
         j.kind # "rematch", job' = [job EXCEPT ![h] = j]
  PROVE  IInv'
  BY LooseOK, QuietStep DEF Calm

LEMMA FinishStep ==
  ASSUME IInv, Calm, NEW h \in Handlers, Finish(h) PROVE IInv'
  BY IdleType, IdleOK, QuietStep DEF Finish, Calm

\* Goto a step that asks nothing more of the job than where it comes from.
LEMMA GotoStep ==
  ASSUME IInv, Calm, NEW h \in Handlers, NEW s \in Steps, Goto(h, s),
         \/ s \in Loose /\ job[h].kind # "rematch"
         \/ s = "logRematch" /\ job[h].user \in Users
         \/ s = "logFailure" /\ job[h].step \in PartnerSteps
  PROVE  IInv'
<1> DEFINE j == [job[h] EXCEPT !.step = s]
<1>1. job[h] \in Jobs /\ JobOK(job[h], chosen, remembered, matches)
  BY DEF IInv, Typed, JobsInv
<1>2. j \in Jobs
  BY <1>1 DEF Jobs
<1>3. j.step = s /\ j.user = job[h].user /\ j.kind = job[h].kind /\ j.ticket = job[h].ticket
  BY <1>1 DEF Jobs
<1>4. job' = [job EXCEPT ![h] = j]
  BY DEF Goto
<1> HIDE DEF j
<1>5. CASE s \in Loose
  BY <1>2, <1>3, <1>4, <1>5, LooseStep DEF Loose, BatchSteps
<1>6. CASE s \in {"logRematch", "logFailure"} /\ s \notin Loose
  <2>1. JobOK(j, chosen, remembered, matches)
    BY <1>1, <1>3, <1>6 DEF JobOK, PartnerSteps, Chosen, Loose
  <2>. QED  BY <1>2, <1>3, <1>4, <1>6, <2>1, QuietStep DEF Calm
<1>. QED  BY <1>5, <1>6

-----------------------------------------------------------------------------
(***************************************************************************)
(* The actions of a handler.                                               *)
(***************************************************************************)
\* A job a request starts with.
Fresh(j) ==
  \/ j.step \in Loose /\ j.kind # "rematch"
  \/ j.step = "getMatched" /\ j.kind # "rematch" /\ j.user \in Users
  \/ j.step = "getTicket" /\ j.user \in Users

\* The handler takes up the request whose job is j.
Taken(h, j) ==
  /\ At(h, "idle")
  /\ requests' = requests + 1
  /\ job' = [job EXCEPT ![h] = j]
  /\ UNCHANGED <<redis, tables, failures, crashes>>

LEMMA RequestStep == ASSUME IInv, NEW h \in Handlers, Request(h) PROVE IInv'
<1>1. PICK j \in Jobs : Taken(h, j) /\ Fresh(j)
  <2>1. CASE StartBatch(h)
    <3>1. Task("batchStatus", "batch", NoUser, NoTicket) \in Jobs
      BY TaskType DEF Steps, BatchSteps, Kinds
    <3>2. /\ Task("batchStatus", "batch", NoUser, NoTicket).step \in Loose
          /\ Task("batchStatus", "batch", NoUser, NoTicket).kind = "batch"
      BY DEF Task, Loose, BatchSteps
    <3>. QED  BY <2>1, <3>1, <3>2 DEF StartBatch, Accept, Taken, Fresh
  <2>2. CASE StartRest(h)
    <3>1. Task("listRest", "rest", NoUser, NoTicket) \in Jobs
      BY TaskType DEF Steps, Kinds
    <3>2. /\ Task("listRest", "rest", NoUser, NoTicket).step \in Loose
          /\ Task("listRest", "rest", NoUser, NoTicket).kind = "rest"
      BY DEF Task, Loose
    <3>. QED  BY <2>2, <3>1, <3>2 DEF StartRest, Accept, Taken, Fresh
  <2>3. ASSUME NEW u \in Users, StartSingle(h, u) PROVE \E j \in Jobs : Taken(h, j) /\ Fresh(j)
    <3>1. Task("getMatched", "single", u, NoTicket) \in Jobs
      BY TaskType DEF Steps, PartnerSteps, Kinds
    <3>2. /\ Task("getMatched", "single", u, NoTicket).step = "getMatched"
          /\ Task("getMatched", "single", u, NoTicket).user = u
          /\ Task("getMatched", "single", u, NoTicket).kind = "single"
      BY DEF Task
    <3>. QED  BY <2>3, <3>1, <3>2 DEF StartSingle, Accept, Taken, Fresh
  <2>4. ASSUME NEW u \in Users, StartRematch(h, u) PROVE \E j \in Jobs : Taken(h, j) /\ Fresh(j)
    <3>1. Task("getTicket", "rematch", u, NoTicket) \in Jobs
      BY TaskType DEF Steps, Kinds
    <3>2. /\ Task("getTicket", "rematch", u, NoTicket).step = "getTicket"
          /\ Task("getTicket", "rematch", u, NoTicket).user = u
      BY DEF Task
    <3>. QED  BY <2>4, <3>1, <3>2 DEF StartRematch, Accept, Taken, Fresh
  <2>. QED  BY <2>1, <2>2, <2>3, <2>4 DEF Request
<1>2. Calm /\ job' = [job EXCEPT ![h] = j]
  BY <1>1 DEF Taken, Calm, Quiet, redis, tables, IInv, Typed
<1>3. CASE j.step \in Loose
  BY <1>1, <1>2, <1>3, LooseStep DEF Fresh, Loose, BatchSteps
<1>4. CASE j.step \in {"getMatched", "getTicket"}
  <2>1. JobOK(j, chosen, remembered, matches)
    BY <1>1, <1>4 DEF JobOK, PartnerSteps, Chosen, Loose, BatchSteps, Fresh
  <2>. QED  BY <1>2, <1>4, <2>1, QuietStep DEF Calm
<1>. QED  BY <1>1, <1>3, <1>4 DEF Fresh

\* processMatchCentral, and the lists.
LEMMA BatchStep ==
  ASSUME IInv, NEW h \in Handlers,
         \/ ReadBatchStatus(h) \/ ReadLock(h) \/ SetLock(h) \/ ListUsers(h)
         \/ ListRest(h) \/ NextUser(h) \/ FinishList(h)
  PROVE  IInv'
<1> USE DEF IInv
<1>1. Calm
  BY DEF ReadBatchStatus, ReadLock, SetLock, ListUsers, ListRest, NextUser,
         FinishList, Calm, Quiet, redis, tables, bounds, Typed
<1>2. CASE ReadBatchStatus(h) \/ ReadLock(h) \/ SetLock(h)
  <2>1. \/ Finish(h)
        \/ \E s \in BatchSteps : Goto(h, s)
    BY <1>2 DEF ReadBatchStatus, ReadLock, SetLock, BatchSteps
  <2>2. CASE Finish(h)
    BY <1>1, <2>2, FinishStep
  <2>3. ASSUME NEW s \in BatchSteps, Goto(h, s) PROVE IInv'
    <3>1. job[h].kind # "rematch"
      BY <1>2 DEF ReadBatchStatus, ReadLock, SetLock, At, JobsInv, JobOK, BatchSteps
    <3>. QED  BY <1>1, <2>3, <3>1, GotoStep DEF Steps, Loose
  <2>. QED  BY <2>1, <2>2, <2>3
<1>3. CASE ListUsers(h) \/ ListRest(h)
  <2>1. CASE Finish(h)
    BY <1>1, <2>1, FinishStep
  <2>2. CASE ~ Finish(h)
    <3>1. PICK q \in SUBSET Users :
            job' = [job EXCEPT ![h].queue = q, ![h].step = "nextUser"]
      BY <1>3, <2>2 DEF ListUsers, ListRest, Unmatched
    <3> DEFINE j == [job[h] EXCEPT !.queue = q, !.step = "nextUser"]
    <3>2. job' = [job EXCEPT ![h] = j]
      BY <3>1
    <3>3. job[h] \in Jobs /\ job[h].kind # "rematch"
      BY <1>3 DEF Typed, ListUsers, ListRest, At, JobsInv, JobOK, BatchSteps
    <3>4. j \in Jobs /\ j.step = "nextUser" /\ j.kind # "rematch"
      BY <3>3 DEF Jobs, Steps
    <3> HIDE DEF j
    <3>. QED  BY <1>1, <3>2, <3>4, LooseStep DEF Loose
  <2>. QED  BY <2>1, <2>2
<1>4. CASE NextUser(h)
  <2>1. PICK u \in job[h].queue :
          job' = [job EXCEPT ![h] = [Task("getMatched", job[h].kind, u, NoTicket)
                                       EXCEPT !.queue = job[h].queue \ {u}]]
    BY <1>4 DEF NextUser
  <2> DEFINE j == [Task("getMatched", job[h].kind, u, NoTicket)
                     EXCEPT !.queue = job[h].queue \ {u}]
  <2>2. job[h] \in Jobs /\ job[h].kind # "rematch"
    BY <1>4 DEF Typed, NextUser, At, JobsInv, JobOK
  <2>3. u \in Users /\ job[h].kind \in Kinds /\ job[h].queue \ {u} \in SUBSET Users
    BY <2>2 DEF Jobs
  <2>4. j \in Jobs /\ j.step = "getMatched" /\ j.user = u /\ j.kind = job[h].kind
    BY <2>3 DEF Jobs, Task, Steps, PartnerSteps
  <2>5. job' = [job EXCEPT ![h] = j]
    BY <2>1
  <2> HIDE DEF j
  <2>6. JobOK(j, chosen, remembered, matches)
    BY <2>2, <2>3, <2>4 DEF JobOK, PartnerSteps, BatchSteps, Chosen
  <2>. QED  BY <1>1, <2>4, <2>5, <2>6, QuietStep DEF Calm
<1>5. CASE FinishList(h)
  BY <1>1, <1>5, FinishStep DEF FinishList
<1>. QED  BY <1>2, <1>3, <1>4, <1>5

\* What the job is after createPartner has returned.
After(j, old, n) ==
  \/ j = Idle
  \/ /\ j.kind = old.kind /\ j.user = old.user /\ j.ticket = old.ticket /\ j.row = n
     /\ \/ j.step = "nextUser" /\ j.kind # "rematch"
        \/ j.step \in {"useTicket", "logRematch"} /\ j.kind = "rematch"

LEMMA ReturnedJob ==
  ASSUME IInv, NEW h \in Handlers, NEW success \in BOOLEAN, Returned(h, success)
  PROVE  \E j \in Jobs : /\ job' = [job EXCEPT ![h] = j]
                         /\ After(j, job[h], Len(matches) + 1)
                         /\ ~ success => j.step # "useTicket"
                         /\ success => j.step # "logRematch"
<1> DEFINE next == AfterPartner(job[h].kind, success)
           n == Len(matches) + 1
           j == [job[h] EXCEPT !.step = next, !.row = n]
<1>1. job[h] \in Jobs /\ n \in Nat
  BY DEF IInv, Typed
<1>2. job[h].kind \in Kinds
  BY <1>1 DEF Jobs
<1>3. /\ next \in {"nextUser", "useTicket", "logRematch", "idle"}
      /\ next = "nextUser" => job[h].kind # "rematch"
      /\ next \in {"useTicket", "logRematch"} => job[h].kind = "rematch"
      /\ ~ success => next # "useTicket"
      /\ success => next # "logRematch"
  BY <1>2 DEF AfterPartner, Kinds
<1>4. CASE next = "idle"
  <2>1. job' = [job EXCEPT ![h] = Idle]
    BY <1>4 DEF Returned, Finish
  <2>. QED  BY <2>1, IdleType DEF After
<1>5. CASE next # "idle"
  <2>1. job' = [job EXCEPT ![h] = j]
    BY <1>5 DEF Returned
  <2>2. /\ j \in Jobs /\ j.step = next /\ j.row = n /\ j.kind = job[h].kind
        /\ j.user = job[h].user /\ j.ticket = job[h].ticket
    BY <1>1, <1>3 DEF Jobs, Steps
  <2> HIDE DEF j, next, n
  <2>3. After(j, job[h], n)
    BY <1>3, <1>5, <2>2 DEF After
  <2>. QED  BY <1>3, <2>1, <2>2, <2>3 DEF n
<1>. QED  BY <1>4, <1>5

\* createPartner returns without a match.
LEMMA FailedStep ==
  ASSUME IInv, Calm, NEW h \in Handlers, At(h, "logFailure"), Returned(h, FALSE)
  PROVE  IInv'
<1>1. PICK j \in Jobs : /\ job' = [job EXCEPT ![h] = j]
                        /\ After(j, job[h], Len(matches) + 1)
                        /\ j.step # "useTicket"
  BY ReturnedJob
<1>2. job[h].user \in Users
  BY DEF IInv, JobsInv, JobOK, At
<1>3. JobOK(j, chosen, remembered, matches)
  BY <1>1, <1>2, IdleOK DEF After, JobOK, PartnerSteps, BatchSteps, Chosen
<1>. QED  BY <1>1, <1>3, QuietStep DEF Calm

\* Reading the history, and logging.
LEMMA ReadOrLogStep ==
  ASSUME IInv, NEW h \in Handlers,
         GetMatched(h) \/ LogFailure(h) \/ GetTicket(h) \/ LogRematch(h)
  PROVE  IInv'
<1>1. job[h] \in Jobs /\ JobOK(job[h], chosen, remembered, matches)
  BY DEF IInv, Typed, JobsInv
<1>2. job[h].user \in Users
  BY <1>1 DEF JobOK, GetMatched, LogFailure, GetTicket, LogRematch, At, PartnerSteps
<1>3. Calm
  BY <1>2 DEF GetMatched, LogFailure, GetTicket, LogRematch, Calm, Quiet, redis, tables,
              bounds, IInv, Typed
<1>4. CASE GetMatched(h)
  <2> DEFINE e == {m \in Users : <<job[h].user, m>> \in remembered}
             j == [job[h] EXCEPT !.step = "choose", !.except = e, !.seen = Len(matches)]
  <2>1. job' = [job EXCEPT ![h] = j]
    BY <1>4 DEF GetMatched
  <2>2. Len(matches) \in Nat
    BY DEF IInv, Typed
  <2>3. /\ j \in Jobs /\ j.step = "choose" /\ j.except = e /\ j.seen = Len(matches)
        /\ j.user = job[h].user /\ j.kind = job[h].kind /\ j.ticket = job[h].ticket
    BY <1>1, <2>2 DEF Jobs, Steps, PartnerSteps
  <2>4. \A i \in DOMAIN matches : matches[i].by = job[h].user => Partner(matches[i]) \in e
    <3>1. \A i \in DOMAIN matches : matches[i] \in Rows
      BY DEF IInv, Typed
    <3>2. \A m \in Rows : Partner(m) \in Users
      BY DEF Rows, Partner
    <3>. QED  BY <3>1, <3>2 DEF IInv, MatchesRemembered
  <2> HIDE DEF j, e
  <2>5. j.kind = "rematch" => j.ticket \in Tickets /\ Owner[j.ticket] = j.user
    BY <1>1, <1>4, <2>3 DEF JobOK, GetMatched, At, PartnerSteps
  <2>6. \A i \in DOMAIN matches : matches[i].by = j.user => Partner(matches[i]) \in j.except
    BY <2>3, <2>4
  <2>7. JobOK(j, chosen, remembered, matches)
    BY <1>2, <2>2, <2>3, <2>5, <2>6 DEF JobOK, PartnerSteps, BatchSteps, Chosen
  <2>. QED  BY <1>3, <2>1, <2>3, <2>7, QuietStep DEF Calm
<1>5. CASE LogFailure(h)
  BY <1>3, <1>5, FailedStep DEF LogFailure
<1>6. CASE GetTicket(h)
  <2>1. CASE Finish(h)
    BY <1>3, <2>1, FinishStep
  <2>2. CASE ~ Finish(h)
    <3>1. PICK t \in Available(job[h].user) :
            job' = [job EXCEPT ![h].step = "getMatched", ![h].ticket = t]
      BY <1>6, <2>2 DEF GetTicket
    <3>2. t \in Tickets /\ Owner[t] = job[h].user
      BY DEF Available
    <3> DEFINE j == [job[h] EXCEPT !.step = "getMatched", !.ticket = t]
    <3>3. job' = [job EXCEPT ![h] = j]
      BY <3>1
    <3>4. /\ j \in Jobs /\ j.step = "getMatched" /\ j.ticket = t
          /\ j.user = job[h].user /\ j.kind = job[h].kind
      BY <1>1, <3>2 DEF Jobs, Steps, PartnerSteps
    <3> HIDE DEF j
    <3>5. JobOK(j, chosen, remembered, matches)
      BY <1>2, <3>2, <3>4 DEF JobOK, PartnerSteps, BatchSteps, Chosen
    <3>. QED  BY <1>3, <3>3, <3>4, <3>5, QuietStep DEF Calm
  <2>. QED  BY <2>1, <2>2
<1>7. CASE LogRematch(h)
  BY <1>3, <1>7, FinishStep DEF LogRematch
<1>. QED  BY <1>4, <1>5, <1>6, <1>7

\* A step of one handler that changes the stores.
LEMMA ActiveStep ==
  ASSUME IInv, Typed', Grows, NEW h \in Handlers, NEW j \in Jobs,
         job' = [job EXCEPT ![h] = j], JobOK(j, chosen', remembered', matches'),
         RowsInv', TicketsBuyMatches', ForwardAfterReverse', MatchesRemembered',
         CountNotOver'
  PROVE  IInv'
<1>1. job'[h] = j /\ \A i \in Handlers \ {h} : job'[i] = job[i]
  BY DEF IInv, Typed
<1>2. JobsInv'
  BY <1>1, OneJobMoves
<1>. QED  BY <1>2 DEF IInv

\* findCandidates and the choice.
LEMMA ChooseStep == ASSUME IInv, NEW h \in Handlers, Choose(h) PROVE IInv'
<1>1. job[h] \in Jobs /\ JobOK(job[h], chosen, remembered, matches) /\ job[h].step = "choose"
  BY DEF IInv, Typed, JobsInv, Choose, At
<1>2. job[h].user \in Users
  BY <1>1 DEF JobOK, PartnerSteps
<1>3. CASE Goto(h, "logFailure") /\ UNCHANGED chosen
  <2>1. Calm
    BY <1>3 DEF Choose, Calm, Quiet, tables, bounds, IInv, Typed
  <2>. QED  BY <1>1, <1>3, <2>1, GotoStep DEF PartnerSteps, Steps
<1>4. CASE ~ (Goto(h, "logFailure") /\ UNCHANGED chosen)
  <2>1. PICK m \in Users :
          /\ <<job[h].user, m>> \in Eligible[TypeOf(job[h].kind)]
          /\ m \notin job[h].except
          /\ job' = [job EXCEPT ![h].step = "setCount", ![h].partner = m,
                                ![h].count = matchCount[m]]
          /\ chosen' = [chosen EXCEPT ![m] = @ + 1]
    BY <1>4 DEF Choose
  <2>2. UNCHANGED <<lock, apart, matchCount, remembered, matches, failureLogs, usedFor,
                    requests, failures, crashes>>
    BY DEF Choose, tables, bounds
  <2>3. TypeOf(job[h].kind) \in MatchTypes
    BY <1>1 DEF Jobs, Kinds, TypeOf, MatchTypes
  <2>4. m # job[h].user
    BY <1>2, <2>1, <2>3
  <2> DEFINE j == [job[h] EXCEPT !.step = "setCount", !.partner = m, !.count = matchCount[m]]
  <2>5. job' = [job EXCEPT ![h] = j]
    BY <2>1
  <2>6. matchCount[m] \in Nat /\ chosen[m] \in Nat /\ matchCount[m] <= chosen[m]
    BY DEF IInv, Typed, CountNotOver
  <2>7. /\ j \in Jobs /\ j.step = "setCount" /\ j.partner = m /\ j.count = matchCount[m]
        /\ j.user = job[h].user /\ j.kind = job[h].kind /\ j.ticket = job[h].ticket
        /\ j.except = job[h].except /\ j.seen = job[h].seen
    BY <1>1, <2>6 DEF Jobs, Steps, PartnerSteps
  <2> HIDE DEF j
  <2>8. chosen' \in [Users -> Nat] /\ chosen'[m] = chosen[m] + 1
        /\ \A u \in Users : chosen[u] <= chosen'[u] /\ chosen[u] \in Nat
    BY <2>1 DEF IInv, Typed
  <2>9. Typed'
    BY <2>2, <2>5, <2>7, <2>8 DEF IInv, Typed
  <2>10. Grows
    <3>1. Len(matches) \in Nat
      BY DEF IInv, Typed
    <3>. QED  BY <2>2, <2>8, <3>1 DEF Grows
  <2>11. JobOK(j, chosen', remembered', matches')
    <3>1. j.count < chosen'[j.partner]
      BY <2>6, <2>7, <2>8
    <3>2. /\ \A i \in DOMAIN matches' :
               i <= j.seen /\ matches'[i].by = j.user => Partner(matches'[i]) \in j.except
          /\ j.seen <= Len(matches')
          /\ j.kind = "rematch" => j.ticket \in Tickets /\ Owner[j.ticket] = j.user
      BY <1>1, <2>2, <2>7 DEF JobOK, PartnerSteps
    <3>. QED  BY <1>2, <2>1, <2>4, <2>7, <3>1, <3>2 DEF JobOK, PartnerSteps, BatchSteps, Chosen
  <2>12. RowsInv' /\ TicketsBuyMatches'
    <3>1. \A i \in Handlers : job'[i] = job[i] \/ job'[i].step # "useTicket"
      BY <2>5, <2>7 DEF IInv, Typed
    <3>. QED  BY <2>2, <2>10, <3>1, TicketsStill
  <2>13. ForwardAfterReverse' /\ MatchesRemembered'
    BY <2>2, MatchesStill
  <2>14. CountNotOver'
    <3>1. \A u \in Users : matchCount[u] \in Nat /\ matchCount[u] <= chosen[u] /\ chosen'[u] \in Nat
      BY <2>8 DEF IInv, Typed, CountNotOver
    <3>. QED  BY <2>2, <2>8, <3>1 DEF CountNotOver
  <2>. QED  BY <2>5, <2>7, <2>9, <2>10, <2>11, <2>12, <2>13, <2>14, ActiveStep
<1>. QED  BY <1>3, <1>4

\* incrementMatchCount and addMatchedUser.
LEMMA RedisStep ==
  ASSUME IInv, NEW h \in Handlers, SetCount(h) \/ Remember(h) PROVE IInv'
<1>1. /\ job[h] \in Jobs /\ JobOK(job[h], chosen, remembered, matches)
      /\ job[h].step \in {"setCount", "remember"}
  BY DEF IInv, Typed, JobsInv, SetCount, Remember, At
<1>2. job[h].user \in Users /\ job[h].partner \in Users
  BY <1>1 DEF JobOK, PartnerSteps, Chosen
<1>3. PICK s \in {"remember", "createReverse", "createForward"} :
        /\ Goto(h, s)
        /\ s = "remember" => SetCount(h)
        /\ s # "remember" => /\ remembered' = remembered \cup {<<job[h].user, job[h].partner>>}
                             /\ matchCount' = matchCount
        /\ s = "createForward" => TypeOf(job[h].kind) # "scheduled"
  BY DEF SetCount, Remember
<1> DEFINE j == [job[h] EXCEPT !.step = s]
<1>4. job' = [job EXCEPT ![h] = j]
  BY <1>3 DEF Goto
<1>5. /\ j \in Jobs /\ j.step = s /\ j.partner = job[h].partner /\ j.user = job[h].user
      /\ j.kind = job[h].kind /\ j.ticket = job[h].ticket
      /\ j.except = job[h].except /\ j.seen = job[h].seen
  BY <1>1 DEF Jobs, Steps, PartnerSteps
<1> HIDE DEF j
<1>6. UNCHANGED <<lock, apart, chosen, matches, failureLogs, usedFor, requests, failures, crashes>>
  BY DEF SetCount, Remember, tables, bounds
<1>7. remembered \subseteq remembered' /\ remembered' \in SUBSET (Users \X Users)
  <2>1. CASE SetCount(h)
    BY <2>1 DEF SetCount, IInv, Typed
  <2>2. CASE Remember(h)
    BY <1>2, <2>2 DEF Remember, IInv, Typed
  <2>. QED  BY <2>1, <2>2
<1>8. matchCount' \in [Users -> Nat] /\ CountNotOver'
  <2>1. CASE matchCount' = matchCount
    BY <1>6, <2>1, CountsStill DEF IInv, Typed
  <2>2. CASE SetCount(h)
    <3>1. /\ matchCount' = [matchCount EXCEPT ![job[h].partner] = job[h].count + 1]
          /\ job[h].count < chosen[job[h].partner] /\ job[h].count \in Nat
          /\ matchCount \in [Users -> Nat] /\ chosen \in [Users -> Nat]
      BY <1>1, <2>2 DEF SetCount, At, JobOK, Jobs, IInv, Typed
    <3>2. \A u \in Users : matchCount'[u] <= chosen[u]
      BY <1>2, <3>1 DEF IInv, CountNotOver
    <3>. QED  BY <1>2, <1>6, <3>1, <3>2 DEF CountNotOver
  <2>. QED  BY <1>3, <2>1, <2>2
<1>9. Typed'
  BY <1>4, <1>5, <1>6, <1>7, <1>8 DEF IInv, Typed
<1>10. Grows
  <2>1. Len(matches) \in Nat /\ \A u \in Users : chosen[u] \in Nat
    BY DEF IInv, Typed
  <2>. QED  BY <1>6, <1>7, <2>1 DEF Grows
<1>11. JobOK(j, chosen', remembered', matches')
  <2>1. /\ \A i \in DOMAIN matches' :
             i <= j.seen /\ matches'[i].by = j.user => Partner(matches'[i]) \in j.except
        /\ j.seen <= Len(matches')
        /\ j.kind = "rematch" => j.ticket \in Tickets /\ Owner[j.ticket] = j.user
        /\ j.partner \in Users \ {j.user} /\ j.partner \notin j.except
    BY <1>1, <1>5, <1>6 DEF JobOK, PartnerSteps, Chosen
  <2>2. s # "remember" => <<j.user, j.partner>> \in remembered'
    BY <1>3, <1>5
  <2>. QED  BY <1>2, <1>3, <1>5, <2>1, <2>2 DEF JobOK, PartnerSteps, BatchSteps, Chosen
<1>12. RowsInv' /\ TicketsBuyMatches'
  <2>1. \A i \in Handlers : job'[i] = job[i] \/ job'[i].step # "useTicket"
    BY <1>4, <1>5 DEF IInv, Typed
  <2>. QED  BY <1>6, <1>10, <2>1, TicketsStill
<1>13. ForwardAfterReverse' /\ MatchesRemembered'
  BY <1>6, <1>7, MatchesStill
<1>. QED  BY <1>4, <1>5, <1>8, <1>9, <1>10, <1>11, <1>12, <1>13, ActiveStep

\* createMatch appends a row.
LEMMA AppendRow ==
  ASSUME Typed, NEW m \in Rows, matches' = Append(matches, m)
  PROVE  /\ matches' \in Seq(Rows)
         /\ Len(matches) \in Nat /\ Len(matches') = Len(matches) + 1
         /\ DOMAIN matches = 1..Len(matches) /\ DOMAIN matches' = 1..(Len(matches) + 1)
         /\ \A i \in DOMAIN matches : matches'[i] = matches[i]
         /\ matches'[Len(matches) + 1] = m
  BY DEF Typed

LEMMA CreateReverseStep == ASSUME IInv, NEW h \in Handlers, CreateReverse(h) PROVE IInv'
<1>1. /\ job[h] \in Jobs /\ JobOK(job[h], chosen, remembered, matches)
      /\ job[h].step = "createReverse"
  BY DEF IInv, Typed, JobsInv, CreateReverse, At
<1>2. /\ job[h].user \in Users /\ job[h].partner \in Users \ {job[h].user}
      /\ <<job[h].user, job[h].partner>> \in remembered
      /\ TypeOf(job[h].kind) \in MatchTypes
  BY <1>1 DEF JobOK, PartnerSteps, Chosen, Jobs, Kinds, TypeOf, MatchTypes
<1> DEFINE m == Row(job[h].partner, job[h].user, TypeOf(job[h].kind), job[h].user)
           n == Len(matches) + 1
           j == [job[h] EXCEPT !.step = "createForward"]
<1>3. m \in Rows /\ m.my = job[h].partner /\ m.by = job[h].user /\ m.matcher = job[h].user
  BY <1>2 DEF Rows, Row
<1>4. matches' = Append(matches, m) /\ job' = [job EXCEPT ![h] = j]
  BY DEF CreateReverse, Goto
<1>5. UNCHANGED <<lock, apart, matchCount, chosen, remembered, failureLogs, usedFor, requests,
                  failures, crashes>>
  BY DEF CreateReverse, redis, bounds
<1>6. /\ matches' \in Seq(Rows) /\ Len(matches) \in Nat /\ Len(matches') = n
      /\ DOMAIN matches = 1..Len(matches) /\ DOMAIN matches' = 1..n
      /\ \A i \in DOMAIN matches : matches'[i] = matches[i]
      /\ matches'[n] = m
  BY <1>3, <1>4, AppendRow DEF IInv
<1>7. /\ j \in Jobs /\ j.step = "createForward" /\ j.partner = job[h].partner
      /\ j.user = job[h].user /\ j.kind = job[h].kind /\ j.ticket = job[h].ticket
      /\ j.except = job[h].except /\ j.seen = job[h].seen /\ j.seen \in Nat
  BY <1>1 DEF Jobs, Steps, PartnerSteps
<1>8. TypeOf(j.kind) = "scheduled" => m = Row(j.partner, j.user, "scheduled", j.user)
  BY <1>7
<1>9. Partner(m) = job[h].partner
  BY <1>2, <1>3 DEF Partner
<1> HIDE DEF j, m
<1>10. Typed'
  BY <1>4, <1>5, <1>6, <1>7 DEF IInv, Typed
<1>11. Grows
  <2>1. \A u \in Users : chosen[u] \in Nat
    BY DEF IInv, Typed
  <2>. QED  BY <1>5, <1>6, <2>1 DEF Grows
<1>12. JobOK(j, chosen', remembered', matches')
  <2>1. /\ \A i \in DOMAIN matches :
             i <= j.seen /\ matches[i].by = j.user => Partner(matches[i]) \in j.except
        /\ j.seen <= Len(matches)
        /\ j.kind = "rematch" => j.ticket \in Tickets /\ Owner[j.ticket] = j.user
        /\ j.partner \in Users \ {j.user} /\ j.partner \notin j.except
    BY <1>1, <1>7 DEF JobOK, PartnerSteps, Chosen
  <2>2. \A i \in DOMAIN matches' :
          i <= j.seen /\ matches'[i].by = j.user => Partner(matches'[i]) \in j.except
    <3> SUFFICES ASSUME NEW i \in DOMAIN matches', i <= j.seen, matches'[i].by = j.user
                 PROVE  Partner(matches'[i]) \in j.except
      OBVIOUS
    <3>1. i \in DOMAIN matches
      BY <1>6, <1>7, <2>1
    <3>. QED  BY <1>6, <2>1, <3>1
  <2>3. j.seen <= Len(matches')
    BY <1>6, <1>7, <2>1
  <2>4. TypeOf(j.kind) = "scheduled" =>
          \E k \in DOMAIN matches' : matches'[k] = Row(j.partner, j.user, "scheduled", j.user)
    BY <1>6, <1>8
  <2>. QED  BY <1>2, <1>5, <1>7, <2>1, <2>2, <2>3, <2>4
            DEF JobOK, PartnerSteps, BatchSteps, Chosen
<1>13. RowsInv' /\ TicketsBuyMatches'
  <2>1. \A i \in Handlers : job'[i] = job[i] \/ job'[i].step # "useTicket"
    BY <1>4, <1>7 DEF IInv, Typed
  <2>. QED  BY <1>5, <1>11, <2>1, TicketsStill
<1>14. ForwardAfterReverse'
  <2> SUFFICES ASSUME NEW i \in DOMAIN matches', matches'[i].type = "scheduled",
                      matches'[i].by = matches'[i].my
               PROVE  \E k \in 1..(i - 1) :
                        matches'[k] = Row(matches'[i].matcher, matches'[i].my, "scheduled",
                                          matches'[i].my)
    BY DEF ForwardAfterReverse
  <2>1. i # n
    BY <1>2, <1>3, <1>6
  <2>2. i \in DOMAIN matches
    BY <1>6, <2>1
  <2>3. PICK k \in 1..(i - 1) :
          matches[k] = Row(matches[i].matcher, matches[i].my, "scheduled", matches[i].my)
    BY <1>6, <2>2 DEF IInv, ForwardAfterReverse
  <2>4. k \in DOMAIN matches
    BY <1>6, <2>2
  <2>. QED  BY <1>6, <2>2, <2>3, <2>4
<1>15. MatchesRemembered'
  <2> SUFFICES ASSUME NEW i \in DOMAIN matches'
               PROVE  <<matches'[i].by, Partner(matches'[i])>> \in remembered'
    BY DEF MatchesRemembered
  <2>1. CASE i = n
    BY <1>2, <1>3, <1>5, <1>6, <1>9, <2>1
  <2>2. CASE i # n
    <3>1. i \in DOMAIN matches
      BY <1>6, <2>2
    <3>. QED  BY <1>5, <1>6, <3>1 DEF IInv, MatchesRemembered
  <2>. QED  BY <2>1, <2>2
<1>16. CountNotOver'
  BY <1>5, CountsStill
<1>. QED  BY <1>4, <1>7, <1>10, <1>11, <1>12, <1>13, <1>14, <1>15, <1>16, ActiveStep

LEMMA CreateForwardStep == ASSUME IInv, NEW h \in Handlers, CreateForward(h) PROVE IInv'
<1>1. /\ job[h] \in Jobs /\ JobOK(job[h], chosen, remembered, matches)
      /\ job[h].step = "createForward"
  BY DEF IInv, Typed, JobsInv, CreateForward, At
<1>2. /\ job[h].user \in Users /\ job[h].partner \in Users \ {job[h].user}
      /\ <<job[h].user, job[h].partner>> \in remembered
      /\ TypeOf(job[h].kind) \in MatchTypes
      /\ job[h].kind = "rematch" => job[h].ticket \in Tickets /\ Owner[job[h].ticket] = job[h].user
  BY <1>1 DEF JobOK, PartnerSteps, Chosen, Jobs, Kinds, TypeOf, MatchTypes
<1> DEFINE m == Row(job[h].user, job[h].partner, TypeOf(job[h].kind), job[h].user)
           n == Len(matches) + 1
<1>3. /\ m \in Rows /\ m.my = job[h].user /\ m.by = job[h].user /\ m.matcher = job[h].partner
      /\ m.type = TypeOf(job[h].kind)
  BY <1>2 DEF Rows, Row
<1>4. matches' = Append(matches, m)
  BY DEF CreateForward
<1>5. UNCHANGED <<lock, apart, matchCount, chosen, remembered, failureLogs, usedFor, requests,
                  failures, crashes>>
  BY DEF CreateForward, redis, bounds
<1>6. /\ matches' \in Seq(Rows) /\ Len(matches) \in Nat /\ Len(matches') = n
      /\ DOMAIN matches = 1..Len(matches) /\ DOMAIN matches' = 1..n
      /\ \A i \in DOMAIN matches : matches'[i] = matches[i]
      /\ matches'[n] = m
  BY <1>3, <1>4, AppendRow DEF IInv
<1>7. PICK j \in Jobs : /\ job' = [job EXCEPT ![h] = j]
                        /\ After(j, job[h], n)
                        /\ j.step # "logRematch"
  <2>1. Returned(h, TRUE)
    BY DEF CreateForward
  <2>. QED  BY <2>1, ReturnedJob
<1>8. Partner(m) = job[h].partner
  BY <1>2, <1>3 DEF Partner
<1>9. job[h].kind = "rematch" => m.type = "rematching"
  BY <1>3 DEF TypeOf
<1> HIDE DEF m
<1>10. Typed'
  BY <1>5, <1>6, <1>7 DEF IInv, Typed
<1>11. Grows
  <2>1. \A u \in Users : chosen[u] \in Nat
    BY DEF IInv, Typed
  <2>. QED  BY <1>5, <1>6, <2>1 DEF Grows
<1>12. JobOK(j, chosen', remembered', matches')
  <2>1. CASE j = Idle
    BY <2>1, IdleOK
  <2>2. CASE j.step = "nextUser" /\ j.kind # "rematch"
    BY <2>2, LooseOK DEF Loose
  <2>3. CASE j.step = "useTicket" /\ j.kind = "rematch" /\ j # Idle
    <3>1. j.row = n /\ j.user = job[h].user /\ j.ticket = job[h].ticket /\ j.kind = job[h].kind
      BY <1>7, <2>3 DEF After
    <3>. QED  BY <1>2, <1>3, <1>6, <1>9, <2>3, <3>1 DEF JobOK, PartnerSteps, BatchSteps, Chosen
  <2>. QED  BY <1>7, <2>1, <2>2, <2>3 DEF After
<1>13. job'[h] = j /\ \A i \in Handlers \ {h} : job'[i] = job[i]
  BY <1>7 DEF IInv, Typed
<1>14. \A i \in Handlers : At(i, "useTicket") => job[i].row \in DOMAIN matches
  BY DEF IInv, JobsInv, JobOK, At
<1>15. \A t \in Tickets : usedFor[t] # n
  <2>1. \A t \in Tickets : usedFor[t] = 0 \/ usedFor[t] \in DOMAIN matches
    BY DEF IInv, TicketsBuyMatches
  <2>. QED  BY <1>6, <2>1
<1>16. RowsInv'
  <2> SUFFICES ASSUME NEW i \in Handlers, job'[i].step = "useTicket"
               PROVE  /\ \A t \in Tickets : usedFor'[t] # job'[i].row
                      /\ \A g \in Handlers \ {i} :
                           job'[g].step = "useTicket" => job'[g].row # job'[i].row
    BY DEF RowsInv, At
  <2>1. j.step = "useTicket" => j.row = n
    BY <1>7, IdleType DEF After
  <2>2. \A g \in Handlers \ {h} : job'[g].step = "useTicket" => job'[g].row # n
    BY <1>6, <1>13, <1>14 DEF At
  <2>3. CASE i = h
    BY <1>5, <1>13, <1>15, <2>1, <2>2, <2>3
  <2>4. CASE i # h
    <3>1. At(i, "useTicket") /\ job'[i] = job[i]
      BY <1>13, <2>4 DEF At
    <3>2. \A t \in Tickets : usedFor'[t] # job'[i].row
      BY <1>5, <3>1 DEF IInv, RowsInv
    <3>3. ASSUME NEW g \in Handlers \ {i}, job'[g].step = "useTicket"
          PROVE  job'[g].row # job'[i].row
      <4>1. CASE g = h
        BY <1>13, <2>1, <2>2, <2>4, <3>3, <4>1
      <4>2. CASE g # h
        BY <1>13, <3>1, <3>3, <4>2 DEF IInv, RowsInv, At
      <4>. QED  BY <4>1, <4>2
    <3>. QED  BY <3>2, <3>3
  <2>. QED  BY <2>3, <2>4
<1>17. TicketsBuyMatches'
  BY <1>5, <1>6 DEF IInv, TicketsBuyMatches
<1>18. ForwardAfterReverse'
  <2> SUFFICES ASSUME NEW i \in DOMAIN matches', matches'[i].type = "scheduled",
                      matches'[i].by = matches'[i].my
               PROVE  \E k \in 1..(i - 1) :
                        matches'[k] = Row(matches'[i].matcher, matches'[i].my, "scheduled",
                                          matches'[i].my)
    BY DEF ForwardAfterReverse
  <2>1. CASE i = n
    <3>1. TypeOf(job[h].kind) = "scheduled"
      BY <1>3, <1>6, <2>1
    <3>2. PICK k \in DOMAIN matches :
            matches[k] = Row(job[h].partner, job[h].user, "scheduled", job[h].user)
      BY <1>1, <3>1 DEF JobOK
    <3>3. k \in 1..(i - 1)
      BY <1>6, <2>1
    <3>. QED  BY <1>3, <1>6, <2>1, <3>2, <3>3
  <2>2. CASE i # n
    <3>1. i \in DOMAIN matches
      BY <1>6, <2>2
    <3>2. PICK k \in 1..(i - 1) :
            matches[k] = Row(matches[i].matcher, matches[i].my, "scheduled", matches[i].my)
      BY <1>6, <3>1 DEF IInv, ForwardAfterReverse
    <3>3. k \in DOMAIN matches
      BY <1>6, <3>1
    <3>. QED  BY <1>6, <3>1, <3>2, <3>3
  <2>. QED  BY <2>1, <2>2
<1>19. MatchesRemembered'
  <2> SUFFICES ASSUME NEW i \in DOMAIN matches'
               PROVE  <<matches'[i].by, Partner(matches'[i])>> \in remembered'
    BY DEF MatchesRemembered
  <2>1. CASE i = n
    BY <1>2, <1>3, <1>5, <1>6, <1>8, <2>1
  <2>2. CASE i # n
    <3>1. i \in DOMAIN matches
      BY <1>6, <2>2
    <3>. QED  BY <1>5, <1>6, <3>1 DEF IInv, MatchesRemembered
  <2>. QED  BY <2>1, <2>2
<1>20. CountNotOver'
  BY <1>5, CountsStill
<1>. QED  BY <1>7, <1>10, <1>11, <1>12, <1>16, <1>17, <1>18, <1>19, <1>20, ActiveStep

\* useTicket: the row the job has made is taken by its ticket.
LEMMA UseTicketStep == ASSUME IInv, NEW h \in Handlers, UseTicket(h) PROVE IInv'
<1> DEFINE t == job[h].ticket
           r == job[h].row
<1>1. /\ job[h] \in Jobs /\ At(h, "useTicket") /\ t \in Tickets /\ Owner[t] = job[h].user
      /\ r \in DOMAIN matches /\ matches[r].type = "rematching" /\ matches[r].my = job[h].user
  BY DEF IInv, Typed, JobsInv, JobOK, UseTicket, At
<1>2. r \in Nat
  BY <1>1 DEF Jobs
<1>3. /\ usedFor' = [usedFor EXCEPT ![t] = r] /\ job' = [job EXCEPT ![h] = Idle]
      /\ UNCHANGED <<lock, apart, matchCount, chosen, remembered, matches, failureLogs, requests,
                     failures, crashes>>
  BY DEF UseTicket, Finish, redis, bounds
<1>4. Typed'
  BY <1>1, <1>2, <1>3, IdleType DEF IInv, Typed
<1>5. Grows
  <2>1. Len(matches) \in Nat /\ \A u \in Users : chosen[u] \in Nat
    BY DEF IInv, Typed
  <2>. QED  BY <1>3, <2>1 DEF Grows
<1>6. usedFor'[t] = r /\ \A t2 \in Tickets \ {t} : usedFor'[t2] = usedFor[t2]
  BY <1>1, <1>3 DEF IInv, Typed
<1>7. job'[h] = Idle /\ \A i \in Handlers \ {h} : job'[i] = job[i]
  BY <1>3 DEF IInv, Typed
<1>8. \A t2 \in Tickets : usedFor[t2] # r
  BY <1>1 DEF IInv, RowsInv
<1> HIDE DEF t, r
<1>9. RowsInv'
  <2> SUFFICES ASSUME NEW i \in Handlers, job'[i].step = "useTicket"
               PROVE  /\ \A t2 \in Tickets : usedFor'[t2] # job'[i].row
                      /\ \A g \in Handlers \ {i} :
                           job'[g].step = "useTicket" => job'[g].row # job'[i].row
    BY DEF RowsInv, At
  <2>1. i # h /\ job'[i] = job[i] /\ At(i, "useTicket")
    BY <1>7, IdleType DEF At
  <2>2. job[i].row # r /\ \A t2 \in Tickets : usedFor[t2] # job[i].row
    BY <1>1, <2>1 DEF IInv, RowsInv, r
  <2>3. \A t2 \in Tickets : usedFor'[t2] # job'[i].row
    BY <1>6, <2>1, <2>2
  <2>4. \A g \in Handlers \ {i} : job'[g].step = "useTicket" => job'[g].row # job'[i].row
    BY <1>7, <2>1, IdleType DEF IInv, RowsInv, At
  <2>. QED  BY <2>3, <2>4
<1>10. TicketsBuyMatches'
  <2> SUFFICES ASSUME NEW x \in Tickets, usedFor'[x] # 0
               PROVE  /\ usedFor'[x] \in DOMAIN matches
                      /\ matches[usedFor'[x]].type = "rematching"
                      /\ matches[usedFor'[x]].my = Owner[x]
                      /\ \A y \in Tickets \ {x} : usedFor'[y] # usedFor'[x]
    BY <1>3 DEF TicketsBuyMatches
  <2>1. CASE x = t
    BY <1>1, <1>6, <1>8, <2>1 DEF t, r
  <2>2. CASE x # t
    BY <1>6, <1>8, <2>2 DEF IInv, TicketsBuyMatches
  <2>. QED  BY <2>1, <2>2
<1>11. ForwardAfterReverse' /\ MatchesRemembered' /\ CountNotOver'
  BY <1>3, MatchesStill, CountsStill
<1>. QED  BY <1>3, <1>4, <1>5, <1>9, <1>10, <1>11, IdleType, IdleOK, ActiveStep

-----------------------------------------------------------------------------
(***************************************************************************)
(* Failures and time.                                                      *)
(***************************************************************************)
LEMMA CallFailsStep == ASSUME IInv, NEW h \in Handlers, CallFails(h) PROVE IInv'
<1>1. Calm
  BY DEF CallFails, Calm, Quiet, redis, tables, IInv, Typed
<1>2. JobOK(job[h], chosen, remembered, matches)
  BY DEF IInv, JobsInv
<1>3. CASE job[h].step \in PartnerSteps
  <2>1. Goto(h, "logFailure")
    BY <1>3 DEF CallFails, PartnerSteps
  <2>. QED  BY <1>1, <1>3, <2>1, GotoStep DEF Steps
<1>4. CASE job[h].step = "logFailure"
  <2>1. Returned(h, FALSE)
    BY <1>4 DEF CallFails, PartnerSteps
  <2>. QED  BY <1>1, <1>4, <2>1, FailedStep DEF At
<1>5. CASE job[h].step \in {"getTicket", "useTicket"}
  <2>1. Goto(h, "logRematch") /\ job[h].user \in Users
    BY <1>2, <1>5 DEF CallFails, PartnerSteps, JobOK
  <2>. QED  BY <1>1, <2>1, GotoStep DEF Steps
<1>6. CASE job[h].step \notin PartnerSteps \cup {"logFailure", "getTicket", "useTicket"}
  <2>1. Finish(h)
    BY <1>6 DEF CallFails
  <2>. QED  BY <1>1, <2>1, FinishStep
<1>. QED  BY <1>3, <1>4, <1>5, <1>6

LEMMA EnvironmentStep ==
  ASSUME IInv, \/ \E s : Crash(s)
               \/ LockExpires
               \/ \E u \in Users : CountExpires(u)
  PROVE  IInv'
<1>1. UNCHANGED <<chosen, remembered, matches, failureLogs, usedFor>>
  BY DEF Crash, LockExpires, CountExpires, redis, tables
<1>2. \A i \in Handlers : job'[i] = job[i] \/ job'[i] = Idle
  BY DEF Crash, LockExpires, CountExpires
<1>3. matchCount' \in [Users -> Nat] /\ CountNotOver'
  <2>1. CASE matchCount' = matchCount
    BY <1>1, <2>1, CountsStill DEF IInv, Typed
  <2>2. CASE \E u \in Users : CountExpires(u)
    <3>1. PICK u \in Users : matchCount' = [matchCount EXCEPT ![u] = 0]
      BY <2>2 DEF CountExpires
    <3>2. chosen \in [Users -> Nat] /\ matchCount \in [Users -> Nat]
      BY DEF IInv, Typed
    <3>. QED  BY <1>1, <3>1, <3>2 DEF IInv, CountNotOver
  <2>. QED  BY <2>1, <2>2 DEF Crash, LockExpires, redis
<1>4. job' \in [Handlers -> Jobs]
  <2>1. job \in [Handlers -> Jobs]
    BY DEF IInv, Typed
  <2>. QED  BY <2>1, IdleType DEF Crash, LockExpires, CountExpires
<1>5. Typed'
  <2>1. lock' \in BOOLEAN /\ apart' \in BOOLEAN
    BY DEF IInv, Typed, Crash, LockExpires, CountExpires, redis
  <2>2. requests' \in Nat /\ failures' \in Nat /\ crashes' \in Nat
    BY DEF IInv, Typed, Crash, LockExpires, CountExpires, bounds
  <2>. QED  BY <1>1, <1>3, <1>4, <2>1, <2>2 DEF IInv, Typed
<1>6. Grows
  <2>1. Len(matches) \in Nat /\ \A u \in Users : chosen[u] \in Nat
    BY DEF IInv, Typed
  <2>. QED  BY <1>1, <2>1 DEF Grows
<1>7. JobsInv'
  BY <1>2, <1>5, <1>6, JobsEnd
<1>8. RowsInv' /\ TicketsBuyMatches'
  <2>1. \A i \in Handlers : job'[i] = job[i] \/ job'[i].step # "useTicket"
    BY <1>2, IdleType
  <2>. QED  BY <1>1, <1>6, <2>1, TicketsStill
<1>9. ForwardAfterReverse' /\ MatchesRemembered'
  BY <1>1, MatchesStill
<1>. QED  BY <1>3, <1>5, <1>7, <1>8, <1>9 DEF IInv

LEMMA StutterStep == ASSUME IInv, UNCHANGED vars PROVE IInv'
<1>. USE DEF vars, redis, tables, bounds
<1>1. Typed'
  BY DEF IInv, Typed
<1>2. JobsInv' /\ RowsInv'
  BY DEF IInv, JobsInv, RowsInv, At
<1>3. TicketsBuyMatches' /\ ForwardAfterReverse' /\ MatchesRemembered' /\ CountNotOver'
  BY MatchesStill, CountsStill DEF IInv, TicketsBuyMatches
<1>. QED  BY <1>1, <1>2, <1>3 DEF IInv

LEMMA Inductive == IInv /\ [Next]_vars => IInv'
<1> SUFFICES ASSUME IInv, [Next]_vars PROVE IInv'
  OBVIOUS
<1>1. ASSUME NEW h \in Handlers, Request(h) PROVE IInv'
  BY <1>1, RequestStep
<1>2. ASSUME NEW h \in Handlers, Continue(h) PROVE IInv'
  BY <1>2, BatchStep, ReadOrLogStep, ChooseStep, RedisStep, CreateReverseStep,
     CreateForwardStep, UseTicketStep DEF Continue
<1>3. ASSUME NEW h \in Handlers, CallFails(h) PROVE IInv'
  BY <1>3, CallFailsStep
<1>4. CASE \/ \E h \in Handlers : Crash(ServerOf[h])
           \/ LockExpires
           \/ \E u \in Users : CountExpires(u)
  BY <1>4, EnvironmentStep
<1>5. CASE UNCHANGED vars
  BY <1>5, StutterStep
<1>. QED  BY <1>1, <1>2, <1>3, <1>4, <1>5 DEF Next

-----------------------------------------------------------------------------
(***************************************************************************)
(* The lock.  A batch is engaged from the moment it has found the lock     *)
(* free; while apart holds, one batch is, and works under the lock.        *)
(***************************************************************************)
Engaged(h) == Working(h) \/ At(h, "setLock")

LockInv ==
  apart => /\ \A h \in Handlers : Working(h) => lock
           /\ \A g, h \in Handlers : Engaged(g) /\ Engaged(h) => g = h

\* Before its work a batch is at one of these.
Entry == {"idle", "batchStatus", "readLock", "setLock"}

\* A step of other than the lock: nobody becomes engaged by it.
LEMMA LockQuiet ==
  ASSUME LockInv, UNCHANGED <<lock, apart>>,
         \A i \in Handlers :
           \/ job'[i] = job[i]
           \/ job'[i].step \in {"idle", "batchStatus", "readLock"}
           \/ job'[i].kind = job[i].kind /\ job[i].step \notin Entry /\ job'[i].step \notin Entry
           \/ job'[i].kind # "batch" /\ job'[i].step # "setLock"
  PROVE  LockInv'
<1>1. \A i \in Handlers : Working(i)' => Working(i)
  BY DEF Working, Entry
<1>2. \A i \in Handlers : Engaged(i)' => Engaged(i)
  BY <1>1 DEF Engaged, At, Working, Entry
<1>. QED  BY <1>1, <1>2 DEF LockInv

\* The job of one handler becomes j.
LEMMA LockMove ==
  ASSUME IInv, LockInv, UNCHANGED <<lock, apart>>, NEW h \in Handlers, NEW j,
         job' = [job EXCEPT ![h] = j],
         \/ j.step \in {"idle", "batchStatus", "readLock"}
         \/ j.kind = job[h].kind /\ job[h].step \notin Entry /\ j.step \notin Entry
         \/ j.kind # "batch" /\ j.step # "setLock"
  PROVE  LockInv'
<1>1. \A i \in Handlers : job'[i] = IF i = h THEN j ELSE job[i]
  BY DEF IInv, Typed
<1>. QED  BY <1>1, LockQuiet

LEMMA LockGoto ==
  ASSUME IInv, LockInv, UNCHANGED <<lock, apart>>, NEW h \in Handlers, NEW s, Goto(h, s),
         \/ s \in {"idle", "batchStatus", "readLock"}
         \/ job[h].step \notin Entry /\ s \notin Entry
  PROVE  LockInv'
<1>1. PICK j : j = [job[h] EXCEPT !.step = s]
  OBVIOUS
<1>2. j.step = s /\ j.kind = job[h].kind
  BY <1>1 DEF IInv, Typed, Jobs
<1>3. job' = [job EXCEPT ![h] = j]
  BY <1>1 DEF Goto
<1>. QED  BY <1>2, <1>3, LockMove

LEMMA LockFinish ==
  ASSUME IInv, LockInv, UNCHANGED <<lock, apart>>, NEW h \in Handlers, Finish(h)
  PROVE  LockInv'
  BY IdleType, LockMove DEF Finish

LEMMA LockReturned ==
  ASSUME IInv, LockInv, UNCHANGED <<lock, apart>>, NEW h \in Handlers, NEW success,
         Returned(h, success), job[h].step \notin Entry
  PROVE  LockInv'
<1>1. PICK s : s = AfterPartner(job[h].kind, success)
  OBVIOUS
<1>2. CASE s = "idle"
  BY <1>1, <1>2, LockFinish DEF Returned
<1>3. CASE s # "idle"
  <2>1. job[h].kind \in Kinds
    BY DEF IInv, Typed, Jobs
  <2>2. s \notin Entry
    BY <1>1, <1>3, <2>1 DEF AfterPartner, Kinds, Entry
  <2>3. PICK j : j = [job[h] EXCEPT !.step = s, !.row = Len(matches) + 1]
    OBVIOUS
  <2>4. j.step = s /\ j.kind = job[h].kind
    BY <2>3 DEF IInv, Typed, Jobs
  <2>5. job' = [job EXCEPT ![h] = j]
    BY <1>1, <1>3, <2>3 DEF Returned
  <2>. QED  BY <2>2, <2>4, <2>5, LockMove
<1>. QED  BY <1>2, <1>3

LEMMA LockRequest == ASSUME IInv, LockInv, NEW h \in Handlers, Request(h) PROVE LockInv'
<1>1. ASSUME NEW step \in {"batchStatus", "listRest", "getMatched", "getTicket"},
             NEW kind \in Kinds, NEW u, Accept(h, step, kind, u),
             step = "batchStatus" \/ kind # "batch"
      PROVE  LockInv'
  <2>1. PICK j : j = Task(step, kind, u, NoTicket)
    OBVIOUS
  <2>2. j.step = step /\ j.kind = kind
    BY <2>1 DEF Task
  <2>3. job' = [job EXCEPT ![h] = j] /\ UNCHANGED <<lock, apart>>
    BY <1>1, <2>1 DEF Accept, redis
  <2>. QED  BY <1>1, <2>2, <2>3, LockMove
<1>. QED  BY <1>1 DEF Request, StartBatch, StartRest, StartSingle, StartRematch, Kinds

\* The steps of the lock itself.
LEMMA LockRead == ASSUME IInv, LockInv, NEW h \in Handlers, ReadLock(h) PROVE LockInv'
<1>1. CASE lock
  <2>1. Finish(h) /\ UNCHANGED lock /\ apart' = apart
    BY <1>1 DEF ReadLock, IInv, Typed
  <2>. QED  BY <2>1, LockFinish
<1>2. CASE ~ lock
  <2>1. Goto(h, "setLock") /\ UNCHANGED lock /\ At(h, "readLock")
    BY <1>2 DEF ReadLock
  <2>2. /\ \A i \in Handlers \ {h} : job'[i] = job[i]
        /\ job'[h].step = "setLock"
    BY <2>1 DEF Goto, IInv, Typed, Jobs
  <2>3. ASSUME apart' PROVE apart /\ \A g \in Handlers : ~ Engaged(g)
    <3>1. apart /\ \A g \in Handlers : ~ At(g, "setLock")
      BY <1>2, <2>3 DEF ReadLock
    <3>. QED  BY <1>2, <3>1 DEF LockInv, Engaged
  <2>4. ASSUME apart' PROVE \A g \in Handlers : ~ Working(g)' /\ (Engaged(g)' => g = h)
    BY <2>2, <2>3, <2>4 DEF Engaged, Working, At
  <2>. QED  BY <2>4 DEF LockInv
<1>. QED  BY <1>1, <1>2

LEMMA LockSet == ASSUME IInv, LockInv, NEW h \in Handlers, SetLock(h) PROVE LockInv'
<1>1. lock' = TRUE /\ apart' = apart /\ Goto(h, "listUsers") /\ At(h, "setLock")
  BY DEF SetLock
<1>2. \A i \in Handlers \ {h} : job'[i] = job[i]
  BY <1>1 DEF Goto, IInv, Typed
<1>3. \A i \in Handlers : Engaged(i)' => Engaged(i)
  BY <1>1, <1>2 DEF Engaged, Working, At
<1>. QED  BY <1>1, <1>3 DEF LockInv

LEMMA LockFinishList == ASSUME IInv, LockInv, NEW h \in Handlers, FinishList(h) PROVE LockInv'
<1>1. Finish(h) /\ apart' = apart /\ At(h, "nextUser")
  BY DEF FinishList
<1>2. CASE job[h].kind = "batch"
  <2>1. Working(h)
    BY <1>1, <1>2 DEF Working, At
  <2>2. job'[h] = Idle /\ \A i \in Handlers \ {h} : job'[i] = job[i]
    BY <1>1 DEF Finish, IInv, Typed
  <2>3. \A i \in Handlers : Engaged(i)' => Engaged(i) /\ i # h
    BY <2>2, IdleType DEF Engaged, Working, At
  <2>4. ASSUME apart' PROVE \A i \in Handlers : ~ Engaged(i)'
    BY <1>1, <2>1, <2>3, <2>4 DEF LockInv, Engaged
  <2>. QED  BY <2>4 DEF LockInv, Engaged
<1>3. CASE job[h].kind # "batch"
  <2>1. lock' = lock
    BY <1>3 DEF FinishList
  <2>. QED  BY <1>1, <2>1, LockFinish
<1>. QED  BY <1>2, <1>3

LEMMA LockTime ==
  ASSUME IInv, LockInv, (\E s : Crash(s)) \/ LockExpires \/ \E u \in Users : CountExpires(u)
  PROVE  LockInv'
<1>1. ASSUME NEW s, Crash(s) PROVE LockInv'
  <2>1. \A i \in Handlers : job'[i] = job[i] \/ job'[i].step = "idle"
    BY <1>1, IdleType DEF Crash
  <2>. QED  BY <1>1, <2>1, LockQuiet DEF Crash, redis
<1>2. CASE LockExpires
  <2>1. job' = job /\ (apart' => apart /\ \A h \in Handlers : ~ Working(h))
    BY <1>2 DEF LockExpires
  <2>. QED  BY <2>1 DEF LockInv, Engaged, Working, At
<1>3. CASE \E u \in Users : CountExpires(u)
  BY <1>3, LockQuiet DEF CountExpires
<1>. QED  BY <1>1, <1>2, <1>3

\* The other steps of a handler.
LEMMA LockContinue ==
  ASSUME IInv, LockInv, NEW h \in Handlers, Continue(h) PROVE LockInv'
<1>1. CASE ReadBatchStatus(h)
  BY <1>1, LockGoto, LockFinish DEF ReadBatchStatus, redis
<1>2. CASE ReadLock(h) \/ SetLock(h) \/ FinishList(h)
  BY <1>2, LockRead, LockSet, LockFinishList
<1>3. ASSUME NEW s, NEW q, job' = [job EXCEPT ![h].queue = q, ![h].step = s],
             UNCHANGED <<lock, apart>>, job[h].step \notin Entry, s \notin Entry
      PROVE  LockInv'
  <2>1. PICK j : j = [job[h] EXCEPT !.queue = q, !.step = s]
    OBVIOUS
  <2>2. j.step = s /\ j.kind = job[h].kind
    BY <2>1 DEF IInv, Typed, Jobs
  <2>3. job' = [job EXCEPT ![h] = j]
    BY <1>3, <2>1
  <2>. QED  BY <1>3, <2>2, <2>3, LockMove
<1>4. CASE ListUsers(h) \/ ListRest(h)
  <2>1. UNCHANGED <<lock, apart>> /\ job[h].step \notin Entry
    BY <1>4 DEF ListUsers, ListRest, At, Entry, redis
  <2>2. \/ Finish(h)
        \/ \E q : job' = [job EXCEPT ![h].queue = q, ![h].step = "nextUser"]
    BY <1>4 DEF ListUsers, ListRest
  <2>3. "nextUser" \notin Entry
    BY DEF Entry
  <2>. QED  BY <1>3, <2>1, <2>2, <2>3, LockFinish
<1>5. CASE NextUser(h)
  <2>1. PICK u \in job[h].queue :
          job' = [job EXCEPT ![h] = [Task("getMatched", job[h].kind, u, NoTicket)
                                       EXCEPT !.queue = job[h].queue \ {u}]]
    BY <1>5 DEF NextUser
  <2>2. PICK j : j = [Task("getMatched", job[h].kind, u, NoTicket)
                        EXCEPT !.queue = job[h].queue \ {u}]
    OBVIOUS
  <2>3. j.step = "getMatched" /\ j.kind = job[h].kind
    BY <2>2 DEF Task
  <2>4. job' = [job EXCEPT ![h] = j] /\ UNCHANGED <<lock, apart>> /\ job[h].step = "nextUser"
    BY <1>5, <2>1, <2>2 DEF NextUser, At, redis
  <2>. QED  BY <2>3, <2>4, LockMove DEF Entry
<1>6. CASE GetMatched(h)
  <2>1. PICK j : j = [job[h] EXCEPT !.step = "choose",
                                    !.except = {m \in Users : <<job[h].user, m>> \in remembered},
                                    !.seen = Len(matches)]
    OBVIOUS
  <2>2. j.step = "choose" /\ j.kind = job[h].kind
    BY <2>1 DEF IInv, Typed, Jobs
  <2>3. job' = [job EXCEPT ![h] = j] /\ UNCHANGED <<lock, apart>> /\ job[h].step = "getMatched"
    BY <1>6, <2>1 DEF GetMatched, At, redis
  <2>. QED  BY <2>2, <2>3, LockMove DEF Entry
<1>7. CASE Choose(h)
  <2>1. UNCHANGED <<lock, apart>> /\ job[h].step = "choose"
    BY <1>7 DEF Choose, At
  <2>2. CASE Goto(h, "logFailure")
    BY <2>1, <2>2, LockGoto DEF Entry
  <2>3. ASSUME NEW m, job' = [job EXCEPT ![h].step = "setCount", ![h].partner = m,
                                         ![h].count = matchCount[m]]
        PROVE  LockInv'
    <3>1. PICK j : j = [job[h] EXCEPT !.step = "setCount", !.partner = m,
                                      !.count = matchCount[m]]
      OBVIOUS
    <3>2. j.step = "setCount" /\ j.kind = job[h].kind
      BY <3>1 DEF IInv, Typed, Jobs
    <3>3. job' = [job EXCEPT ![h] = j]
      BY <2>3, <3>1
    <3>. QED  BY <2>1, <3>2, <3>3, LockMove DEF Entry
  <2>. QED  BY <1>7, <2>2, <2>3 DEF Choose
<1>8. CASE SetCount(h) \/ Remember(h) \/ CreateReverse(h)
  <2>1. UNCHANGED <<lock, apart>> /\ job[h].step \notin Entry
    BY <1>8 DEF SetCount, Remember, CreateReverse, At, Entry, redis
  <2>2. \E s \in {"remember", "createReverse", "createForward"} : Goto(h, s)
    BY <1>8 DEF SetCount, Remember, CreateReverse
  <2>. QED  BY <2>1, <2>2, LockGoto DEF Entry
<1>9. CASE CreateForward(h) \/ LogFailure(h)
  <2>1. UNCHANGED <<lock, apart>> /\ job[h].step \notin Entry
    BY <1>9 DEF CreateForward, LogFailure, At, Entry, redis
  <2>2. Returned(h, TRUE) \/ Returned(h, FALSE)
    BY <1>9 DEF CreateForward, LogFailure
  <2>. QED  BY <2>1, <2>2, LockReturned
<1>10. CASE GetTicket(h)
  <2>1. UNCHANGED <<lock, apart>> /\ job[h].step = "getTicket"
    BY <1>10 DEF GetTicket, At, redis
  <2>2. ASSUME NEW t, job' = [job EXCEPT ![h].step = "getMatched", ![h].ticket = t]
        PROVE  LockInv'
    <3>1. PICK j : j = [job[h] EXCEPT !.step = "getMatched", !.ticket = t]
      OBVIOUS
    <3>2. j.step = "getMatched" /\ j.kind = job[h].kind
      BY <3>1 DEF IInv, Typed, Jobs
    <3>3. job' = [job EXCEPT ![h] = j]
      BY <2>2, <3>1
    <3>. QED  BY <2>1, <3>2, <3>3, LockMove DEF Entry
  <2>. QED  BY <1>10, <2>1, <2>2, LockFinish DEF GetTicket
<1>11. CASE UseTicket(h) \/ LogRematch(h)
  BY <1>11, LockFinish DEF UseTicket, LogRematch, redis
<1>. QED  BY <1>1, <1>2, <1>4, <1>5, <1>6, <1>7, <1>8, <1>9, <1>10, <1>11 DEF Continue

LEMMA LockFails == ASSUME IInv, LockInv, NEW h \in Handlers, CallFails(h) PROVE LockInv'
<1>1. UNCHANGED <<lock, apart>>
  BY DEF CallFails, redis
<1>2. CASE job[h].step \in PartnerSteps
  BY <1>1, <1>2, LockGoto DEF CallFails, PartnerSteps, Entry
<1>3. CASE job[h].step = "logFailure"
  BY <1>1, <1>3, LockReturned DEF CallFails, PartnerSteps, Entry
<1>4. CASE job[h].step \in {"getTicket", "useTicket"}
  BY <1>1, <1>4, LockGoto DEF CallFails, PartnerSteps, Entry
<1>5. CASE job[h].step \notin PartnerSteps \cup {"logFailure", "getTicket", "useTicket"}
  BY <1>1, <1>5, LockFinish DEF CallFails
<1>. QED  BY <1>2, <1>3, <1>4, <1>5

LEMMA LockNext == IInv /\ LockInv /\ [Next]_vars => LockInv'
<1> SUFFICES ASSUME IInv, LockInv, [Next]_vars PROVE LockInv'
  OBVIOUS
<1>1. CASE UNCHANGED vars
  BY <1>1, LockQuiet DEF vars, redis
<1>. QED  BY <1>1, LockRequest, LockContinue, LockFails, LockTime DEF Next

-----------------------------------------------------------------------------
(***************************************************************************)
(* The theorems.                                                           *)
(***************************************************************************)
\* The inductive invariant holds of every behaviour of creation.service.ts.
THEOREM Invariance == Spec => []IInv
  BY InitInv, Inductive, PTL DEF Spec

\* Every reachable state is type-correct, and a job that has chosen a partner
\* has chosen somebody else than the requester.
THEOREM TypeCorrect == Spec => []TypeOK
  BY Invariance, JobProperties, PTL

\* Whatever fails or is interleaved, the requester's row of a scheduled match
\* is preceded by her partner's.
THEOREM PartnersSeeEachOther == Spec => []ForwardAfterReverse
<1>1. IInv => ForwardAfterReverse
  BY DEF IInv
<1>. QED  BY <1>1, Invariance, PTL

\* Every row of matches is in the history of the user it was made for.
THEOREM HistoryComplete == Spec => []MatchesRemembered
<1>1. IInv => MatchesRemembered
  BY DEF IInv
<1>. QED  BY <1>1, Invariance, PTL

\* No request chooses a partner that an earlier request of the same user got.
THEOREM NoRepeatedChoice == Spec => []FreshPartner
  BY Invariance, JobProperties, PTL

\* A used ticket has bought its owner a rematch, and no rematch takes two.
THEOREM NoTicketLost == Spec => []TicketsBuyMatches
<1>1. IInv => TicketsBuyMatches
  BY DEF IInv
<1>. QED  BY <1>1, Invariance, PTL

\* The counter behind the weights never exceeds the number of choices.
THEOREM CountsBounded == Spec => []CountNotOver
<1>1. IInv => CountNotOver
  BY DEF IInv
<1>. QED  BY <1>1, Invariance, PTL

\* The lock of the batch keeps batches apart, whatever fails, crashes or expires,
\* but for its two gaps: two batches between its read and its write, and its
\* expiry under a batch that still works.
THEOREM LockExcludes == Spec => []BatchesApart
<1>1. Init => LockInv
  BY IdleType DEF Init, LockInv, Engaged, Working, At
<1>2. LockInv => BatchesApart
  BY DEF LockInv, Engaged, BatchesApart
<1>. QED  BY <1>1, <1>2, InitInv, Inductive, LockNext, PTL DEF Spec
=============================================================================
