----------------------------- MODULE Matchmaking -----------------------------
(***************************************************************************)
(* Making matches (creation.service.ts): the batch that the cron job or an *)
(* administrator starts under a lock in the cache, the administrator's run *)
(* over the members the batch left out, a single match by an               *)
(* administrator, and the rematch a user pays with a ticket.  All of them  *)
(* call createPartner, which writes a counter and a history in Redis and   *)
(* rows in PostgreSQL, one await after the other and without a             *)
(* transaction.  A request is a job of a handler of one server process;    *)
(* every action is the code between two awaits.                            *)
(*                                                                         *)
(* A candidate is a user the vector search returns for the requester       *)
(* (profile-similar-finder.service.ts): the relation Eligible, per type of *)
(* match.  Slack messages leave no trace in the model; a failing one is a  *)
(* call that fails, or a crash where the code does not await it.           *)
(***************************************************************************)
EXTENDS Integers, Sequences

CONSTANTS Users,         \* users with a profile
          Members,       \* users of findAllMatchingUsers
          RestMembers,   \* users of findRestMembers, before it looks at matches
          Eligible,      \* for each type, the pairs <<requester, candidate>>
          Tickets,       \* rematching tickets
          Owner,         \* the user of each ticket
          Handlers,      \* jobs the servers can work on at a time
          ServerOf,      \* the server process each handler runs in
          BatchHandlers, \* handlers that may be asked for a batch
          NoUser, NoTicket,
          MaxRequests,   \* bound: requests accepted in a behaviour
          MaxFailures,   \* bound: failed calls
          MaxCrashes     \* bound: crashed processes

MatchTypes == {"scheduled", "rematching", "admin"}
Kinds == {"batch", "rest", "single", "rematch"}

ASSUME MembersAssumption == Members \subseteq Users /\ RestMembers \subseteq Users
ASSUME EligibleAssumption ==
  /\ Eligible \in [MatchTypes -> SUBSET (Users \X Users)]
  /\ \A type \in MatchTypes, u \in Users : <<u, u>> \notin Eligible[type]
ASSUME OwnerAssumption == Owner \in [Tickets -> Users]
ASSUME NothingAssumption == NoUser \notin Users /\ NoTicket \notin Tickets

VARIABLES
  lock,          \* the cache holds matching:creation:lock
  apart,         \* no batch found the lock free while another was about to set
                 \* it, and it never expired under a batch at work (history)
  matchCount,    \* user:<id>:match_count in the cache
  chosen,        \* how often each user was chosen as a partner (history variable)
  remembered,    \* the keys <requester>:match_users:<partner> in Redis
  matches,       \* rows of matches; the field by, which the table lacks, names
                 \* the requester (history)
  failureLogs,   \* users with a row in matching_failure_logs
  usedFor,       \* 0 while tickets.status is available; once it is used, the
                 \* index in matches of the match it was used for (history)
  job,           \* what each handler is doing
  requests, failures, crashes  \* counted for the bounds

redis  == <<lock, apart, matchCount, chosen, remembered>>
tables == <<matches, failureLogs, usedFor>>
bounds == <<requests, failures, crashes>>
vars   == <<redis, tables, job, bounds>>

PartnerSteps == {"getMatched", "choose", "setCount", "remember",
                 "createReverse", "createForward"}
BatchSteps == {"batchStatus", "readLock", "setLock", "listUsers"}
Steps == PartnerSteps \cup BatchSteps \cup
         {"idle", "nextUser", "listRest", "getTicket", "logFailure", "useTicket",
          "logRematch"}

\* The type of match each kind of job asks createPartner for.
TypeOf(kind) ==
  CASE kind \in {"batch", "rest"} -> "scheduled"
    [] kind = "rematch" -> "rematching"
    [] kind = "single" -> "admin"

\* A job: queue holds the users still to be matched, except and count what it
\* has read, partner what it has chosen.  seen and row are history: the number
\* of rows when except was read, and the index of the row the job has written.
Task(step, kind, u, t) ==
  [step |-> step, kind |-> kind, user |-> u, ticket |-> t, queue |-> {},
   except |-> {}, partner |-> NoUser, count |-> 0, seen |-> 0, row |-> 0]
Idle == Task("idle", "single", NoUser, NoTicket)

Init ==
  /\ lock = FALSE
  /\ apart = TRUE
  /\ matchCount = [u \in Users |-> 0]
  /\ chosen = [u \in Users |-> 0]
  /\ remembered = {}
  /\ matches = <<>>
  /\ failureLogs = {}
  /\ usedFor = [t \in Tickets |-> 0]
  /\ job = [h \in Handlers |-> Idle]
  /\ requests = 0
  /\ failures = 0
  /\ crashes = 0

-----------------------------------------------------------------------------
(***************************************************************************)
(* Handler plumbing: these set job' and nothing else.                      *)
(***************************************************************************)
At(h, step) == job[h].step = step

Goto(h, step) == job' = [job EXCEPT ![h].step = step]

Finish(h) == job' = [job EXCEPT ![h] = Idle]

\* Mutant: the caller of createPartner does not look at result.success.
AfterPartnerAnyway(kind, success) ==
  CASE kind \in {"batch", "rest"} -> "nextUser"
    [] kind = "rematch" -> "useTicket"
    [] kind = "single" -> "idle"

\* Mutant: the loop over the users ends at the first that finds no partner.
AfterPartnerOrStop(kind, success) ==
  CASE kind \in {"batch", "rest"} -> IF success THEN "nextUser" ELSE "idle"
    [] kind = "rematch" -> IF success THEN "useTicket" ELSE "logRematch"
    [] kind = "single" -> "idle"

\* What the caller of createPartner does with its result.
AfterPartner(kind, success) ==
  CASE kind \in {"batch", "rest"} -> "nextUser"
    [] kind = "rematch" -> IF success THEN "useTicket" ELSE "logRematch"
    [] kind = "single" -> "idle"

\* createPartner returns (it never throws), with a row written if it succeeds.
Returned(h, success) ==
  LET next == AfterPartner(job[h].kind, success)
  IN IF next = "idle"
       THEN Finish(h)
       ELSE job' = [job EXCEPT ![h].step = next, ![h].row = Len(matches) + 1]

\* An idle handler takes up a request.
Accept(h, step, kind, u) ==
  /\ At(h, "idle")
  /\ requests < MaxRequests
  /\ requests' = requests + 1
  /\ job' = [job EXCEPT ![h] = Task(step, kind, u, NoTicket)]
  /\ UNCHANGED <<redis, tables, failures, crashes>>

-----------------------------------------------------------------------------
(***************************************************************************)
(* processMatchCentral and batch.                                          *)
(***************************************************************************)

\* The cron job's tick, or POST /admin/matching/batch.
StartBatch(h) == h \in BatchHandlers /\ Accept(h, "batchStatus", "batch", NoUser)

\* batchStatus, which operators set in the cache, enables the batch or not.
ReadBatchStatus(h) ==
  /\ At(h, "batchStatus")
  /\ Goto(h, "readLock") \/ Finish(h)
  /\ UNCHANGED <<redis, tables, bounds>>

\* A batch that has set the lock and has not ended.
Working(h) == /\ job[h].kind = "batch"
              /\ job[h].step \notin {"idle", "batchStatus", "readLock", "setLock"}

ReadLock(h) ==
  /\ At(h, "readLock")
  /\ IF lock THEN Finish(h) ELSE Goto(h, "setLock")
  /\ apart' = (apart /\ (lock \/ \A g \in Handlers : ~ At(g, "setLock")))
  /\ UNCHANGED <<lock, matchCount, chosen, remembered, tables, bounds>>

SetLock(h) ==
  /\ At(h, "setLock")
  /\ lock' = TRUE
  /\ Goto(h, "listUsers")
  /\ UNCHANGED <<apart, matchCount, chosen, remembered, tables, bounds>>

ListUsers(h) ==
  /\ At(h, "listUsers")
  /\ job' = [job EXCEPT ![h].queue = Members, ![h].step = "nextUser"]
  /\ UNCHANGED <<redis, tables, bounds>>

\* POST /matching/rest-members: no lock is taken.
StartRest(h) == Accept(h, "listRest", "rest", NoUser)

\* findRestMembers: the users who have no scheduled match of today.
Unmatched ==
  {u \in RestMembers :
     \A i \in DOMAIN matches : ~ (matches[i].my = u /\ matches[i].type = "scheduled")}

\* On other days than the matching days the request is refused.
ListRest(h) ==
  /\ At(h, "listRest")
  /\ \/ job' = [job EXCEPT ![h].queue = Unmatched, ![h].step = "nextUser"]
     \/ Finish(h)
  /\ UNCHANGED <<redis, tables, bounds>>

\* The next user of the list; the query gives the list no order.
NextUser(h) ==
  /\ At(h, "nextUser")
  /\ \E u \in job[h].queue :
       job' = [job EXCEPT ![h] = [Task("getMatched", job[h].kind, u, NoTicket)
                                    EXCEPT !.queue = job[h].queue \ {u}]]
  /\ UNCHANGED <<redis, tables, bounds>>

\* Mutant: a run over the rest deletes the lock, too.
FinishListUnlocks(h) ==
  /\ At(h, "nextUser") /\ job[h].queue = {}
  /\ Finish(h)
  /\ lock' = FALSE
  /\ UNCHANGED <<apart, matchCount, chosen, remembered, tables, bounds>>

\* The list is done; batch deletes the lock, whoever has set it.
FinishList(h) ==
  /\ At(h, "nextUser") /\ job[h].queue = {}
  /\ Finish(h)
  /\ lock' = IF job[h].kind = "batch" THEN FALSE ELSE lock
  /\ UNCHANGED <<apart, matchCount, chosen, remembered, tables, bounds>>

-----------------------------------------------------------------------------
(***************************************************************************)
(* createPartner.                                                          *)
(***************************************************************************)

\* POST /admin/matching/user.
StartSingle(h, u) == Accept(h, "getMatched", "single", u)

\* getMatchedUserIds of the history.
GetMatched(h) ==
  /\ At(h, "getMatched")
  /\ job' = [job EXCEPT ![h].step = "choose",
                        ![h].except = {m \in Users : <<job[h].user, m>> \in remembered},
                        ![h].seen = Len(matches)]
  /\ UNCHANGED <<redis, tables, bounds>>

\* Mutant: the candidates are not compared with the history.
ChooseAny(h) ==
  LET candidates == {m \in Users :
                       <<job[h].user, m>> \in Eligible[TypeOf(job[h].kind)]}
  IN /\ At(h, "choose")
     /\ \/ /\ candidates = {}
           /\ Goto(h, "logFailure")
           /\ UNCHANGED chosen
        \/ \E m \in candidates :
             /\ job' = [job EXCEPT ![h].step = "setCount", ![h].partner = m,
                                   ![h].count = matchCount[m]]
             /\ chosen' = [chosen EXCEPT ![m] = @ + 1]
     /\ UNCHANGED <<lock, apart, matchCount, remembered, tables, bounds>>

\* findCandidates and weightedRandomChoice; incrementMatchCount reads the
\* counter.  Every candidate has a positive weight.
Choose(h) ==
  LET candidates == {m \in Users :
                       <<job[h].user, m>> \in Eligible[TypeOf(job[h].kind)]}
                      \ job[h].except
  IN /\ At(h, "choose")
     /\ \/ /\ candidates = {}
           /\ Goto(h, "logFailure")
           /\ UNCHANGED chosen
        \/ \E m \in candidates :
             /\ job' = [job EXCEPT ![h].step = "setCount", ![h].partner = m,
                                   ![h].count = matchCount[m]]
             /\ chosen' = [chosen EXCEPT ![m] = @ + 1]
     /\ UNCHANGED <<lock, apart, matchCount, remembered, tables, bounds>>

\* incrementMatchCount writes it.
SetCount(h) ==
  /\ At(h, "setCount")
  /\ matchCount' = [matchCount EXCEPT ![job[h].partner] = job[h].count + 1]
  /\ Goto(h, "remember")
  /\ UNCHANGED <<lock, apart, chosen, remembered, tables, bounds>>

\* The two profiles are read, addMatchedUser writes the history of the
\* requester (not that of the partner), Slack is told of a match that is no
\* batch's.  The history's TTL of 259200000 seconds never runs out.
Remember(h) ==
  /\ At(h, "remember")
  /\ remembered' = remembered \cup {<<job[h].user, job[h].partner>>}
  /\ Goto(h, IF TypeOf(job[h].kind) = "scheduled" THEN "createReverse"
                                                  ELSE "createForward")
  /\ UNCHANGED <<lock, apart, matchCount, chosen, tables, bounds>>

\* A row of matches.
Row(my, matcher, type, by) == [my |-> my, matcher |-> matcher, type |-> type, by |-> by]

\* Mutant: the partner's row is written for the requester.
CreateReverseTwice(h) ==
  LET j == job[h]
  IN /\ At(h, "createReverse")
     /\ matches' = Append(matches, Row(j.user, j.partner, TypeOf(j.kind), j.user))
     /\ Goto(h, "createForward")
     /\ UNCHANGED <<redis, failureLogs, usedFor, bounds>>

\* createMatch for the partner, of a scheduled match only.
CreateReverse(h) ==
  LET j == job[h]
  IN /\ At(h, "createReverse")
     /\ matches' = Append(matches, Row(j.partner, j.user, TypeOf(j.kind), j.user))
     /\ Goto(h, "createForward")
     /\ UNCHANGED <<redis, failureLogs, usedFor, bounds>>

\* createMatch for the requester; createPartner succeeds.
CreateForward(h) ==
  LET j == job[h]
  IN /\ At(h, "createForward")
     /\ matches' = Append(matches, Row(j.user, j.partner, TypeOf(j.kind), j.user))
     /\ Returned(h, TRUE)
     /\ UNCHANGED <<redis, failureLogs, usedFor, bounds>>

\* No candidate was found, or an exception was caught: logMatchingFailure, and
\* createPartner fails.
LogFailure(h) ==
  /\ At(h, "logFailure")
  /\ failureLogs' = failureLogs \cup {job[h].user}
  /\ Returned(h, FALSE)
  /\ UNCHANGED <<redis, matches, usedFor, bounds>>

-----------------------------------------------------------------------------
(***************************************************************************)
(* rematch.                                                                *)
(***************************************************************************)

\* POST /matching/rematch.
StartRematch(h, u) == Accept(h, "getTicket", "rematch", u)

Available(u) == {t \in Tickets : Owner[t] = u /\ usedFor[t] = 0}

\* getAvailableTicket: the newest one, and the tickets of one purchase are of
\* one time.  Without one the request is refused.
GetTicket(h) ==
  LET u == job[h].user
  IN /\ At(h, "getTicket")
     /\ \/ Available(u) = {} /\ Finish(h)
        \/ \E t \in Available(u) :
             job' = [job EXCEPT ![h].step = "getMatched", ![h].ticket = t]
     /\ UNCHANGED <<redis, tables, bounds>>

\* useTicket, after the match has been made.
UseTicket(h) ==
  /\ At(h, "useTicket")
  /\ usedFor' = [usedFor EXCEPT ![job[h].ticket] = job[h].row]
  /\ Finish(h)
  /\ UNCHANGED <<redis, matches, failureLogs, bounds>>

\* rematch logs a failure of its own, and throws.
LogRematch(h) ==
  /\ At(h, "logRematch")
  /\ failureLogs' = failureLogs \cup {job[h].user}
  /\ Finish(h)
  /\ UNCHANGED <<redis, matches, usedFor, bounds>>

-----------------------------------------------------------------------------
(***************************************************************************)
(* Failures and time.                                                      *)
(***************************************************************************)

\* An awaited call fails.  createPartner and rematch catch and log it (a log
\* that fails is skipped), the other handlers end, and leave the lock as it is.
\* Between two users the loops only sleep.
CallFails(h) ==
  /\ job[h].step \notin {"idle", "nextUser"}
  /\ failures < MaxFailures
  /\ failures' = failures + 1
  /\ CASE job[h].step \in PartnerSteps -> Goto(h, "logFailure")
       [] job[h].step = "logFailure" -> Returned(h, FALSE)
       [] job[h].step \in {"getTicket", "useTicket"} -> Goto(h, "logRematch")
       [] OTHER -> Finish(h)
  /\ UNCHANGED <<redis, tables, requests, crashes>>

\* A server process ends: it is deployed anew, or a Slack message the batch
\* does not await is rejected.
Crash(s) ==
  /\ crashes < MaxCrashes
  /\ crashes' = crashes + 1
  /\ \E h \in Handlers : ServerOf[h] = s /\ ~ At(h, "idle")
  /\ job' = [h \in Handlers |-> IF ServerOf[h] = s THEN Idle ELSE job[h]]
  /\ UNCHANGED <<redis, tables, requests, failures>>

\* The hour of the lock's TTL is over.
LockExpires ==
  /\ lock
  /\ lock' = FALSE
  /\ apart' = (apart /\ \A h \in Handlers : ~ Working(h))
  /\ UNCHANGED <<matchCount, chosen, remembered, tables, job, bounds>>

\* The TTL of a counter is over: the cache takes the 2592000 for milliseconds,
\* so this is 43 minutes after the last match.
CountExpires(u) ==
  /\ matchCount[u] > 0
  /\ matchCount' = [matchCount EXCEPT ![u] = 0]
  /\ UNCHANGED <<lock, apart, chosen, remembered, tables, job, bounds>>

-----------------------------------------------------------------------------
Request(h) ==
  \/ StartBatch(h) \/ StartRest(h)
  \/ \E u \in Users : StartSingle(h, u) \/ StartRematch(h, u)

\* The steps the event loop takes once the call a handler awaits has answered.
Continue(h) ==
  \/ ReadBatchStatus(h) \/ ReadLock(h) \/ SetLock(h) \/ ListUsers(h)
  \/ ListRest(h) \/ NextUser(h) \/ FinishList(h)
  \/ GetMatched(h) \/ Choose(h) \/ SetCount(h) \/ Remember(h)
  \/ CreateReverse(h) \/ CreateForward(h) \/ LogFailure(h)
  \/ GetTicket(h) \/ UseTicket(h) \/ LogRematch(h)

Next ==
  \/ \E h \in Handlers : Request(h) \/ Continue(h) \/ CallFails(h)
  \/ \E h \in Handlers : Crash(ServerOf[h])
  \/ LockExpires
  \/ \E u \in Users : CountExpires(u)

Spec == Init /\ [][Next]_vars

\* A handler whose call keeps being answered is resumed.  Nothing is assumed of
\* the expiry of keys.
FairSpec == Spec /\ \A h \in Handlers : WF_vars(Continue(h))

-----------------------------------------------------------------------------
(***************************************************************************)
(* Properties.                                                             *)
(***************************************************************************)
Jobs ==
  [step : Steps, kind : Kinds, user : Users \cup {NoUser},
   ticket : Tickets \cup {NoTicket}, queue : SUBSET Users, except : SUBSET Users,
   partner : Users \cup {NoUser}, count : Nat, seen : Nat, row : Nat]

Rows == [my : Users, matcher : Users, type : MatchTypes, by : Users]

\* The state is of the type the declarations say: every job of createPartner has
\* a requester, and from the choice on a partner who is somebody else.
TypeOK ==
  /\ lock \in BOOLEAN /\ apart \in BOOLEAN
  /\ matchCount \in [Users -> Nat] /\ chosen \in [Users -> Nat]
  /\ remembered \in SUBSET (Users \X Users)
  /\ matches \in Seq(Rows)
  /\ failureLogs \in SUBSET Users
  /\ usedFor \in [Tickets -> Nat]
  /\ job \in [Handlers -> Jobs]
  /\ requests \in Nat /\ failures \in Nat /\ crashes \in Nat
  /\ \A h \in Handlers :
       /\ job[h].step \in PartnerSteps \cup {"getTicket", "logFailure", "useTicket", "logRematch"}
            => job[h].user \in Users
       /\ job[h].step \in PartnerSteps \ {"getMatched", "choose"}
            => job[h].partner \in Users \ {job[h].user}
       /\ job[h].step = "useTicket" => job[h].ticket \in Tickets

\* Whom the request a row was written for brought the requester together with.
Partner(m) == IF m.by = m.my THEN m.matcher ELSE m.my

\* createPartner writes the partner's row of a scheduled match before the
\* requester's (creation.service.ts:217-229), so that whatever fails or is
\* interleaved, who sees a scheduled match she asked for is seen by her partner.
ForwardAfterReverse ==
  \A i \in DOMAIN matches :
    LET m == matches[i]
    IN m.type = "scheduled" /\ m.by = m.my =>
         \E k \in 1..(i - 1) : matches[k] = Row(m.matcher, m.my, "scheduled", m.my)

\* The history knows every pair of the table under its requester: it is written
\* before the rows (creation.service.ts:204-229), by whatever handlers.
MatchesRemembered ==
  \A i \in DOMAIN matches : <<matches[i].by, Partner(matches[i])>> \in remembered

\* Nobody is chosen for a requester for whom she was chosen before: no row that
\* was there when createPartner read the history names the two, however many
\* requests of that user are under way.
FreshPartner ==
  \A h \in Handlers :
    job[h].step \in PartnerSteps \ {"getMatched", "choose"} =>
      \A i \in DOMAIN matches :
        i <= job[h].seen /\ matches[i].by = job[h].user =>
          Partner(matches[i]) # job[h].partner

\* A ticket is used up only for a rematch its owner got, and no rematch takes
\* two tickets, even when requests of one user overlap or fail half-way.
TicketsBuyMatches ==
  \A t \in Tickets :
    usedFor[t] # 0 =>
      /\ usedFor[t] \in DOMAIN matches
      /\ matches[usedFor[t]].type = "rematching"
      /\ matches[usedFor[t]].my = Owner[t]
      /\ \A t2 \in Tickets \ {t} : usedFor[t2] # usedFor[t]

\* The counter that lowers a user's weight never exceeds the number of times
\* she was chosen: concurrent increments and the TTL may lose some, never invent.
CountNotOver == \A u \in Users : matchCount[u] <= chosen[u]

\* The lock, read and set in two calls and deleted by whoever ends, does keep
\* batches apart, through failures, crashes and the expiry of the locks crashed
\* batches leave, but for the two gaps that end apart: then one batch works at
\* most, and holds the lock as long as it does.
BatchesApart ==
  apart => \A g, h \in Handlers : Working(h) => lock /\ (Working(g) => g = h)

\* Every user of the list of a batch, or of a run over the rest, gets her turn,
\* whatever fails for the users before her, unless the process ends.
EveryMemberGetsTurn ==
  \A h \in Handlers, u \in Users :
    u \in job[h].queue ~> job[h].user = u \/ crashes > 0
=============================================================================
