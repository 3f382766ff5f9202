------------------------------ MODULE MatchView ------------------------------
(***************************************************************************)
(* What GET /matching answers one user as the week goes by: the rows       *)
(* createMatch writes with their periods, findLatestMatch,                 *)
(* findLatestScheduledMatch, MatchResultRouter and the dates of            *)
(* matching/domain/date.ts.                                                *)
(*                                                                         *)
(* Time is counted in half hours from a Monday 00:00 in Seoul, the zone of *)
(* the process and of every database session: an even tick is the instant  *)
(* of a full hour, an odd tick any instant between two.  The code looks at *)
(* days, hours and comparisons only, so no more of an instant matters.     *)
(***************************************************************************)
EXTENDS Integers, FiniteSets

CONSTANTS
  Horizon,      \* the last tick
  AskTicks,     \* the ticks of a day at which matches are asked for
  MaxMatches    \* rows of the user kept at once

ASSUME HorizonAssumption == Horizon \in Nat

VARIABLES
  now,          \* the tick
  matches       \* the user's rows that some answer can still depend on

vars == <<now, matches>>

Hour == 2
Day == 24 * Hour
Week == 7 * Day

\* Days are numbered from Monday.
Thursday == 3
Sunday   == 6

Types == {"scheduled", "rematching", "admin"}

Rows == [type : Types, createdAt : Nat, publishedAt : Nat, expiredAt : Nat]

Init ==
  /\ now = 0
  /\ matches = {}

-----------------------------------------------------------------------------
(***************************************************************************)
(* weekDateService.                                                        *)
(***************************************************************************)
StartOfWeek(t) == t - (t % Week)
StartOfDay(t)  == t - (t % Day)
DayOfWeek(t)   == (t % Week) \div Day
HourOfDay(t)   == (t % Day) \div Hour

\* 21:00 of a day of t's week, when its matches are published.
Release(t, day) == StartOfWeek(t) + day * Day + 21 * Hour

CreatePublishDate(t) == StartOfDay(t) + 21 * Hour

GetNextMatchingDate(t) ==
  IF t < Release(t, Thursday) THEN Release(t, Thursday) ELSE Release(t, Sunday)

\* The period of a day from 20:00 two days before it to 20:00 of the day.
InPeriodOf(day, t) ==
  \/ DayOfWeek(t) = day - 2 /\ HourOfDay(t) >= 20
  \/ DayOfWeek(t) = day - 1
  \/ DayOfWeek(t) = day /\ HourOfDay(t) < 20

\* 20:00 of a day of t's week that is t's own or a later one.
EveOf(day, t) == StartOfDay(t) + (day - DayOfWeek(t)) * Day + 20 * Hour

\* Mutant: Sunday's period is forgotten.
CalculateRematchExpiredAtThursdayOnly(t) ==
  IF InPeriodOf(Thursday, t) THEN EveOf(Thursday, t) ELSE t + 48 * Hour

\* A rematch made within the 48 hours before 20:00 of a day of release ends
\* there, any other one after 48 hours.
CalculateRematchExpiredAt(t) ==
  IF InPeriodOf(Thursday, t) THEN EveOf(Thursday, t)
  ELSE IF InPeriodOf(Sunday, t) THEN EveOf(Sunday, t)
  ELSE t + 48 * Hour

-----------------------------------------------------------------------------
(***************************************************************************)
(* The rows: MatchingCreationService.createMatch and                       *)
(* MatchRepository.createMatch.                                            *)
(***************************************************************************)
PublishedAt(type) ==
  IF type = "scheduled" THEN CreatePublishDate(now) ELSE now

ExpiredAt(type) ==
  IF type = "rematching" THEN CalculateRematchExpiredAt(PublishedAt(type))
                         ELSE PublishedAt(type) + 48 * Hour

NewMatch(type) ==
  [type |-> type, createdAt |-> now, publishedAt |-> PublishedAt(type),
   expiredAt |-> ExpiredAt(type)]

\* Within a tick one row is created, so createdAt orders the rows.
CreateMatch(type) ==
  /\ Cardinality(matches) < MaxMatches
  /\ \A m \in matches : m.createdAt < now
  /\ matches' = matches \cup {NewMatch(type)}
  /\ UNCHANGED now

\* The cron job's batch, in the first hour of a Thursday or a Sunday, finds the
\* user a partner in the user's turn, or finds somebody else this partner.
Batch ==
  /\ DayOfWeek(now) \in {Thursday, Sunday} /\ HourOfDay(now) = 0
  /\ CreateMatch("scheduled")

\* matchRestMembers refuses on the other days.
RestMembers ==
  /\ now % Day \in AskTicks
  /\ DayOfWeek(now) \in {Thursday, Sunday}
  /\ CreateMatch("scheduled")

\* POST /matching/rematch.
Rematch == now % Day \in AskTicks /\ CreateMatch("rematching")

\* POST /admin/matching/user.
AdminMatch == now % Day \in AskTicks /\ CreateMatch("admin")

-----------------------------------------------------------------------------
(***************************************************************************)
(* The answer: MatchRepository's two queries, MatchResultRouter and        *)
(* MatchingService.getLatestPartner.  A query's result, and the match an   *)
(* answer shows, is a set of at most one row.                              *)
(***************************************************************************)
Newest(S) == {m \in S : \A n \in S : n.createdAt <= m.createdAt}

Recent(t) == {m \in matches : t - 48 * Hour <= m.createdAt}

\* Mutant: the window of the query is a day.
FindLatestMatchOfDay(t) == Newest({m \in matches : t - Day <= m.createdAt})

FindLatestMatch(t) == Newest(Recent(t))

FindLatestScheduledMatch(t) ==
  Newest({m \in Recent(t) : m.type = "scheduled"})

CheckEarlyView(t) ==
  t < Release(t, Sunday) /\ t # Release(t, Thursday)

CheckOver(m, t) == m.expiredAt < t

CheckRematchingEligibility(m, t) ==
  ~ CheckOver(m, t) /\ m.type \in {"rematching", "admin"}

\* Answers without a match carry the next date instead; null is not modelled.
Waiting(t)  == [type |-> "waiting", match |-> {}, untilNext |-> GetNextMatchingDate(t)]
NotFound(t) == [type |-> "not-found", match |-> {}, untilNext |-> GetNextMatchingDate(t)]
Showing(type, m) == [type |-> type, match |-> {m}, untilNext |-> 0]

\* Mutant: the check of publishedAt is lost.
OfMatchUnpublished(m, t) ==
  IF CheckRematchingEligibility(m, t) THEN Showing("rematching", m)
  ELSE IF CheckOver(m, t) THEN Waiting(t)
  ELSE Showing("open", m)

OfMatch(m, t) ==
  IF CheckRematchingEligibility(m, t) THEN Showing("rematching", m)
  ELSE IF CheckOver(m, t) \/ t < m.publishedAt THEN Waiting(t)
  ELSE Showing("open", m)

\* The answers for a result of a query: one.
ResolveMatchingStatus(found, t) ==
  IF found = {}
    THEN IF CheckEarlyView(t) THEN {Waiting(t)} ELSE {NotFound(t)}
    ELSE {OfMatch(m, t) : m \in found}

\* An expired rematch gives way to the scheduled match.
GetLatestPartner(t) ==
  LET latest == FindLatestMatch(t)
      result == ResolveMatchingStatus(latest, t)
      scheduled == FindLatestScheduledMatch(t)
  IN IF \E r \in result, m \in latest : r.type = "waiting" /\ m.type = "rematching"
       THEN IF scheduled # {} THEN ResolveMatchingStatus(scheduled, t)
                              ELSE {NotFound(t)}
       ELSE result

-----------------------------------------------------------------------------
\* A row that is out of both queries' window and past its end is in no answer.
Tick ==
  /\ now < Horizon
  /\ now' = now + 1
  /\ matches' = {m \in matches : \/ now' - 48 * Hour <= m.createdAt
                                 \/ now' <= m.expiredAt}

Next == Batch \/ RestMembers \/ Rematch \/ AdminMatch \/ Tick

Spec == Init /\ [][Next]_vars

-----------------------------------------------------------------------------
(***************************************************************************)
(* Properties.                                                             *)
(***************************************************************************)
\* Every row has ends in the right order, no two rows share a createdAt, and
\* every question has one answer.
TypeOK ==
  /\ now \in 0..Horizon
  /\ matches \subseteq Rows
  /\ \A m, n \in matches : m.createdAt = n.createdAt => m = n
  /\ Cardinality(GetLatestPartner(now)) = 1

Shown == UNION {a.match : a \in GetLatestPartner(now)}

\* Nobody sees a match before its publication or after its end, through
\* whichever of the two queries it was found.
NoPeek ==
  \A m \in Shown : m.publishedAt <= now /\ now <= m.expiredAt

\* A scheduled match is shown from its release to the midnight that ends the
\* next day, to every user who got no match after it but by rematches bought
\* before 20:00 of the day of release: those end in time, and the answer falls
\* back to the scheduled match although the rematch's row is the newer one.
ReleasedIsShown ==
  \A m \in matches :
    /\ m.type = "scheduled"
    /\ m.publishedAt <= now /\ now <= StartOfDay(m.createdAt) + 2 * Day
    /\ \A n \in matches : n.createdAt > m.createdAt =>
         n.type = "rematching" /\ n.createdAt < m.publishedAt - Hour
    => Shown = {m}

\* A match that is shown goes when it ends, when the 48 hours since its
\* creation have passed, or when a newer one comes; nothing else takes it away.
ShownStays ==
  [][\A m \in Shown :
       \/ m \in Shown'
       \/ m.expiredAt < now' \/ m.createdAt < now' - 48 * Hour
       \/ matches' \ matches # {}]_vars

\* The answer not-found is never given to a user who has a scheduled match or a
\* rematch of the last 48 hours that is open or is to be published.
NotFoundMeansNone ==
  \A a \in GetLatestPartner(now) :
    a.type = "not-found" =>
      \A m \in Recent(now) : m.type # "admin" => CheckOver(m, now)
=============================================================================
