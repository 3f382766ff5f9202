--------------------------- MODULE MatchViewProofs ---------------------------
(***************************************************************************)
(* What the dates and the answers of MatchView promise for every instant,  *)
(* every horizon and every history of a user's matches.                    *)
(***************************************************************************)
EXTENDS MatchView, TLAPS, WellFoundedInduction, NaturalsInduction, FiniteSetTheorems

\* An instant by its week, the day in it and the tick in the day.
LEMMA Calendar ==
  ASSUME NEW t \in Nat
  PROVE  \E w \in Nat, d \in 0..6, x \in 0..47 :
           /\ t = 336 * w + 48 * d + x
           /\ StartOfWeek(t) = 336 * w /\ StartOfDay(t) = 336 * w + 48 * d
           /\ DayOfWeek(t) = d /\ HourOfDay(t) = x \div 2
<1> DEFINE w == t \div 336
           y == t % 336
           d == y \div 48
           x == y % 48
<1>1. /\ t = 336 * w + y /\ w \in Nat /\ y \in 0..335
  OBVIOUS
<1>2. y = 48 * d + x /\ d \in 0..6 /\ x \in 0..47
  BY <1>1
<1>3. t % 48 = x
  BY <1>1, <1>2
<1> HIDE DEF w, y, d, x
<1>4. /\ StartOfWeek(t) = 336 * w /\ StartOfDay(t) = 336 * w + 48 * d
  BY <1>1, <1>2, <1>3 DEF StartOfWeek, StartOfDay, Week, Day, Hour, y
<1>5. DayOfWeek(t) = d /\ HourOfDay(t) = x \div 2
  BY <1>3 DEF DayOfWeek, HourOfDay, Week, Day, Hour, y, d
<1>. QED  BY <1>1, <1>2, <1>4, <1>5

\* The end of a rematch made at tick x of day d of week w.
Expiry(w, d, x) ==
  LET adjusted(day) == 336 * w + 48 * day + 40
  IN IF (d = 1 /\ x >= 40) \/ d = 2 \/ (d = 3 /\ x < 40) THEN adjusted(Thursday)
     ELSE IF (d = 4 /\ x >= 40) \/ d = 5 \/ (d = 6 /\ x < 40) THEN adjusted(Sunday)
     ELSE 336 * w + 48 * d + x + 96

LEMMA ExpiryByDay ==
  ASSUME NEW t \in Nat
  PROVE  \E w \in Nat, d \in 0..6, x \in 0..47 :
           /\ t = 336 * w + 48 * d + x
           /\ CalculateRematchExpiredAt(t) = Expiry(w, d, x)
<1>1. PICK w \in Nat, d \in 0..6, x \in 0..47 :
           /\ t = 336 * w + 48 * d + x
           /\ StartOfWeek(t) = 336 * w /\ StartOfDay(t) = 336 * w + 48 * d
           /\ DayOfWeek(t) = d /\ HourOfDay(t) = x \div 2
  BY Calendar
<1>2. (x \div 2 >= 20 <=> x >= 40) /\ (x \div 2 < 20 <=> x < 40)
  OBVIOUS
<1>3. InPeriodOf(Thursday, t) <=> (d = 1 /\ x >= 40) \/ d = 2 \/ (d = 3 /\ x < 40)
  BY <1>1, <1>2 DEF InPeriodOf, Thursday
<1>4. InPeriodOf(Sunday, t) <=> (d = 4 /\ x >= 40) \/ d = 5 \/ (d = 6 /\ x < 40)
  BY <1>1, <1>2 DEF InPeriodOf, Sunday
<1>5. /\ EveOf(Thursday, t) = 336 * w + 48 * Thursday + 40
      /\ EveOf(Sunday, t) = 336 * w + 48 * Sunday + 40
  BY <1>1 DEF EveOf, Thursday, Sunday, Day, Hour
<1>6. CalculateRematchExpiredAt(t) = Expiry(w, d, x)
  BY <1>1, <1>3, <1>4, <1>5 DEF CalculateRematchExpiredAt, Expiry, Hour
<1>. QED  BY <1>1, <1>6

\* A rematch is good for some time, and for no more than 48 hours.
LEMMA RematchPeriod ==
  ASSUME NEW t \in Nat
  PROVE  /\ CalculateRematchExpiredAt(t) \in Nat
         /\ t < CalculateRematchExpiredAt(t)
         /\ CalculateRematchExpiredAt(t) <= t + 96
<1>1. PICK w \in Nat, d \in 0..6, x \in 0..47 :
           /\ t = 336 * w + 48 * d + x
           /\ CalculateRematchExpiredAt(t) = Expiry(w, d, x)
  BY ExpiryByDay
<1>. QED  BY <1>1 DEF Expiry, Thursday, Sunday

\* The instants matches are published at, Thursdays and Sundays at 21:00.
Releases == {336 * w + 48 * d + 42 : w \in Nat, d \in {Thursday, Sunday}}

\* A rematch bought more than an hour before a release is over an hour before
\* it: this is what calculateRematchExpiredAt is for.
THEOREM RematchYieldsToRelease ==
  ASSUME NEW t \in Nat, NEW r \in Releases, t < r - Hour
  PROVE  CalculateRematchExpiredAt(t) <= r - Hour
<1>1. PICK w \in Nat, d \in 0..6, x \in 0..47 :
           /\ t = 336 * w + 48 * d + x
           /\ CalculateRematchExpiredAt(t) = Expiry(w, d, x)
  BY ExpiryByDay
<1>2. PICK v \in Nat, e \in {3, 6} : r = 336 * v + 48 * e + 42
  BY DEF Releases, Thursday, Sunday
<1>3. w <= v
  BY <1>1, <1>2 DEF Hour
<1>4. CASE w = v
  BY <1>1, <1>2, <1>4 DEF Expiry, Thursday, Sunday, Hour
<1>5. CASE w < v
  BY <1>1, <1>2, <1>5 DEF Expiry, Thursday, Sunday, Hour
<1>. QED  BY <1>3, <1>4, <1>5

\* Of two rematches the later one does not end first.
LEMMA ExpiryMonotone ==
  ASSUME NEW s \in Nat, NEW t \in Nat, s <= t
  PROVE  CalculateRematchExpiredAt(s) <= CalculateRematchExpiredAt(t)
<1>1. PICK w \in Nat, d \in 0..6, x \in 0..47 :
           /\ s = 336 * w + 48 * d + x
           /\ CalculateRematchExpiredAt(s) = Expiry(w, d, x)
  BY ExpiryByDay
<1>2. PICK v \in Nat, e \in 0..6, y \in 0..47 :
           /\ t = 336 * v + 48 * e + y
           /\ CalculateRematchExpiredAt(t) = Expiry(v, e, y)
  BY ExpiryByDay
<1>3. w <= v
  BY <1>1, <1>2
<1>4. CASE w = v
  BY <1>1, <1>2, <1>4 DEF Expiry, Thursday, Sunday
<1>5. CASE w < v
  BY <1>1, <1>2, <1>5 DEF Expiry, Thursday, Sunday
<1>. QED  BY <1>3, <1>4, <1>5

-----------------------------------------------------------------------------
(***************************************************************************)
(* The rows.                                                               *)
(***************************************************************************)
\* What createMatch writes, seen at t or later.
RowOK(m, t) ==
  /\ m.createdAt <= t
  /\ m.type \in {"rematching", "admin"} => m.publishedAt = m.createdAt
  /\ m.type = "rematching" => m.expiredAt = CalculateRematchExpiredAt(m.createdAt)
  /\ m.type = "scheduled" =>
       /\ m.publishedAt = CreatePublishDate(m.createdAt)
       /\ m.expiredAt = m.publishedAt + 96
       /\ DayOfWeek(m.createdAt) \in {Thursday, Sunday}

Distinct(S) == \A m, n \in S : m.createdAt = n.createdAt => m = n

IInv ==
  /\ now \in 0..Horizon
  /\ matches \subseteq Rows
  /\ Distinct(matches)
  /\ \A m \in matches : RowOK(m, now)

LEMMA PublishDate ==
  ASSUME NEW t \in Nat
  PROVE  /\ CreatePublishDate(t) \in Nat /\ StartOfDay(t) \in Nat
         /\ CreatePublishDate(t) = StartOfDay(t) + 42
         /\ StartOfDay(t) <= t /\ t < StartOfDay(t) + 48
         /\ DayOfWeek(t) \in {Thursday, Sunday} => CreatePublishDate(t) \in Releases
<1>1. PICK w \in Nat, d \in 0..6, x \in 0..47 :
           /\ t = 336 * w + 48 * d + x
           /\ StartOfWeek(t) = 336 * w /\ StartOfDay(t) = 336 * w + 48 * d
           /\ DayOfWeek(t) = d /\ HourOfDay(t) = x \div 2
  BY Calendar
<1>2. CreatePublishDate(t) = 336 * w + 48 * d + 42
  BY <1>1 DEF CreatePublishDate, Hour
<1>3. d \in {Thursday, Sunday} => CreatePublishDate(t) \in Releases
  BY <1>2 DEF Releases
<1>. QED  BY <1>1, <1>2, <1>3

LEMMA CreateStep ==
  ASSUME IInv, NEW type \in Types, CreateMatch(type),
         type = "scheduled" => DayOfWeek(now) \in {Thursday, Sunday}
  PROVE  IInv'
<1> DEFINE m == NewMatch(type)
<1>1. now \in Nat
  BY HorizonAssumption DEF IInv
<1>2. m \in Rows /\ m.createdAt = now
  <2>1. PublishedAt(type) \in Nat
    BY <1>1, PublishDate DEF PublishedAt
  <2>2. ExpiredAt(type) \in Nat
    BY <2>1, RematchPeriod DEF ExpiredAt, Hour
  <2>. QED  BY <1>1, <2>1, <2>2 DEF NewMatch, Rows
<1>3. RowOK(m, now)
  BY <1>1 DEF RowOK, NewMatch, PublishedAt, ExpiredAt, Hour, Types
<1> HIDE DEF m
<1>4. /\ matches' = matches \cup {m} /\ now' = now
      /\ \A n \in matches : n.createdAt # now
  BY <1>1 DEF CreateMatch, m, IInv, Rows
<1>5. Distinct(matches')
  BY <1>2, <1>4 DEF IInv, Distinct
<1>. QED  BY <1>2, <1>3, <1>4, <1>5 DEF IInv

LEMMA TickStep == ASSUME IInv, Tick PROVE IInv'
<1>1. /\ now \in Nat /\ now' = now + 1 /\ now' \in 0..Horizon
      /\ matches' \subseteq matches
  BY HorizonAssumption DEF IInv, Tick
<1>2. ASSUME NEW m \in matches' PROVE RowOK(m, now')
  <2>1. RowOK(m, now) /\ m.createdAt \in Nat
    BY <1>1 DEF IInv, Rows
  <2>. QED  BY <1>1, <2>1 DEF RowOK
<1>. QED  BY <1>1, <1>2 DEF IInv, Distinct

\* The rows are what createMatch writes, whatever is asked for and when.
THEOREM Invariance == Spec => []IInv
<1>1. Init => IInv
  BY HorizonAssumption DEF Init, IInv, Distinct
<1>2. IInv /\ [Next]_vars => IInv'
  <2> SUFFICES ASSUME IInv, [Next]_vars PROVE IInv'
    OBVIOUS
  <2>1. CASE Batch \/ RestMembers
    BY <2>1, CreateStep DEF Batch, RestMembers, Types
  <2>2. CASE Rematch
    BY <2>2, CreateStep DEF Rematch, Types
  <2>3. CASE AdminMatch
    BY <2>3, CreateStep DEF AdminMatch, Types
  <2>4. CASE Tick
    BY <2>4, TickStep
  <2>5. CASE UNCHANGED vars
    BY <2>5 DEF vars, IInv, Distinct
  <2>. QED  BY <2>1, <2>2, <2>3, <2>4, <2>5 DEF Next
<1>. QED  BY <1>1, <1>2, PTL DEF Spec

-----------------------------------------------------------------------------
(***************************************************************************)
(* The queries and the answers.                                            *)
(***************************************************************************)
Less == {p \in Nat \X Nat : p[1] < p[2]}

LEMMA LessWellFounded == IsWellFoundedOn(Less, Nat)
  BY NatLessThanWellFounded DEF OpToRel, Less

LEMMA NewestExists ==
  ASSUME NEW t \in Nat, NEW S, S \subseteq Rows, S # {}, Distinct(S),
         \A m \in S : m.createdAt <= t
  PROVE  \E m \in S : Newest(S) = {m}
<1> DEFINE Ages == {t - m.createdAt : m \in S}
<1>1. Ages \subseteq Nat /\ Ages # {}
  BY DEF Rows
<1>2. PICK a \in Ages : \A b \in Ages : a <= b
  <2> HIDE DEF Ages
  <2>1. PICK a \in Ages : \A b \in Ages : ~ (<<b, a>> \in Less)
    BY <1>1, LessWellFounded, WFMin
  <2>2. ASSUME NEW b \in Ages PROVE a <= b
    <3>1. a \in Nat /\ b \in Nat /\ <<b, a>> \notin Less
      BY <1>1, <2>1
    <3>2. <<b, a>> \in Nat \X Nat => ~ (b < a)
      BY <3>1 DEF Less
    <3>. QED  BY <3>1, <3>2
  <2>. QED  BY <2>2
<1>4. PICK m \in S : a = t - m.createdAt
  OBVIOUS
<1>5. ASSUME NEW n \in S PROVE n.createdAt <= m.createdAt
  <2>1. t - n.createdAt \in Ages
    OBVIOUS
  <2>2. t - m.createdAt <= t - n.createdAt
    BY <1>2, <1>4, <2>1
  <2>. QED  BY <2>2 DEF Rows
<1>6. \A n \in Newest(S) : n = m
  <2> SUFFICES ASSUME NEW n \in Newest(S) PROVE n.createdAt = m.createdAt
    BY DEF Newest, Distinct
  <2>1. m.createdAt <= n.createdAt /\ n.createdAt <= m.createdAt
    BY <1>5 DEF Newest
  <2>. QED  BY <2>1 DEF Newest, Rows
<1>. QED  BY <1>5, <1>6 DEF Newest

LEMMA QueryResults ==
  ASSUME IInv
  PROVE  /\ now \in Nat
         /\ \/ FindLatestMatch(now) = {} /\ Recent(now) = {}
            \/ \E m \in Recent(now) :
                 /\ FindLatestMatch(now) = {m}
                 /\ \A n \in Recent(now) : n.createdAt <= m.createdAt
         /\ \/ /\ FindLatestScheduledMatch(now) = {}
               /\ \A n \in Recent(now) : n.type # "scheduled"
            \/ \E m \in Recent(now) :
                 /\ m.type = "scheduled" /\ FindLatestScheduledMatch(now) = {m}
                 /\ \A n \in Recent(now) :
                      n.type = "scheduled" => n.createdAt <= m.createdAt
<1> DEFINE R == Recent(now)
           S == {m \in R : m.type = "scheduled"}
<1>1. now \in Nat
  BY HorizonAssumption DEF IInv
<1>2. /\ R \subseteq Rows /\ Distinct(R) /\ \A m \in R : m.createdAt <= now
      /\ S \subseteq R /\ S \subseteq Rows /\ Distinct(S)
  BY DEF Recent, IInv, Distinct, RowOK
<1>3. R # {} => \E m \in R : Newest(R) = {m}
  <2> HIDE DEF R, S
  <2>. QED  BY <1>1, <1>2, NewestExists
<1>4. S # {} => \E m \in S : Newest(S) = {m}
  <2> HIDE DEF R, S
  <2>. QED  BY <1>1, <1>2, NewestExists
<1>5. \A m : Newest(R) = {m} => \A n \in R : n.createdAt <= m.createdAt
  BY DEF Newest
<1>6. \A m : Newest(S) = {m} => \A n \in S : n.createdAt <= m.createdAt
  BY DEF Newest
<1>7. R = {} => FindLatestMatch(now) = {}
  BY DEF FindLatestMatch, Newest
<1>8. S = {} => FindLatestScheduledMatch(now) = {}
  BY DEF FindLatestScheduledMatch, Newest
<1>. QED  BY <1>1, <1>3, <1>4, <1>5, <1>6, <1>7, <1>8
             DEF FindLatestMatch, FindLatestScheduledMatch

LEMMA Resolved ==
  ASSUME NEW t, NEW found
  PROVE  /\ found = {} => \E a \in {Waiting(t), NotFound(t)} :
                            ResolveMatchingStatus(found, t) = {a}
         /\ \A m : found = {m} => ResolveMatchingStatus(found, t) = {OfMatch(m, t)}
  BY DEF ResolveMatchingStatus

LEMMA MatchAnswers ==
  ASSUME NEW t \in Nat, NEW m \in Rows
  PROVE  /\ OfMatch(m, t).type # "not-found"
         /\ \A n \in OfMatch(m, t).match :
              /\ n = m /\ ~ CheckOver(m, t)
              /\ m.type = "scheduled" => m.publishedAt <= t
         /\ OfMatch(m, t).type = "waiting" /\ m.type = "rematching" => CheckOver(m, t)
         /\ CheckOver(m, t) => OfMatch(m, t) = Waiting(t)
         /\ ~ CheckOver(m, t) /\ m.publishedAt <= t => OfMatch(m, t).match = {m}
  BY DEF OfMatch, CheckRematchingEligibility, CheckOver, Waiting, Showing, Rows, Types

\* The answer a given when l is the latest of the recent rows.
AnswerFrom(a, l) ==
  /\ \A n \in Recent(now) : n.createdAt <= l.createdAt
  /\ IF l.type = "rematching" /\ CheckOver(l, now)
       THEN \/ /\ \A n \in Recent(now) : n.type # "scheduled"
               /\ a = NotFound(now)
            \/ \E n \in Recent(now) :
                 /\ n.type = "scheduled"
                 /\ \A k \in Recent(now) :
                      k.type = "scheduled" => k.createdAt <= n.createdAt
                 /\ a = OfMatch(n, now)
       ELSE a = OfMatch(l, now)

\* The one answer, by the query it comes from.
LEMMA TheAnswer ==
  ASSUME IInv
  PROVE  \E a : /\ GetLatestPartner(now) = {a}
                /\ \/ Recent(now) = {} /\ a \in {Waiting(now), NotFound(now)}
                   \/ \E m \in Recent(now) :
                        /\ FindLatestMatch(now) = {m}
                        /\ AnswerFrom(a, m)
<1>1. now \in Nat /\ Recent(now) \subseteq Rows
  BY QueryResults DEF Recent, IInv
<1>2. CASE FindLatestMatch(now) = {} /\ Recent(now) = {}
  <2>1. PICK a \in {Waiting(now), NotFound(now)} :
               ResolveMatchingStatus(FindLatestMatch(now), now) = {a}
    BY <1>2, Resolved
  <2>2. GetLatestPartner(now) = {a}
    BY <1>2, <2>1 DEF GetLatestPartner
  <2>. QED  BY <1>2, <2>2
<1>3. ASSUME NEW m \in Recent(now), FindLatestMatch(now) = {m},
             \A n \in Recent(now) : n.createdAt <= m.createdAt
      PROVE  \E a : GetLatestPartner(now) = {a} /\ AnswerFrom(a, m)
  <2> USE DEF AnswerFrom
  <2>1. ResolveMatchingStatus(FindLatestMatch(now), now) = {OfMatch(m, now)}
    BY <1>3, Resolved
  <2>2. CASE ~ (m.type = "rematching" /\ CheckOver(m, now))
    <3>1. ~ (OfMatch(m, now).type = "waiting" /\ m.type = "rematching")
      BY <1>1, <2>2, MatchAnswers
    <3>. QED  BY <1>3, <2>1, <2>2, <3>1 DEF GetLatestPartner
  <2>3. CASE m.type = "rematching" /\ CheckOver(m, now)
    <3>1. OfMatch(m, now).type = "waiting"
      BY <1>1, <2>3, MatchAnswers DEF Waiting
    <3>2. GetLatestPartner(now) =
            IF FindLatestScheduledMatch(now) # {}
              THEN ResolveMatchingStatus(FindLatestScheduledMatch(now), now)
              ELSE {NotFound(now)}
      BY <1>3, <2>1, <2>3, <3>1 DEF GetLatestPartner
    <3>3. \A n : FindLatestScheduledMatch(now) = {n} =>
                   GetLatestPartner(now) = {OfMatch(n, now)}
      BY <3>2, Resolved
    <3>. QED  BY <1>3, <2>3, <3>2, <3>3, QueryResults
  <2>. QED  BY <2>2, <2>3
<1>. QED  BY <1>2, <1>3, QueryResults

-----------------------------------------------------------------------------
(***************************************************************************)
(* The theorems.                                                           *)
(***************************************************************************)
\* The rows are well formed and every question has exactly one answer.
THEOREM TypeCorrect == Spec => []TypeOK
<1>1. IInv => TypeOK
  <2> SUFFICES ASSUME IInv PROVE Cardinality(GetLatestPartner(now)) = 1
    BY DEF IInv, TypeOK, Distinct
  <2>. QED  BY TheAnswer, FS_Singleton
<1>. QED  BY <1>1, Invariance, PTL

LEMMA ShownMatch ==
  ASSUME IInv, NEW m \in Shown
  PROVE  /\ m \in Recent(now) /\ ~ CheckOver(m, now)
         /\ m.type = "scheduled" => m.publishedAt <= now
<1>1. now \in Nat /\ Recent(now) \subseteq Rows
  BY QueryResults DEF Recent, IInv
<1>2. PICK a : GetLatestPartner(now) = {a} /\ m \in a.match
  BY TheAnswer DEF Shown
<1>3. a # Waiting(now) /\ a # NotFound(now)
  BY <1>2 DEF Waiting, NotFound
<1>4. PICK n \in Recent(now) : a = OfMatch(n, now)
  BY <1>2, <1>3, TheAnswer DEF AnswerFrom
<1>. QED  BY <1>1, <1>2, <1>4, MatchAnswers

\* No match is shown before its publication or after its end.
THEOREM NobodyPeeks == Spec => []NoPeek
<1>1. IInv => NoPeek
  <2> SUFFICES ASSUME IInv, NEW m \in Shown
               PROVE  m.publishedAt <= now /\ now <= m.expiredAt
    BY DEF NoPeek
  <2>1. m \in Rows /\ RowOK(m, now) /\ now \in Nat
    BY ShownMatch, QueryResults DEF Recent, IInv
  <2>. QED  BY <2>1, ShownMatch DEF RowOK, CheckOver, Rows, Types
<1>. QED  BY <1>1, Invariance, PTL

\* A scheduled match is shown from its release to the second midnight after its
\* day began, unless the user got another one but by a rematch before 20:00.
THEOREM ReleasesAreShown == Spec => []ReleasedIsShown
<1>1. IInv => ReleasedIsShown
  <2> SUFFICES ASSUME IInv, NEW m \in matches,
                      m.type = "scheduled",
                      m.publishedAt <= now, now <= StartOfDay(m.createdAt) + 2 * Day,
                      \A n \in matches : n.createdAt > m.createdAt =>
                        n.type = "rematching" /\ n.createdAt < m.publishedAt - Hour
               PROVE  Shown = {m}
    BY DEF ReleasedIsShown
  <2>1. /\ now \in Nat /\ Recent(now) \subseteq Rows /\ Recent(now) \subseteq matches
        /\ \A n \in matches : RowOK(n, now) /\ n \in Rows
    BY QueryResults DEF Recent, IInv
  <2>2. /\ m.createdAt \in Nat /\ m.publishedAt \in Releases /\ m.publishedAt \in Nat
        /\ m.publishedAt = StartOfDay(m.createdAt) + 42
        /\ m.expiredAt = m.publishedAt + 96
        /\ StartOfDay(m.createdAt) \in Nat /\ StartOfDay(m.createdAt) <= m.createdAt
    BY <2>1, PublishDate DEF RowOK, Rows
  <2>3. m \in Recent(now) /\ ~ CheckOver(m, now)
    BY <2>1, <2>2 DEF Recent, CheckOver, Day, Hour
  <2>4. OfMatch(m, now).match = {m}
    BY <2>1, <2>3, MatchAnswers
  <2>5. ASSUME NEW n \in Recent(now), n.createdAt > m.createdAt
        PROVE  n.type = "rematching" /\ CheckOver(n, now)
    <3>1. /\ n.type = "rematching" /\ n.createdAt < m.publishedAt - Hour
          /\ n.createdAt \in Nat
          /\ n.expiredAt = CalculateRematchExpiredAt(n.createdAt)
      BY <2>1, <2>5 DEF RowOK, Rows
    <3>2. n.expiredAt <= m.publishedAt - Hour /\ n.expiredAt \in Nat
      BY <2>2, <3>1, RematchYieldsToRelease, RematchPeriod
    <3>. QED  BY <2>1, <2>2, <3>1, <3>2 DEF CheckOver, Hour
  <2>6. \A n \in Recent(now) : n = m \/ n.createdAt < m.createdAt \/ n.createdAt > m.createdAt
    BY <2>1, <2>2 DEF IInv, Distinct, Rows
  <2>7. PICK a : GetLatestPartner(now) = {a} /\ a = OfMatch(m, now)
    <3>0. PICK a : /\ GetLatestPartner(now) = {a}
                   /\ \E l \in Recent(now) : AnswerFrom(a, l)
      BY <2>3, TheAnswer
    <3>1. PICK l \in Recent(now) : AnswerFrom(a, l)
      BY <3>0
    <3> USE DEF AnswerFrom
    <3>2. CASE l = m
      BY <2>3, <3>0, <3>1, <3>2
    <3>3. CASE l # m
      <4>1. l.createdAt > m.createdAt
        BY <2>1, <2>2, <2>3, <2>6, <3>1, <3>3 DEF Rows
      <4>2. PICK n \in Recent(now) :
              /\ n.type = "scheduled" /\ a = OfMatch(n, now)
              /\ \A k \in Recent(now) : k.type = "scheduled" => k.createdAt <= n.createdAt
        BY <2>3, <2>5, <3>1, <4>1
      <4>3. n = m
        <5>1. ~ (n.createdAt > m.createdAt)
          BY <2>5, <4>2
        <5>2. m.createdAt <= n.createdAt /\ n.createdAt \in Nat
          BY <2>1, <2>3, <4>2 DEF Rows
        <5>. QED  BY <2>2, <2>6, <5>1, <5>2
      <4>. QED  BY <3>0, <4>2, <4>3
    <3>. QED  BY <3>2, <3>3
  <2>. QED  BY <2>4, <2>7 DEF Shown
<1>. QED  BY <1>1, Invariance, PTL

\* Not-found is the truth: no scheduled match or rematch of the last 48 hours is
\* open or to come, because a later rematch never ends before an earlier one.
THEOREM NotFoundIsTrue == Spec => []NotFoundMeansNone
<1>1. IInv => NotFoundMeansNone
  <2> SUFFICES ASSUME IInv, NEW a \in GetLatestPartner(now), a.type = "not-found",
                      NEW m \in Recent(now), m.type # "admin"
               PROVE  CheckOver(m, now)
    BY DEF NotFoundMeansNone
  <2>1. /\ now \in Nat /\ Recent(now) \subseteq Rows
        /\ \A n \in Recent(now) : RowOK(n, now)
    BY QueryResults DEF Recent, IInv
  <2>2. \A n \in Recent(now) : a # OfMatch(n, now)
    BY <2>1, MatchAnswers
  <2>3. PICK l \in Recent(now) :
          /\ \A n \in Recent(now) : n.createdAt <= l.createdAt
          /\ l.type = "rematching" /\ CheckOver(l, now)
          /\ \A n \in Recent(now) : n.type # "scheduled"
    BY <2>2, TheAnswer DEF AnswerFrom
  <2>4. m.type = "rematching"
    BY <2>1, <2>3 DEF Rows, Types
  <2>5. /\ m.expiredAt = CalculateRematchExpiredAt(m.createdAt)
        /\ l.expiredAt = CalculateRematchExpiredAt(l.createdAt)
        /\ m.createdAt \in Nat /\ l.createdAt \in Nat /\ m.createdAt <= l.createdAt
        /\ m.expiredAt \in Nat /\ l.expiredAt \in Nat
    BY <2>1, <2>3, <2>4 DEF RowOK, Rows
  <2>6. m.expiredAt <= l.expiredAt
    BY <2>5, ExpiryMonotone
  <2>. QED  BY <2>1, <2>3, <2>5, <2>6 DEF CheckOver
<1>. QED  BY <1>1, Invariance, PTL

\* The answer that shows m, by the query m comes from.
LEMMA ShownBecause ==
  ASSUME IInv, NEW m \in Shown
  PROVE  /\ m \in Recent(now)
         /\ \/ \A n \in Recent(now) : n.createdAt <= m.createdAt
            \/ \E l \in Recent(now) :
                 /\ \A n \in Recent(now) : n.createdAt <= l.createdAt
                 /\ l.type = "rematching" /\ CheckOver(l, now)
                 /\ m.type = "scheduled"
                 /\ \A k \in Recent(now) :
                      k.type = "scheduled" => k.createdAt <= m.createdAt
<1>1. now \in Nat /\ Recent(now) \subseteq Rows
  BY QueryResults DEF Recent, IInv
<1>2. PICK a : GetLatestPartner(now) = {a} /\ m \in a.match
  BY TheAnswer DEF Shown
<1>3. a # Waiting(now) /\ a # NotFound(now)
  BY <1>2 DEF Waiting, NotFound
<1>4. \A n \in Recent(now) : a = OfMatch(n, now) => n = m
  BY <1>1, <1>2, MatchAnswers
<1>. QED  BY <1>2, <1>3, <1>4, TheAnswer DEF AnswerFrom

\* The reasons for which m is shown.
Showable(m) ==
  /\ m \in Recent(now) /\ ~ CheckOver(m, now) /\ m.publishedAt <= now
  /\ \/ \A n \in Recent(now) : n.createdAt <= m.createdAt
     \/ \E l \in Recent(now) :
          /\ \A n \in Recent(now) : n.createdAt <= l.createdAt
          /\ l.type = "rematching" /\ CheckOver(l, now)
          /\ m.type = "scheduled"
          /\ \A k \in Recent(now) :
               k.type = "scheduled" => k.createdAt <= m.createdAt

ShowableShown == \A m : Showable(m) => m \in Shown

LEMMA ShowsIt == IInv => ShowableShown
<1> SUFFICES ASSUME IInv, NEW m, Showable(m) PROVE m \in Shown
  BY DEF ShowableShown
<1>0. m \in Recent(now) /\ ~ CheckOver(m, now) /\ m.publishedAt <= now
  BY DEF Showable
<1>1. /\ now \in Nat /\ Recent(now) \subseteq Rows
      /\ \A n, k \in Recent(now) :
           n.createdAt <= k.createdAt /\ k.createdAt <= n.createdAt => n = k
  BY QueryResults DEF Recent, IInv, Distinct, Rows
<1>2. OfMatch(m, now).match = {m}
  BY <1>0, <1>1, MatchAnswers
<1>3. PICK a : /\ GetLatestPartner(now) = {a}
               /\ \E l \in Recent(now) : AnswerFrom(a, l)
  BY <1>0, TheAnswer
<1>4. PICK l \in Recent(now) : AnswerFrom(a, l)
  BY <1>3
<1> USE DEF AnswerFrom
<1>5. a = OfMatch(m, now)
  <2>1. CASE \A n \in Recent(now) : n.createdAt <= m.createdAt
    <3>1. l = m
      BY <1>0, <1>1, <1>4, <2>1
    <3>2. ~ (l.type = "rematching" /\ CheckOver(l, now))
      BY <1>0, <3>1
    <3>. QED  BY <1>4, <3>1, <3>2
  <2>2. CASE \E k \in Recent(now) :
              /\ \A n \in Recent(now) : n.createdAt <= k.createdAt
              /\ k.type = "rematching" /\ CheckOver(k, now)
              /\ m.type = "scheduled"
              /\ \A n \in Recent(now) :
                   n.type = "scheduled" => n.createdAt <= m.createdAt
    <3>1. l.type = "rematching" /\ CheckOver(l, now)
      BY <1>1, <1>4, <2>2
    <3>. QED  BY <1>0, <1>1, <1>4, <2>2, <3>1
  <2>. QED  BY <2>1, <2>2 DEF Showable
<1>. QED  BY <1>2, <1>3, <1>5 DEF Shown

\* A match that is shown stays until it ends, until 48 hours have passed since
\* its creation, or until a newer one comes.
THEOREM MatchesStay == Spec => ShownStays
<1>0. (IInv => ShowableShown)'
  BY ShowsIt, PTL
<1>1. IInv /\ IInv' /\ [Next]_vars =>
        [\A m \in Shown :
           \/ m \in Shown'
           \/ m.expiredAt < now' \/ m.createdAt < now' - 48 * Hour
           \/ matches' \ matches # {}]_vars
  <2> SUFFICES ASSUME IInv, IInv', Next, NEW m \in Shown,
                      ~ (m.expiredAt < now'), ~ (m.createdAt < now' - 48 * Hour),
                      matches' \ matches = {}
               PROVE  m \in Shown'
    OBVIOUS
  <2>1. Tick
    <3>1. ASSUME NEW type \in Types, CreateMatch(type) PROVE FALSE
      <4>1. NewMatch(type) \in matches'
        BY <3>1 DEF CreateMatch
      <4>2. NewMatch(type) \in matches /\ NewMatch(type).createdAt = now
        BY <4>1 DEF NewMatch
      <4>3. now < now /\ now \in Nat
        BY <3>1, <4>2, HorizonAssumption DEF CreateMatch, IInv
      <4>. QED  BY <4>3
    <3>. QED  BY <3>1 DEF Next, Batch, RestMembers, Rematch, AdminMatch, Types
  <2>2. /\ now \in Nat /\ now' = now + 1
        /\ \A n \in matches : n \in Rows
        /\ Recent(now') \subseteq Recent(now)
        /\ Recent(now)' = {n \in Recent(now) : now' - 96 <= n.createdAt}
    BY <2>1, HorizonAssumption DEF IInv, Tick, Recent, Rows, Hour
  <2>3. m \in Recent(now) /\ m \in Rows /\ RowOK(m, now) /\ m \in Recent(now)'
    BY <2>2, ShownBecause DEF Recent, IInv, Hour, Rows
  <2>4. ~ CheckOver(m, now') /\ m.publishedAt <= now'
    BY <2>2, <2>3, ShownMatch DEF CheckOver, RowOK, Rows, Types
  <2>5. \/ \A n \in Recent(now)' : n.createdAt <= m.createdAt
        \/ \E l \in Recent(now)' :
              /\ \A n \in Recent(now)' : n.createdAt <= l.createdAt
              /\ l.type = "rematching" /\ CheckOver(l, now')
              /\ m.type = "scheduled"
              /\ \A k \in Recent(now)' :
                   k.type = "scheduled" => k.createdAt <= m.createdAt
    <3>1. CASE \A n \in Recent(now) : n.createdAt <= m.createdAt
      BY <2>2, <3>1
    <3>2. ASSUME NEW l \in Recent(now),
                 \A n \in Recent(now) : n.createdAt <= l.createdAt,
                 l.type = "rematching", CheckOver(l, now), m.type = "scheduled",
                 \A k \in Recent(now) : k.type = "scheduled" => k.createdAt <= m.createdAt
          PROVE  l \in Recent(now)' /\ CheckOver(l, now')
      <4>1. l \in Rows /\ m.createdAt <= l.createdAt /\ now' - 96 <= m.createdAt
        BY <2>2, <2>3, <3>2 DEF Recent
      <4>. QED  BY <2>2, <2>3, <3>2, <4>1 DEF CheckOver, Rows
    <3>. QED  BY <2>2, <3>1, <3>2, ShownBecause
  <2>6. Showable(m)'
    BY <2>3, <2>4, <2>5 DEF Showable, CheckOver
  <2>. QED  BY <1>0, <2>6 DEF ShowableShown
<1>. QED  BY <1>1, Invariance, PTL DEF Spec, ShownStays
=============================================================================
