# Verification of solo-nestjs-api

The server of a campus dating service ("썸타임"): NestJS on Node, in front of
PostgreSQL (drizzle), Redis, Qdrant (vector search) and PortOne (payments), run
on ECS, where a rolling deployment has two processes alive at once. This
directory holds TLA+ modules of its components, the TLC configurations that
check them on small instances, and TLAPS proofs for every instance.

* Sources are named relative to `src/` of the repository's code.
* `X.tla` is a component, `MCX.tla` its instances for TLC, `X_<question>.cfg` a
  run, `XProofs.tla` the theorems. The theorems of `Sessions` and `Registration`
  (with `ProfileImages`) are in `AccountProofs.tla`, those of `CandidateSearch`
  (with `ProfileIndex`) and `Preferences` in `PartnerProofs.tla`, those of `Board`
  in `HotArticlesProofs.tla`.
* `PROJECT.json` maps every definition to the lines it stands for.

Run `tlc -config R.cfg MCX.tla` for a run, `tlapm XProofs.tla` for the proofs.

## 1. The system

### 1.1 Where the difficulty is

One Node process works on many requests at a time; a handler runs alone from one
`await` to the next, and everything in the database, in Redis or at PortOne may
change at every `await`. Two processes interleave in the same way. There is
hardly a transaction around a business operation, no row is locked, and nothing
is retried but what the outside retries: PortOne repeats webhooks, clients repeat
requests, cron jobs fire in every process. A rejected promise that nobody awaits
ends the process with every request in it.

So a module's actions are *the code between two awaits*, a request in progress is
a record of its handler's locals, and the properties speak about what several such
handlers leave behind together.

### 1.2 Inventory

| Component | State | Operations | Hard behaviour | What makes it correct |
|---|---|---|---|---|
| **Gem payments** `payment/services/gem-payment.service.ts`, `gem.repository.ts` | `user_gems`, `gem_transactions`, `gem_payments`, PortOne's status | webhook, confirm, charge, consume | repeated and late webhooks, unlocked read-compute-write, UPDATE without WHERE, creation of the row outside the transaction | only paid orders are charged, to users who recorded them, balances are explained by the ledger |
| **Ticket payments** `pay.service.ts`, `ticket.service.ts` | `pay_histories`, `tickets` | history, webhook, confirm, issue | several histories of one order, repeated webhooks, failure between completion and issue | tickets only for paid orders and users who recorded them, once a delivery |
| **Matchmaking** `matching/services/creation.service.ts` | lock and counters in the cache, history in Redis, `matches`, `matching_failure_logs`, `tickets.status` | batch, rest members, single match, rematch | a lock read and then set, no transaction over five writes, crash with the lock held, overlapping requests of one user | no half matches, no partner twice, no ticket lost, one batch at a time but for the gaps of the lock, every member gets a turn |
| **Match view** `matching.service.ts`, `match-result-router.ts`, `date.ts` | `matches` and the clock | latest partner, next date | rows exist before they may be seen, a rematch is newer than the row it hides, periods cut at hours and weekdays | no early look, every release is seen |
| **Candidate search** `embedding/services/profile-similar-finder.service.ts`, `matching/domain/filter` | none (Qdrant is read) | search with relaxing filters | which filters are dropped at which step, options the tables do not know | excluded users and the own gender stay out at every step |
| **Profile embeddings** `embedding/profile-embedding.service.ts` | Qdrant points | update event, deletion, console | event order, an event that overtakes a withdrawal | the index holds the newest profile of active users |
| **Sessions** `auth/services/auth.service.ts` | `users.refresh_token` | login, refresh, logout, withdrawal | concurrent refreshes, lost answers, two devices | a token handed out is the stored one, a logout is final |
| **Signup** `auth/services/signup.service.ts`, `university.service.ts` | users, profiles, universities, images | sign up, register a university | several commits, parallel uploads | an answered signup is complete, one university a user |
| **Profile images** `user/services/image.service.ts` | `profile_images` | save, delete, set main | counts read before inserts, deleted rows that are named | at most three, exactly one main |
| **Preferences** `user/repository/profile.repository.ts` | `user_preference_options`, `additional_preferences` | PATCH self, PATCH partner | delete and insert, twice at once; promises that go on after a rollback | the last request is what is stored |
| **Account** `user/services/user.service.ts` | `users.deleted_at`, `withdrawal_reasons` | withdraw, notifications, statistics | commit, then a remote deletion | no withdrawn candidates |
| **Articles, comments, likes** `article/` | articles, comments, likes | write, like | read, then write, without transactions | no instant repeats, one like a user |
| **View counts** `article/services/article-view.service.ts`, `domain/view-count-sync` | counters and marks in Redis, `read_count` | view, sync every 10 minutes | counting while the counter is moved, a pattern that matches the marks | each view is counted once |
| **Hot articles** `hot-article.service.ts` | `hot_articles` | hourly job | two processes, under an advisory lock; deletions meanwhile | one row an article, no deleted one, every popular one |
| **Reports**, **anonymous names and generated content** | `reports` | insert | none | none to speak of |
| **Administration** `admin/` | through the services above | batch, rest, single match, ranks, points | as above | as above |
| **Alert mails**, **Slack** | a flag in the cache | cron, messages | flag read and set; unawaited messages that reject | covered with the batch |
| **Response cache** `app-cache.interceptors.ts` | cache by URL and user | read, store | a deletion of a key nobody writes | no stale answers |
| **Schema, seeds, console, plumbing, version** | | | run by hand, or stateless | |

How they interact: payments issue `tickets`, which a rematch of matchmaking uses
up; matchmaking asks candidate search for partners and writes the `matches` that
match view reads; profiles emit the event on which embeddings rebuild the point
candidate search finds; withdrawal deletes that point; signup creates what images
and profiles update; hot articles read the counts view counts writes and the
likes and comments of the board, whose deletions take the hot row away.

### 1.3 The modules, and how they are composed

| Module | EXTENDS | Components |
|---|---|---|
| `PaidFulfilment` | | the promise of both payment flows |
| `GemCharge` | | gem payments; implements `PaidFulfilment` |
| `TicketPurchase` | | ticket payments; implements `PaidFulfilment` |
| `Matchmaking` | | batch, rest members, single match, rematch and its ticket |
| `MatchView` | | what is shown of the matches |
| `ProfileIndex` | | profiles, withdrawal, embeddings, points |
| `CandidateSearch` | `ProfileIndex` | searches while the index changes |
| `Accounts` | | users, and the null value, of the next three |
| `Sessions` | `Accounts` | login, refresh, logout, withdrawal |
| `ProfileImages` | `Accounts` | the transactions on images |
| `Registration` | `ProfileImages` | signup, its parallel uploads, universities |
| `Preferences` | | the two PATCHes |
| `Board` | | articles, comments, likes |
| `HotArticles` | `Board` | the hourly job beside the board |
| `ViewCounts` | | requests and the job of the counters |

## 2. Modules

### 2.1 PaidFulfilment: what both payment flows promise

Two variables, `paidOrders` and `fulfilments`, and two actions. An order is
fulfilled only after the money for it was taken, each fulfilment has a receipt of
its own, and a receipt is never taken back. That an order is fulfilled *once* is
not promised: the code does not do it (section 5).

### 2.2 GemCharge: gem payments

| State | Code |
|---|---|
| `payment`, `everPaid`, `sent` | PortOne: statuses, webhooks it may deliver at any time and repeatedly |
| `payHistories` | `pay_histories`: pairs of an order and a user, of any order and any user |
| `rows`, `gemBalance`, `totalCharged`, `totalConsumed` | `user_gems` |
| `gemTransactions`, `gemPayments` | the two ledgers, in commit order |
| `job[h]` | the locals of a handler: step, order, user, amount, the row it has read |

`CreateHistory` is POST /payments/history, which inserts whatever order id its caller
sends: nobody checks whose order it is, and no key makes it unique. The lookup has no
order, so `FindHistory` and `ConfirmPayment` go on with any row of the order.
`ReceiveWebhook`, `GetPayment`, `FindHistory` are `handleWebHook`; `CheckRow`,
`InsertRow`, `SelectGems`, `WriteGems` are `safeCreateUserGems` and the
transaction; `ReceiveConfirm`, `ConfirmPayment`, `ConfirmInsert` the confirmation;
`StartConsume` is a feature that spends gems. `CallFails` lets any awaited call
fail; the webhook is not awaited by its controller, so its failure is `Reject`:
every job of the process ends. PostgreSQL is at READ COMMITTED: the SELECT locks
nothing, and the UPDATE (which has no WHERE) writes the values computed from it
to all rows. UPDATE, INSERT and COMMIT are one action, as nothing shows before
the commit.

### 2.3 TicketPurchase: ticket payments

The same environment, and histories that also have a name: the one PortOne has for the
order, or another (`named`), with which the webhook gives up. `ReceiveWebhook`,
`FindHistory`, `GetPayment`, `UpdateHistory`, `CreateTickets` are
`handlePaymentWebhook`, `ConfirmFind` and `ConfirmGet` the confirmation. What differs
from gems: the status of the payment is never read, completing the histories (all rows
of the order) and issuing tickets to the user of the one row found are two statements,
and a failure is caught and answered with 200, so that PortOne does not repeat.

### 2.4 Matchmaking

`StartBatch` to `ListUsers` are the lock protocol of `processMatchCentral`
(`batchStatus`, lock read, lock set, list of users), `NextUser` and `FinishList`
its loop, `ListRest` `matchRestMembers`, `StartSingle` the administrator's match,
`StartRematch`, `GetTicket`, `UseTicket`, `LogRematch` the rematch. All meet in
`createPartner`: `GetMatched` (history), `Choose`, `SetCount` (counter read and
written), `Remember` (history), `CreateReverse` (partner's row), `CreateForward`
(requester's row). `CallFails` is a failing call at any of them, with the catch
the code has there; `Crash` ends a process (an unawaited Slack message that
rejects, or a deployment); `LockExpires` and `CountExpires` are the TTLs.
The history variable `apart` becomes false when a batch finds the lock free while another
has found it free and not yet set it, or when the lock expires under a batch.

Whom the vector search can return is the constant `Eligible`: the choice among
candidates is nondeterministic, which covers every weighting and random draw.
That a search keeps to the excluded users is what `CandidateSearch` shows.

### 2.5 MatchView

One user, because no answer depends on another's rows. Time is in half hours from
a Monday 00:00 in Seoul: an even tick is a full hour, an odd one any instant
between two, and the code compares only at full hours. The creating actions
(`Batch`, `RestMembers`, `Rematch`, `AdminMatch`) write rows with their
`publishedAt` and `expiredAt`; `GetLatestPartner` is the answer, a pure operator
of the rows and the clock, made of the two queries and `MatchResultRouter`. The
functions of `date.ts` are arithmetic on ticks. `Tick` also forgets rows no answer
can depend on any more.

### 2.6 ViewCounts

`redis` is one function over all keys with the prefix: the counter of an article
and the marks of who has seen it have one type of key, because the pattern of the
job finds both. A client's request is `HasViewed`, `SetUserView`, `Incr`; a run of
the job is `GetViewCountKeys` and then, for each key by itself, `Get`,
`UpdateArticleViewCount`, `DeleteRedisKey`, with `KeyFails` for one key and
`RunFails` for all. Runs may meet: the cron of ten minutes looks at nothing.

### 2.7 Sessions

`refreshToken` and `deletedAt` are columns of `users`, `session` what a client has
stored. A request goes through `CanActivate`, `FindRefreshToken`, `FindUser` and
one of `SaveRefreshToken`, `UpdateRefreshToken`, `RemoveRefreshToken`,
`DeleteUser`; a conditional UPDATE that matches no row is `WriteNothing`, since
nobody looks at its result. `Answer` is separate: it may be lost (`Fail`). Tokens
are a user and a second, so two signed in one second are equal.

### 2.8 ProfileImages and Registration

A job is one transaction with the locks it holds and the rows it waits for;
`Update` takes the rows that are committed when it starts, and `Unblock` is the
wake-up of PostgreSQL: the rows are looked at again. `Registration` adds the
commits of a signup (`CreateUser`, university, `UpdateUniversityId`), sends all
files off at once (`Uploaded` starts a job of `ProfileImages`) and answers when all
are through; `Reject` is `Promise.all`: the first rejection answers, the others go
on. `RegisterUniversity` is the later registration.

### 2.9 Preferences

One user, two targets (SELF, PARTNER) in one table, and the row of
`additional_preferences`. `Delete` takes the rows committed when it starts, waits
for those another transaction is deleting and passes over what that one inserts.
`UnknownType` is the case of `Promise.all` in which the types after the unknown
one are already being looked up: their INSERTs reach the connection after the
ROLLBACK, and `InsertLate` lets each take effect or not.

### 2.10 ProfileIndex and CandidateSearch

A change of the MBTI type or of preferences, the administrator, and the console command
start jobs that read the profile (`ReadDetails`, `ReadPreferences`) and store what they
read much later (`UpsertPoint`); a withdrawal, which may be repeated, commits, then
removes the point. A search reads the seeker's point, builds its filter
(`FindCandidates`), asks the index (`SearchPoints`) and relaxes the filter while it
finds nobody (`GetNextFilterStrategy`), with `IndexStep` between any two of them.
`Unwanted`, what `compability.ts` puts off for each wish, may contain `Null`: the option
is not listed there, and the filter built of it is `Rejected` by Qdrant at the first
step.

### 2.11 Board and HotArticles

A request of the board is its kind, its user and the statement it stands at;
every statement is by itself. `FindLike` reads one of the user's rows, `InsertLike`
inserts, `ToggleLike` updates all of them. The windows of ten and five seconds lose
what was created first. `HotArticles` runs the job beside it: `Lock` (the advisory
lock of the transaction), `SelectRecent`, `CountLikes` and `CountComments` article
by article, `FindHot`, `Commit`; `RunFails` rolls back.

## 3. What the runs check

Every property has a mutant of the code, in the same module right before the
definition it stands in for, that breaks it.

### 3.1 The runs, their properties and their bounds

* **GemCharge**: charges are of paid orders, to users who recorded them, and of the
  product's number of gems (`ChargesArePaid`); every balance, and every balance a
  transaction began with, was left by a recorded transaction (`LedgerExplainsBalance`);
  nobody confirms an order never paid, or with another's history (`PaymentsAreRecorded`);
  after a cancellation, with no handler past its check, no webhook charges
  (`CancelledStaysUncharged`); the flow implements `PaidFulfilment` (`FulfilsOnlyPaid`);
  a webhook taken up ends in a charge while no call fails (`WebhookLeadsToCharge`),
  unless two first-time webhooks of a user, or one and a consumption, meet at the
  insertion of the row of gems. Two users, two orders, three histories, two handlers,
  two requests, a consumption, one failed call: three histories are one order recorded
  by both and the other by one, and two handlers with two requests are every interleaving
  of two transactions, of one order (a repeated webhook), of two, and of a webhook and
  whatever is to disturb it. Both handlers are in one process, so that a rejected
  webhook takes the other with it. For the safety properties the theorems remove these
  bounds.
* **TicketPurchase**: `TicketsArePaid` (whoever gets tickets has a completed history of
  her own of an order that was paid), `OneIssuePerDelivery` (never more issues than
  deliveries), `FulfilsOnlyPaid`, and `WebhookLeadsToTickets` unless a call fails or
  the order was recorded under another name, too. Two users, an order of tickets and
  one of another product, two histories of any of them, three requests, one failed call.
* **Matchmaking**: `ForwardAfterReverse` (a scheduled match one sees is seen by the
  partner), `FreshPartner`, `TicketsBuyMatches`, `BatchesApart` (one batch works at most,
  and holds the lock, unless one read the lock in the gap or it expired under a batch)
  and `EveryMemberGetsTurn`. A woman for whom the search finds a man, who finds nobody
  himself, so that a batch goes on after a user without a candidate; any two requests, two
  batches included, in two processes, one failed call, one crash and a lock that may
  expire at any time. A third batch that starts when one of two deletes the lock is
  behind the gap, which `BatchesApart` exempts.
* **MatchView**: `NoPeek`, `ReleasedIsShown`, `ShownStays`. Nine days, past the
  last effect of a week's second release; matches are asked for around noon and
  before, at and after 20:00 and 21:00, the hours the code cuts at; three rows at
  once are a scheduled match, a rematch that hides it and one more.
* **ViewCounts**: no view is lost but those counted while a run held an older
  count (`LostOnlyWhileHeld`); without a failure and a meeting of runs none is
  counted twice (`NeverMoreThanViews`); a user with one client counts again only
  after its mark was removed, by time or by the job (`OncePerMark`); every counter
  is worked in (`WorkedIn`). One article, a user and a visitor, two runs, two
  views, one failure, one expiry: two runs and one view between their calls are
  all the code can confuse.
* **Sessions**: `AnswerIsStored` (a refresh answers with the token of the row
  unless another request wrote the row in between), `ClientInStep` (a client alone
  with its account that gets its answers always has the stored token),
  `LoggedOutStays` (no refresh on its way brings a session back). Two clients of
  one user, two requests at a time, three seconds with an access token of one and
  a refresh token of two: within them tokens expire, and two are signed in one
  second.
* **Registration**: an answered signup is complete (`SignupComplete`), one
  university unless registrations overlapped or failed (`OneUniversity`), at most
  the limit unless uploads overlapped (`AtMostLimit`), at most one main image
  (`OneMain`), never none (`MainKept`). One user who signs up now or did before,
  three rows of images, two transactions. The limit is 2 here and 3 in the code:
  with two transactions at a time, one more image than the limit is what
  overlapping uploads reach, and 2 leaves room for a deleted image, a main one
  and one that is to become it.
* **Preferences**: `LastRequestKept`, `OneAdditional`. Three requests, of one
  target or of both, two common types and one of the partner only, a hidden, a
  deprecated and an unknown one.
* **CandidateSearch**: `IndexFollows` (the point follows the profile for users
  whose jobs came one after the other), `SearchSound` (however far relaxed, nobody
  excluded, of the own gender or withdrawn in good order), `SearchExact` (what a search
  in an index that does not change finds, and when it fails). Two women, a man whose
  searches are followed, two ranks, two types, two requests, a failure. Starting a
  search counts as a request. Of the two wishes one asks for an age and puts off those of
  the other, which `compability.ts` does not list.
* **Board**: `LikersCountOnce`, `NoInstantRepeat`. An author and an administrator,
  three articles, two comments, two texts, four requests, two at a time, a failure: a repeat
  across an edit or a deletion of what was posted between takes three. The texts, and
  the requests at work, are interchangeable (SYMMETRY).
* **HotArticles**: `HotOnce`, `DeletedNotHot`, `PopularTurnsHot`. One article, a
  comment, likes of two users and views in one step of 15 reach a threshold of 25
  (110 in the code) in several ways, exactly and above; two runs, one failure.

All but MatchView may stop only because their bounds are used up, and MatchView at
its horizon; deadlock is therefore not checked in any run. A handler that could not go on
would violate the liveness properties.

### 3.2 A property that does not hold

**GemCharge_nowhere** checks one sentence of the repository, that a balance changes
with its record (`docs/gem_prd.md:130`), and TLC finds the charge whose UPDATE, having
no WHERE, writes the balance of another user.

### 3.3 Fairness

`WF_vars(Continue(h))` for each handler of the payments and of matchmaking, and the same
for the runs of ViewCounts and HotArticles: a call that is answered resumes its handler,
because Node's event loop is a queue and the connection pool hands out connections in
order; the two jobs are started again by their cron. A run of HotArticles that waits for
the advisory lock is served when the lock is free for good, since weak fairness asks no
more, and PostgreSQL queues the waiting. Requests, PortOne's moves, failures, crashes
and the clock have no fairness; nothing has to arrive; the expiry of keys has none
either, so no lock is freed by waiting. Where the code promises nothing after a failure,
the property names it as an alternative (`failures > 0`, `crashes > 0`); where a race
costs the process, the race (`FirstRowRace`).

## 4. What is proved

All theorems are about the specification with arbitrary constants, under the
modules' named assumptions (amounts are naturals, nobody is a
candidate for oneself, the null values are not members). The bounds are constants
too, so a theorem holds for every number of requests, failures, crashes and ticks.

**GemCharge, TicketPurchase, Matchmaking** have an inductive invariant `IInv` of the
same form: the types, the properties of the tables, and `JobOK` for each handler:
*what the handler has established by the await it stands at, and what must still be
true of it however much the others did since*. That part is what makes the
properties inductive. It holds across other handlers' steps because all it speaks
about only grows (`everPaid`, `payHistories`, `rows`, the ledgers, `remembered`,
`matches`): the lemmas `JobOKMonotone` say so once, `OneJobMoves` (or `JobsMove`)
reduces a step to the one job that moves, and each action then has a lemma.
What needed strengthening:

* `LedgerExplainsBalance` needs that the row a handler *has read* is explained by
  the ledger too, and stays so while others write.
* `TotalsAgree` (balance = charged - consumed under every lost update) needs that
  balance and total of the read row agree, as the write is computed from both and
  goes to all rows, and that `total_consumed` stays zero (`ColumnsInv`).
* `FreshPartner` needs how many rows there were when the history was read
  (`seen`), and that the partner of each of the requester's rows up to there is
  in what was read (`except`), which follows from `MatchesRemembered` at the
  moment of reading.
* `ForwardAfterReverse` needs that a handler at `createForward` of a scheduled
  match has its partner's row in the table.
* `TicketsBuyMatches` needs that the row a handler at `useTicket` has made
  (`row`) is its requester's rematch, that the ticket it holds is hers, that no
  ticket was used for that row, and that no two handlers have made the same row
  (`RowsInv`).
* `OnlyPaidIsCharged`, `OnlyRecordersConfirm` and `OnlyPaidGetTickets` hold whoever records
  which orders, and however often: what they need is that the user a handler has
  learnt of was in a row of its order, and that rows stay.
* `LockExcludes` (`BatchesApart`) has an invariant of its own, `LockInv`: while the
  batches are apart a batch at work is alone and holds the lock, and if one is about
  to set it there is neither a second one nor a batch at work.
* `CountNotOver` needs that the count a handler has read is below the number of
  times its partner was chosen.

`CancelledStaysUncharged` and `BalanceChangesAreRecorded` are action properties
from the invariant; `Fulfilment`, in both payment modules, is step simulation of
`PaidFulfilment` under `Receipts`, which numbers receipts by their place in the
ledger.

**MatchView** reasons about the calendar. `Calendar` gives hour and day bounds of
a tick, `ExpiryByDay` and `RematchPeriod` bound the end of a rematch,
`ExpiryMonotone` says a later rematch does not end earlier, and
`RematchYieldsToRelease` that a rematch bought over an hour before a release is
over an hour before it. The invariant `IInv` says that each row has the dates its
type and its time of creation determine (`RowOK`). `NewestExists`, `QueryResults`
and `TheAnswer` reduce the answer to a single row; the four properties follow by
cases of which row.

**ViewCounts**: for `LostOnlyWhileHeld`, `Covered` says the same of each article by
itself; `NeverMoreThanViews` needs the exact sum while nothing failed and no runs
met (`Untouched`: at most one run is going, and what it has read is what the counter
has had); `OncePerMark` the account of a user's views by her marks, the request she
waits for included.

**TicketPurchase** adds `CountInv` for `OneIssuePerDelivery`: the webhooks of an order
under way and its insertions are finite sets, and together no more than the
deliveries. Each action changes at most one of the two, by one element, and
`CreateTickets` takes from the one what it adds to the other.

**Sessions** (`AccountProofs`): `StepKinds` sorts every step by what it does to the row.
A refresh past `FindRefreshToken` is `clear` while nobody writes the row, so its
conditional UPDATE matches (`AnswersAreStored`); `PlainClientsInStep` follows the one
request of a client from its token to its answer. `WithdrawnRowsAreFrozen` and
`LogoutsStay` are action properties: every UPDATE of a late request has a condition
that a logout or a withdrawal has made false.

**ProfileImages, Registration** (`AccountProofs`): `RegInv` is `ImageInv` (the rows and
the jobs) and `SignupInv` (the signups and their universities). TLC finds each part
true in the run Registration. The parts, and what each is needed for:

* `ImageShape`: a job locks, or waits for, rows of its own user only, and what it has
  read and marked fits the statement its kind has brought it to.
* `SavedApart`: the saves of a user in `apart` come one after the other, and the count
  the one under way has read is not below the images there are. As it inserts only
  below the limit, `AtMostLimit` follows.
* `AloneInCalm` and `MainInOrder`: a deletion of a `calm` user is alone with its profile
  and a choice of the main image is alone with others of the kind. What the job has
  found is then still true: the main rows are among those it has marked or waits
  for, and the successor it has found still lives. `OneMain` is the half of it about
  the rows, `MainKept` the step from one commit to the next.
* `Newcomers`: all jobs of a user who signs up are saves, her images and uploads
  together are at most the limit, and while a main one is on its way there is none.
* `Signups`: she has one request; when it has created the user nothing was sent, when
  it answers every file has its row (`FilesOf`) and the university of the profile is
  the one she has (`DetailOf`). This is `SignupComplete`.
* `Owners` and `Steady`: rows of universities belong to users who exist; a
  registration that neither overlapped nor failed has removed the one before
  it inserts the other, and leaves one, which is `OneUniversity`.

**CandidateSearch** (`PartnerProofs`): `Inv` is `IndexInv` and `SearchInv`. `IndexInv`
has `Orderly`: the jobs of an orderly user come one after the other, nothing embeds
her once she has withdrawn, and the type a job has read is still hers. So the job that
ends leaves the point `IndexFollows` speaks of. In `SearchInv`, `FilterKept` says
that at every step of relaxation the filter hides the seeker and whom she has
met and asks for the other gender; with `GenderShown` (a point has its user's
gender) and `GoneStays` (who has withdrawn in good order has no job that could bring
the point back) each answer keeps to `SearchSound`. `StepsExact` is what a search in an
index without changes has learnt from the steps before the one it is at: after the step
that drops the ages nobody she wants is there, after the last one nobody of the
pool. `SearchExact` is its last line.

**Preferences** (`PartnerProofs`): `Alone` says that the requests for a target nobody has
disturbed (`tidy`) come one at a time and their DELETE has marked all there is,
`Origins` that rows come from ended requests, `Locks` that what is marked is of the own
target; `Stored` then gives the rows of the last committed request exactly.
`OneAdditional` rests on `UniqueKey`: a request about to leave a row has marked every
row there is, and no other is about to leave one.

**Board** (`HotArticlesProofs`): `LikeInv`: a user without overlapping requests has one
request that likes, and if that is about to insert, there is still no row. `RepeatInv`
for the action property `NoInstantRepeat`, where the comparison with the newest of
what a user has written is one statement and the insertion another. The newest is the
one with the greatest number, so the invariant has that rows are numbered as they
are created (`Numbered`) and that the windows consist of such rows (`Windows`); in a
window that loses its oldest row the newest stays the newest or the user has none
left (`LapseMax`), and a row that is edited, deleted or inserted by a request that is
not about a user's rows changes nothing for her (`DiffersSame`). That the requests
about a `calm` user's rows come one after the other is `AloneInvolved`; it counts an
administrator's edit and deletion of her rows, which is why it speaks of the users a
request concerns and not of who sent it. `Compared` says then that what was compared
still differs when it is inserted.

**HotArticles**: `HotInv`: one run at most is past the lock, what it is about to insert
is not hot, and what it has selected and was deleted since is excused. `BoardEffect`
sums up what a request of the board does to an article, so that the job's proof does
not go through its statements again.

The named assumptions beyond those above: images and the jobs on them are finite
sets (rows of a table, connections of a pool), because counts of rows are compared
with the limit; there are two genders (`types/enum.ts:94`), since the search takes the one
that is not the seeker's.

Every invariant and every safety property of the passing runs is stated by a theorem.
Only model-checked is the liveness (`WebhookLeadsToCharge`,
`WebhookLeadsToTickets`, `EveryMemberGetsTurn`, `WorkedIn`, `PopularTurnsHot`): the prover has no fairness and no ENABLED. The type invariant of
Board (`BoardTypeOK`) is defined for the reader; the parts of it that the proofs need
are `JobTyped`, `LikesTyped` and `RowsTyped`.

## 5. Deviations seen while modelling, without a run of their own

The model has them as the code has them.

Payments
* Any user may record any order id, also one somebody else has recorded
  (`payment/repository/pay.repository.ts:22`; no key in `pay_histories.ts:18`), and the lookup
  takes any row (`:35`). Which of the users who recorded a paid order is charged its
  gems, is issued its tickets or can confirm it is therefore open, and the properties only
  promise that it is one of them.
* Two first-time webhooks of a user both insert the row of gems; the second fails on the
  key, and as nobody awaits it the process ends (`gem.controller.ts:86`). A webhook under
  way in that process is charged only if PortOne repeats it.
* Every Paid webhook charges again, although one request is not to be processed
  twice (`docs/gem_prd.md:141`): no processed order is recorded.
* Two transactions on one user's gems overwrite each other (no FOR UPDATE;
  `docs/gem_prd.md:131` asks for concurrency control): `gem.repository.ts:91`.
* Consume computes amount - balance, not balance - amount: `gem.repository.ts:86`
  against `docs/gem_prd.md:234-236`. It writes the result to `total_charged` too, and
  nothing ever writes `total_consumed`.
* A second confirmation of one order inserts a second `gem_payments` row:
  `gem-payment.service.ts:115`.
* The confirmation of gems reads `productName` of a customData that is a string.
* A webhook and the first consumption of a new user can both try to insert the
  row of gems; if the consumption wins the charge is lost.
* The confirmation of tickets takes `.response` of a payment that has none, so it
  never completes a history: `pay.service.ts:64`.
* A late webhook of a cancelled payment still issues tickets: `pay.service.ts:134`.

Matches
* The lock of the batch is read, then set: two batches may run
  (`creation.service.ts:60` against the log line at 63).
* Two overlapping rematches share one ticket (`creation.service.ts:113`;
  `matching.controller.ts:88` says a rematch uses one).
* The history is the requester's only: the partner may get the requester again
  (`creation.service.ts:204` against `.cursor/rules/matching-refactor.mdc:30`).
* `matchRestMembers` works through a list read at its start, and matches users who
  have got a match since: `creation.service.ts:468`.
* `.cursor/rules/matching.mdc:31` allows six rematches a week; nothing counts them.
* `.cursor/rules/matching.mdc:25` says a match is visible for 48 hours, lines
  136-137 until Saturday or Tuesday 0:00; the code is with the latter, as
  rows leave the query's window 48 hours after the batch.
* A rematch bought on Wednesday is hidden from Thursday 0:00 on by the unpublished
  scheduled row.
* A rematch made on a Thursday or Sunday between 20:00 and 21:00, or an
  administrator's match, hides that day's scheduled match for good.
* At exactly 21:00:00 of a Thursday who has no match is told not-found, a moment
  later to wait: `match-result-router.ts:147`.
* After Sunday 21:00 the next matching date is the past one (`date.ts:148` against
  `matching.controller.ts:131`).
* `match_count` is given a TTL of a month in seconds where milliseconds are taken.
* The text of `notification.service.ts` says there is no matching without an ideal
  type; `findAllMatchingUsers` is content with rows of the target SELF
  (`match.repository.ts:126`).
* A filter of ages compares strings with numbers and nobody passes it: the search
  goes on without it.
* The console command embeds profiles without their rank, and withdrawn users.
* The options of smoking and tattoos in the database, and all of drinking but one, are
  spelt otherwise than in `compability.ts`. Who has chosen one gets a filter with
  `undefined` in it (`filter/index.ts:14`, kept by `r !== null` in
  `profile-similar-finder.service.ts:58`), Qdrant rejects it, and the search fails
  without any relaxation.

Accounts and profiles
* `/auth/withdraw` checks the password and does nothing: `auth.service.ts:136`.
* Two refreshes at once both answer, one with a token nobody knows
  (`auth.service.ts:163`).
* A university registered again leaves the profile with the reference to the deleted
  row and its authentication (`university.service.ts:31`).
* Overlapping uploads pass the limit of three (`image.service.ts:33`), and a deleted
  image can be made the main one (`image.service.ts:145`).
* Overlapping PATCHes of preferences add up (`profile.repository.ts:514`), and those
  of one target with an unknown type may leave INSERTs behind their ROLLBACK
  (`profile.repository.ts:500`, `:548`).

Board
* The view-count job also deletes the marks of who has seen an article, and loses
  views counted between its read and its deletion.
* Two clicks on like at once make two rows (`like.repository.ts:28`), which later
  toggle together and count twice.
* An article that is deleted while a run has selected it becomes hot
  (`hot-article.service.ts:45`); one whose deletion fails half-way stays hot.

## 6. Abstractions

General
* Messages, names, texts, products and customData are constants (`Catalogue`,
  `Readable`, `Texts`, `CodeOf`): what the code distinguishes, not what they say.
  Balances are unbounded integers; the width of the columns is left out.
* A call that fails has not had its effect. A call whose effect is there and whose
  answer is lost is for a writing call the same as failing one step later, which
  the failing actions cover. A deadlock that PostgreSQL ends is such a failure.
* History variables and fields (`everPaid`, `chosen`, `seen`, `row`, `by`, `clear`,
  `apart`, `plain`, `calm`, `tidy`, `orderly`, `steady`, `excused`, `late`) are written and
  never read by the code's guards.
* Time in all modules but MatchView and Sessions is only order and expiry.
* Clients that send another user's order are in the models (`CreateHistory` and
  `ReceiveConfirm` with any user and any order). Histories of one order, user and name
  are one row: nothing the flows read or write tells them apart.

By module
* ViewCounts: the batches of at most a hundred keys are one, as its keys are
  worked off independently; what a reader is shown (column plus counter) is a read.
* Sessions: the read of the user and the signing of tokens are one action; the change
  of a password and the query of the gender in between change nothing of it.
* ProfileImages, Registration: a client waits for its answer; one POST has up to two
  files. That a telephone number is unique is not checked by the code, nor here.
  `TooManyImages` cannot happen during a signup. Universities of members who signed
  up before are those of the others.
* Preferences: each request is sent once; options are listed under their own type;
  the lookups of the types are one action but for what `UnknownType` tells apart.
* ProfileIndex: a point is what a search compares; `rank` is null where the console
  command put it. CandidateSearch: order, limit and similarity are left out (any
  candidate that passes may be taken); the reads of a user's profiles are one.
* Board: the reads at the beginning of a request are one where nothing is written
  in between. Articles are numbered as they are created.
* HotArticles: the counts of likes are all queried before the first of the comments,
  since `pg` sends the queries of a transaction in the order they are asked.

## 7. Not modelled

* The verification of telephone numbers by SMS (`signup.service.ts:56-93`): no route
  calls it, and signup does not look at its table. `ProfileService.updatePreferences`
  and the preference weighter have no caller either.
* Alert mails: a flag like the lock of the batch, around mails that nothing records.
* Response cache: one read of a value that may be stale for its TTL; the deletion
  names a key the interceptor does not write (`creation.service.ts:353`).
* Reports, operator accounts, anonymous names, generated content: one insert, or
  texts.
* History and counts of matches, statistics, notifications, inspection and
  lists of the administration: reads.
* Texts, vectors and similarity scores; wording of answers, DTOs and OpenAPI
  decorators; the list of universities; seeds and migrations.

About a third of the lines of `src/` are of the last kind. What could still be
added: `Matchmaking` over `CandidateSearch` in place of the constant `Eligible`, one
`tickets` table for TicketPurchase and the rematch, an abstract match (asked, agreed,
seen) that Matchmaking and MatchView implement.
