------------------------------ MODULE GemCharge ------------------------------
(***************************************************************************)
(* The gem (in-app currency) payment flow: PortOne's webhook and the       *)
(* client's confirmation (gem-payment.service.ts), and the balance         *)
(* transaction under them (gem.repository.ts).  A request is a job of a    *)
(* handler of one server process; every action is the code between two     *)
(* awaits.                                                                 *)
(*                                                                         *)
(* PostgreSQL runs at READ COMMITTED: the SELECT of the transaction takes  *)
(* no lock, and the UPDATE writes the values computed from what it read.   *)
(* UPDATE, INSERT and COMMIT are one action: nothing of them is visible    *)
(* before the commit, and a failure between them rolls all of it back,     *)
(* which is the handler failing before the action.                         *)
(***************************************************************************)
EXTENDS Integers, Sequences, FiniteSets

CONSTANTS Users,           \* users that may own a user_gems row
          Orders,          \* order ids (PortOne payment ids)
          Handlers,        \* requests the servers can work on at a time
          ServerOf,        \* the server process each handler runs in
          TotalGems,       \* gem_products.total_gems of each order's product
          Catalogue,       \* orders whose orderName is a gem_products row
          CustomCatalogue, \* orders whose customData names a gem_products row
          ConsumeAmounts,  \* amounts a feature may consume
          RowsAtStart,     \* users who already own a row (of zero gems)
          NoOrder, NoUser,
          MaxHistories,    \* bound: rows of pay_histories
          MaxRequests,     \* bound: requests accepted in a behaviour
          MaxFailures      \* bound: calls to the database or PortOne that fail

ASSUME GemsAssumption == TotalGems \in [Orders -> Nat]
ASSUME CatalogueAssumption == Catalogue \subseteq Orders /\ CustomCatalogue \subseteq Orders
ASSUME ConsumeAssumption == ConsumeAmounts \subseteq Nat
ASSUME RowsAssumption == RowsAtStart \subseteq Users
ASSUME NoneAssumption == NoOrder \notin Orders /\ NoUser \notin Users

VARIABLES
  payment,          \* PortOne's status of each order
  everPaid,         \* orders that were PAID at some time (history variable)
  sent,             \* webhooks PortOne has sent: <<order, status>>
  payHistories,     \* pay_histories: <<order, user>>; rows that agree in both
                    \* are told apart by nothing the flow reads
  rows,             \* users with a user_gems row
  gemBalance,       \* user_gems.gem_balance
  totalCharged,     \* user_gems.total_charged
  totalConsumed,    \* user_gems.total_consumed
  gemTransactions,  \* gem_transactions in commit order; the field order, which
                    \* the table lacks, names the charged order (history)
  gemPayments,      \* gem_payments in insertion order
  job,              \* what each handler is doing
  requests,         \* requests accepted, for the bound
  failures          \* failed calls, for the bound

portone == <<payment, everPaid, sent>>
tables  == <<rows, gemBalance, totalCharged, totalConsumed>>
bounds  == <<requests, failures>>
vars    == <<portone, payHistories, tables, gemTransactions, gemPayments,
             job, bounds>>

Statuses == {"READY", "PAID", "FAILED", "CANCELLED"}
Steps == {"idle", "getPayment", "findHistory", "checkRow", "insertRow",
          "select", "write", "confirmPayment", "confirmInsert"}
Kinds == {"webhook", "consume", "confirm"}

\* A job: the step it is at, the request it serves, the locals of the handler.
\* gems is the user_gems row the transaction has read.
NoGems == [balance |-> 0, charged |-> 0]
Job(step, kind, o, u, n) ==
  [step |-> step, kind |-> kind, order |-> o, user |-> u, amount |-> n,
   gems |-> NoGems]
Idle == Job("idle", "webhook", NoOrder, NoUser, 0)

Init ==
  /\ payment = [o \in Orders |-> "READY"]
  /\ everPaid = {}
  /\ sent = {}
  /\ payHistories = {}
  /\ rows = RowsAtStart
  /\ gemBalance = [u \in Users |-> 0]
  /\ totalCharged = [u \in Users |-> 0]
  /\ totalConsumed = [u \in Users |-> 0]
  /\ gemTransactions = <<>>
  /\ gemPayments = <<>>
  /\ job = [h \in Handlers |-> Idle]
  /\ requests = 0
  /\ failures = 0

-----------------------------------------------------------------------------
(***************************************************************************)
(* The environment: the buyer's client and PortOne.                        *)
(***************************************************************************)

\* POST /payments/history, which the client calls before it opens the payment
\* window: a row in the caller's name, for whatever order id the caller sends.
\* Nothing makes order_id unique or the order the caller's.
CreateHistory(o, u) ==
  /\ Cardinality(payHistories) < MaxHistories
  /\ payHistories' = payHistories \cup {<<o, u>>}
  /\ UNCHANGED <<portone, tables, gemTransactions, gemPayments, job, bounds>>

\* PortOne moves a payment to another status and sends the webhook of the new
\* one.  It may deliver that webhook at any later time, and again.
Settle(o, from, to) ==
  /\ payment[o] = from
  /\ payment' = [payment EXCEPT ![o] = to]
  /\ everPaid' = IF to = "PAID" THEN everPaid \cup {o} ELSE everPaid
  /\ sent' = sent \cup {<<o, to>>}
  /\ UNCHANGED <<payHistories, tables, gemTransactions, gemPayments, job, bounds>>

Pay(o)     == Settle(o, "READY", "PAID")
Decline(o) == Settle(o, "READY", "FAILED")
Cancel(o)  == Settle(o, "PAID", "CANCELLED")

-----------------------------------------------------------------------------
(***************************************************************************)
(* Handler plumbing: these set job' and nothing else.                      *)
(***************************************************************************)
At(h, step) == job[h].step = step

Goto(h, step) == job' = [job EXCEPT ![h].step = step]

Finish(h) == job' = [job EXCEPT ![h] = Idle]

\* handleWebHook is called without await: its rejection is unhandled and ends
\* the Node process with everything the process was doing.  The other handlers'
\* callers catch theirs.
Reject(h) ==
  IF job[h].kind = "webhook"
    THEN job' = [i \in Handlers |->
                   IF ServerOf[i] = ServerOf[h] THEN Idle ELSE job[i]]
    ELSE Finish(h)

\* An idle handler takes up a request.
Accept(h, step, kind, o, u, n) ==
  /\ At(h, "idle")
  /\ requests < MaxRequests
  /\ requests' = requests + 1
  /\ job' = [job EXCEPT ![h] = Job(step, kind, o, u, n)]
  /\ UNCHANGED <<portone, payHistories, tables, gemTransactions, gemPayments,
                 failures>>

KeepWorld == UNCHANGED <<portone, payHistories, bounds>>

\* Any awaited call of a running handler fails: the handler rejects, and an
\* open transaction is rolled back.
CallFails(h) ==
  /\ ~ At(h, "idle")
  /\ failures < MaxFailures
  /\ failures' = failures + 1
  /\ Reject(h)
  /\ UNCHANGED <<portone, payHistories, tables, gemTransactions, gemPayments,
                 requests>>

-----------------------------------------------------------------------------
(***************************************************************************)
(* GemPaymentService.handleWebHook.                                        *)
(***************************************************************************)

\* Mutant: the early return on another status is lost, the check is skipped.
ReceiveWebhookAnyStatus(h, o, status) ==
  /\ <<o, status>> \in sent
  /\ Accept(h, IF status = "PAID" THEN "getPayment" ELSE "findHistory",
            "webhook", o, NoUser, 0)

\* A webhook whose signature is verified.  Any status but Paid is dropped.
ReceiveWebhook(h, o, status) ==
  /\ <<o, status>> \in sent
  /\ IF status = "PAID"
       THEN Accept(h, "getPayment", "webhook", o, NoUser, 0)
       ELSE Accept(h, "idle", "webhook", NoOrder, NoUser, 0)

\* Mutant: the webhook's word is taken for the payment's status.
GetPaymentUnchecked(h) ==
  /\ At(h, "getPayment")
  /\ Goto(h, "findHistory")
  /\ KeepWorld
  /\ UNCHANGED <<tables, gemTransactions, gemPayments>>

\* PortOne's status of the payment at the time of the call.
GetPayment(h) ==
  /\ At(h, "getPayment")
  /\ IF payment[job[h].order] = "PAID" THEN Goto(h, "findHistory") ELSE Finish(h)
  /\ KeepWorld
  /\ UNCHANGED <<tables, gemTransactions, gemPayments>>

\* Whom findPayHistory(o) may answer: findFirst without an order takes any row
\* of the order, and answers nothing when there is none.
Recorders(o) == {u \in Users : <<o, u>> \in payHistories}
Found(o) == IF Recorders(o) = {} THEN {NoUser} ELSE Recorders(o)

\* The transaction of the product of o is started for user u.
Charge(h, o, u) ==
  job' = [job EXCEPT ![h] = Job("checkRow", "webhook", o, u, TotalGems[o])]

\* Mutant: the user is taken from the webhook, not from the history.
FindHistoryUnchecked(h) ==
  LET o == job[h].order
  IN /\ At(h, "findHistory")
     /\ \E u \in Users : IF o \in Catalogue THEN Charge(h, o, u) ELSE Finish(h)
     /\ KeepWorld
     /\ UNCHANGED <<tables, gemTransactions, gemPayments>>

\* findPayHistory and getProductByName: without either row the handler returns,
\* with both it charges the history's user the product's gems.
FindHistory(h) ==
  LET o == job[h].order
  IN /\ At(h, "findHistory")
     /\ \E u \in Found(o) :
          IF u # NoUser /\ o \in Catalogue THEN Charge(h, o, u) ELSE Finish(h)
     /\ KeepWorld
     /\ UNCHANGED <<tables, gemTransactions, gemPayments>>

-----------------------------------------------------------------------------
(***************************************************************************)
(* GemRepository.transaction, entered by handleWebHook (CHARGE) and by     *)
(* GemTransactionManager.consume (CONSUME).                                *)
(***************************************************************************)

\* A feature that costs gems is used.
StartConsume(h, u, n) == Accept(h, "checkRow", "consume", NoOrder, u, n)

\* What the transaction makes of a column it has read.
Trans(kind, n, target) == IF kind = "webhook" THEN n + target ELSE n - target

\* safeCreateUserGems, the SELECT, on a connection of its own.
CheckRow(h) ==
  /\ At(h, "checkRow")
  /\ Goto(h, IF job[h].user \in rows THEN "select" ELSE "insertRow")
  /\ KeepWorld
  /\ UNCHANGED <<tables, gemTransactions, gemPayments>>

\* Mutant: the handler returns once it has created the row.
InsertRowReturns(h) ==
  LET u == job[h].user
  IN /\ At(h, "insertRow")
     /\ u \notin rows
     /\ rows' = rows \cup {u}
     /\ Finish(h)
     /\ KeepWorld
     /\ UNCHANGED <<gemBalance, totalCharged, totalConsumed, gemTransactions,
                    gemPayments>>

\* safeCreateUserGems, the INSERT of a row of zeros, committed on its own.
InsertRow(h) ==
  LET u == job[h].user
  IN /\ At(h, "insertRow")
     /\ u \notin rows
     /\ rows' = rows \cup {u}
     /\ gemBalance' = [gemBalance EXCEPT ![u] = 0]
     /\ totalCharged' = [totalCharged EXCEPT ![u] = 0]
     /\ totalConsumed' = [totalConsumed EXCEPT ![u] = 0]
     /\ Goto(h, "select")
     /\ KeepWorld
     /\ UNCHANGED <<gemTransactions, gemPayments>>

\* The same INSERT after another handler's: user_id is the primary key, so it
\* fails and the handler rejects.
InsertRowFails(h) ==
  /\ At(h, "insertRow")
  /\ job[h].user \in rows
  /\ Reject(h)
  /\ KeepWorld
  /\ UNCHANGED <<tables, gemTransactions, gemPayments>>

\* The transaction's SELECT; without a row, tx.rollback() throws.
SelectGems(h) ==
  LET u == job[h].user
  IN /\ At(h, "select")
     /\ IF u \in rows
          THEN job' = [job EXCEPT ![h].step = "write",
                                  ![h].gems = [balance |-> gemBalance[u],
                                               charged |-> totalCharged[u]]]
          ELSE Reject(h)
     /\ KeepWorld
     /\ UNCHANGED <<tables, gemTransactions, gemPayments>>

\* The rows the UPDATE statement touches: it has no WHERE clause.
UpdatedRows(h) == rows

\* The columns and the gem_transactions row a commit writes.
Write(h, balance, charged, log) ==
  /\ At(h, "write")
  /\ gemBalance' = [v \in Users |->
                      IF v \in UpdatedRows(h) THEN balance ELSE gemBalance[v]]
  /\ totalCharged' = [v \in Users |->
                      IF v \in UpdatedRows(h) THEN charged[v] ELSE totalCharged[v]]
  /\ gemTransactions' = log
  /\ Finish(h)
  /\ KeepWorld
  /\ UNCHANGED <<rows, totalConsumed, gemPayments>>

\* The gem_transactions row of a job, its balance_before and balance_after.
Row(j, before, after) ==
  [user |-> j.user, kind |-> j.kind, gemAmount |-> j.amount,
   balanceBefore |-> before, balanceAfter |-> after, order |-> j.order]

\* Mutant: the row of gem_transactions is not written.
WriteGemsUnlogged(h) ==
  LET j == job[h]
  IN Write(h, Trans(j.kind, j.amount, j.gems.balance),
           [v \in Users |-> Trans(j.kind, j.amount, j.gems.charged)],
           gemTransactions)

\* UPDATE, INSERT INTO gem_transactions, COMMIT.
WriteGems(h) ==
  LET j == job[h]
      after == Trans(j.kind, j.amount, j.gems.balance)
  IN Write(h, after,
           [v \in Users |-> Trans(j.kind, j.amount, j.gems.charged)],
           Append(gemTransactions, Row(j, j.gems.balance, after)))

-----------------------------------------------------------------------------
(***************************************************************************)
(* GemPaymentService.confirm, called by the client after the payment.      *)
(***************************************************************************)
ReceiveConfirm(h, u, o) == Accept(h, "confirmPayment", "confirm", o, u, 0)

\* What the handler asks of the payment, whoever calls.
Confirmable(o) == payment[o] = "PAID" /\ o \in CustomCatalogue

\* Mutant: the history is not compared with the caller.
ConfirmPaymentAnyone(h) ==
  LET o == job[h].order
  IN /\ At(h, "confirmPayment")
     /\ \E u \in Found(o) :
          IF u # NoUser /\ Confirmable(o) THEN Goto(h, "confirmInsert") ELSE Finish(h)
     /\ KeepWorld
     /\ UNCHANGED <<tables, gemTransactions, gemPayments>>

\* validateAndGet and the product lookup: the history found is the caller's, the
\* payment is PAID, its customData names a product.
ConfirmPayment(h) ==
  LET o == job[h].order
  IN /\ At(h, "confirmPayment")
     /\ \E u \in Found(o) :
          IF u = job[h].user /\ Confirmable(o)
            THEN Goto(h, "confirmInsert") ELSE Finish(h)
     /\ KeepWorld
     /\ UNCHANGED <<tables, gemTransactions, gemPayments>>

\* insertGemPayment, always COMPLETED; this path credits no gems.
ConfirmInsert(h) ==
  /\ At(h, "confirmInsert")
  /\ gemPayments' = Append(gemPayments,
                           [user |-> job[h].user, order |-> job[h].order])
  /\ Finish(h)
  /\ KeepWorld
  /\ UNCHANGED <<tables, gemTransactions>>

-----------------------------------------------------------------------------
Environment ==
  \E o \in Orders :
    \/ \E u \in Users : CreateHistory(o, u)
    \/ Pay(o) \/ Decline(o) \/ Cancel(o)

Request(h) ==
  \/ \E o \in Orders, status \in Statuses : ReceiveWebhook(h, o, status)
  \/ \E u \in Users, n \in ConsumeAmounts : StartConsume(h, u, n)
  \/ \E u \in Users, o \in Orders : ReceiveConfirm(h, u, o)

\* The steps the event loop takes once the call a handler awaits has answered.
Continue(h) ==
  \/ GetPayment(h) \/ FindHistory(h)
  \/ CheckRow(h) \/ InsertRow(h) \/ InsertRowFails(h)
  \/ SelectGems(h) \/ WriteGems(h)
  \/ ConfirmPayment(h) \/ ConfirmInsert(h)

Next ==
  \/ Environment
  \/ \E h \in Handlers : Request(h) \/ Continue(h) \/ CallFails(h)

Spec == Init /\ [][Next]_vars

\* A handler whose call keeps being answered is resumed: Node's event loop and
\* the connection pool starve nobody.
FairSpec == Spec /\ \A h \in Handlers : WF_vars(Continue(h))

-----------------------------------------------------------------------------
(***************************************************************************)
(* Properties.                                                             *)
(***************************************************************************)
Gems == [balance : Int, charged : Int]
Jobs == [step : Steps, kind : Kinds, order : Orders \cup {NoOrder},
         user : Users \cup {NoUser}, amount : Nat, gems : Gems]
Transactions == [user : Users, kind : {"webhook", "consume"}, gemAmount : Nat,
                 balanceBefore : Int, balanceAfter : Int,
                 order : Orders \cup {NoOrder}]
Payments == [user : Users, order : Orders]

\* Every variable has the type its table or its handler gives it.
TypeOK ==
  /\ payment \in [Orders -> Statuses]
  /\ everPaid \subseteq Orders
  /\ sent \subseteq Orders \X Statuses
  /\ payHistories \subseteq Orders \X Users
  /\ rows \subseteq Users
  /\ gemBalance \in [Users -> Int]
  /\ totalCharged \in [Users -> Int]
  /\ totalConsumed \in [Users -> Int]
  /\ gemTransactions \in Seq(Transactions)
  /\ gemPayments \in Seq(Payments)
  /\ job \in [Handlers -> Jobs]
  /\ requests \in Nat
  /\ failures \in Nat

\* The gem_transactions rows that charge order o.
ChargesOf(o) == {i \in DOMAIN gemTransactions : gemTransactions[i].order = o}

\* Gems are charged only for an order PortOne took the money for, to a user who
\* recorded that order in their own name, and in the number its product sells:
\* whatever arrives in whatever order, and however often.  (Who that user is, if
\* several recorded the order, the code does not say.)
ChargesArePaid ==
  \A i \in DOMAIN gemTransactions :
    LET t == gemTransactions[i]
    IN t.kind = "webhook" =>
         /\ t.order \in everPaid
         /\ t.user \in Recorders(t.order)
         /\ t.gemAmount = TotalGems[t.order]

\* No handler is between its check of PortOne's status of o and its charge.
NoneBeyondStatusCheck(o) ==
  \A h \in Handlers :
    job[h].order = o /\ job[h].kind = "webhook" => At(h, "getPayment")

\* Once a payment is cancelled and no handler is past the status check, a late
\* or repeated Paid webhook of it charges nothing, ever.
ChargesNoCancelledOrder ==
  \A o \in Orders :
    payment[o] = "CANCELLED" /\ NoneBeyondStatusCheck(o) =>
      /\ NoneBeyondStatusCheck(o)'
      /\ ChargesOf(o)' = ChargesOf(o)

CancelledStaysUncharged == [][ChargesNoCancelledOrder]_vars

\* A handler whose safeCreateUserGems is behind it finds its user's row, even
\* when the row was created by another: the rollback arm of the transaction
\* is never taken.
RowBeforeTransaction ==
  \A h \in Handlers : At(h, "select") \/ At(h, "write") => job[h].user \in rows

\* A user's balance is what the row's own totals say it is, lost updates and
\* foreign updates included: the columns are always written together, from one
\* read.
BalanceEqualsTotals ==
  \A u \in Users : gemBalance[u] = totalCharged[u] - totalConsumed[u]

\* Every balance, and every balance a transaction started from, is zero or was
\* left by a transaction that gem_transactions records.
Explained(balance, log) ==
  balance = 0 \/ \E i \in DOMAIN log : log[i].balanceAfter = balance

LedgerExplainsBalance ==
  /\ \A u \in Users : Explained(gemBalance[u], gemTransactions)
  /\ \A i \in DOMAIN gemTransactions :
       LET before == gemTransactions[i].balanceBefore
       IN before = 0 \/ \E k \in 1..(i - 1) : gemTransactions[k].balanceAfter = before

\* A balance changes only in a commit that appends one gem_transactions row,
\* and that row's balance_after is what its user then has.
BalanceChangesAreRecorded ==
  [][gemBalance' # gemBalance =>
       /\ Len(gemTransactions') = Len(gemTransactions) + 1
       /\ LET t == gemTransactions'[Len(gemTransactions')]
          IN gemBalance'[t.user] = t.balanceAfter]_vars

\* A gem_payments row is only ever written for an order that was paid, and for a
\* user who recorded it: nobody confirms an order with another's history.
PaymentsAreRecorded ==
  \A i \in DOMAIN gemPayments :
    LET p == gemPayments[i]
    IN p.order \in everPaid /\ p.user \in Recorders(p.order)

\* A webhook of process s is about to insert a first row that another handler has
\* inserted since it looked: it will fail on the key and end the process.
FirstRowRace(s) ==
  \E h \in Handlers : /\ ServerOf[h] = s /\ At(h, "insertRow")
                      /\ job[h].kind = "webhook" /\ job[h].user \in rows

\* While no call fails, a Paid webhook taken up for a recorded order of a known
\* product ends in a charge of that order, unless the payment is cancelled before
\* the handler asks PortOne, or a race for a first user_gems row ends the process
\* the handler runs in: beside that race no handler of a process costs another
\* its charge.
WebhookLeadsToCharge ==
  [](failures = 0) =>
    \A h \in Handlers, o \in Catalogue :
      (Recorders(o) # {} /\ At(h, "getPayment") /\ job[h].order = o)
        ~> (ChargesOf(o) # {} \/ payment[o] = "CANCELLED" \/ FirstRowRace(ServerOf[h]))

-----------------------------------------------------------------------------
(***************************************************************************)
(* The promise of PaidFulfilment, and how this flow keeps it.              *)
(***************************************************************************)
Receipts ==
  {[no |-> i, order |-> gemTransactions[i].order] :
     i \in {k \in DOMAIN gemTransactions : gemTransactions[k].kind = "webhook"}}

Promise == INSTANCE PaidFulfilment
             WITH paidOrders <- everPaid, fulfilments <- Receipts

\* The gem flow fulfils only orders that were paid, one fulfilment a charge.
FulfilsOnlyPaid == Promise!Spec
=============================================================================
