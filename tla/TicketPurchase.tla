--------------------------- MODULE TicketPurchase ---------------------------
(***************************************************************************)
(* Buying rematching tickets (pay.service.ts): the history a client        *)
(* records before it pays, PortOne's webhook, which issues the tickets,    *)
(* and the client's confirmation.  Two things set it apart from the gem    *)
(* flow of GemCharge: the payment's status is never read, and a webhook    *)
(* that fails is answered with 200, so nobody repeats it on that account.  *)
(*                                                                         *)
(* A request is a job of a handler; every action is the code between two   *)
(* awaits.  The two writes of a webhook, to pay_histories and to tickets,  *)
(* are statements of their own.                                            *)
(***************************************************************************)
EXTENDS Integers, Sequences, FiniteSets

CONSTANTS Users, Orders, Handlers,
          Readable,       \* orders whose customData at PortOne parses
          RematchOrders,  \* orders whose orderName at PortOne is Product.REMATCHING
          Count,          \* tickets new Array(customData.productCount) makes; it
                          \* makes one of a missing count or a string
          NoOrder, NoUser,
          MaxHistories,   \* bound: rows of pay_histories
          MaxRequests,    \* bound: requests accepted in a behaviour
          MaxFailures     \* bound: calls to the database or PortOne that fail

ASSUME CountAssumption == Count \in [Orders -> Nat]
ASSUME KindsAssumption == Readable \subseteq Orders /\ RematchOrders \subseteq Orders
ASSUME NoneAssumption == NoOrder \notin Orders /\ NoUser \notin Users

VARIABLES
  payment,       \* PortOne's status of each order
  everPaid,      \* orders that were PAID at some time (history variable)
  sent,          \* webhooks PortOne has sent: <<order, status>>
  payHistories,  \* pay_histories: [order, user, named], named when its orderName
                 \* is PortOne's; rows that agree in all three are told apart by
                 \* nothing the flow reads
  completed,     \* the rows that have their paid_at, tx_id, receipt_url, method
  tickets,       \* insertions into tickets: [user, count]; the field order,
                 \* which the table lacks, names the order (history)
  delivered,     \* Paid webhooks taken up, for each order (history variable)
  job,           \* what each handler is doing
  requests, failures  \* counted for the bounds

portone == <<payment, everPaid, sent>>
tables  == <<payHistories, completed, tickets>>
bounds  == <<requests, failures>>
vars    == <<portone, tables, delivered, job, bounds>>

Statuses == {"READY", "PAID", "FAILED", "CANCELLED"}
WebhookSteps == {"findHistory", "getPayment", "updateHistory", "createTickets"}
Steps == WebhookSteps \cup {"idle", "confirmFind", "confirmGet"}

\* A row of pay_histories, and what findPayHistory answers without one.
History(o, u, named) == [order |-> o, user |-> u, named |-> named]
NoHistory == History(NoOrder, NoUser, FALSE)

\* A job: its step, and the order, the user and the history it has learnt of.
Job(step, o, u, named) == [step |-> step, order |-> o, user |-> u, named |-> named]
Idle == Job("idle", NoOrder, NoUser, FALSE)

Init ==
  /\ payment = [o \in Orders |-> "READY"]
  /\ everPaid = {}
  /\ sent = {}
  /\ payHistories = {}
  /\ completed = {}
  /\ tickets = <<>>
  /\ delivered = [o \in Orders |-> 0]
  /\ job = [h \in Handlers |-> Idle]
  /\ requests = 0
  /\ failures = 0

-----------------------------------------------------------------------------
\* POST /payments/history, which the client calls before it opens the payment
\* window: a row in the caller's name, for whatever order id and order name the
\* caller sends.  Nothing makes order_id unique or the order the caller's.
CreateHistory(o, u, named) ==
  /\ Cardinality(payHistories) < MaxHistories
  /\ payHistories' = payHistories \cup {History(o, u, named)}
  /\ UNCHANGED <<portone, completed, tickets, delivered, job, bounds>>

\* PortOne moves a payment to another status, and sends the webhook of the new
\* one, which may arrive at any later time, and again.
Settle(o, from, to) ==
  /\ payment[o] = from
  /\ payment' = [payment EXCEPT ![o] = to]
  /\ everPaid' = IF to = "PAID" THEN everPaid \cup {o} ELSE everPaid
  /\ sent' = sent \cup {<<o, to>>}
  /\ UNCHANGED <<tables, delivered, job, bounds>>

Pay(o)     == Settle(o, "READY", "PAID")
Decline(o) == Settle(o, "READY", "FAILED")
Cancel(o)  == Settle(o, "PAID", "CANCELLED")

-----------------------------------------------------------------------------
(***************************************************************************)
(* Handler plumbing: these set job' and nothing else.                      *)
(***************************************************************************)
At(h, step) == job[h].step = step

Goto(h, step) == job' = [job EXCEPT ![h].step = step]

Finish(h) == job' = [job EXCEPT ![h] = Idle]

\* The rows of an order.  findFirst without an order answers any of them.
Histories(o) == {r \in payHistories : r.order = o}
Found(o) == IF Histories(o) = {} THEN {NoHistory} ELSE Histories(o)

Accept(h, step, o, u) ==
  /\ At(h, "idle")
  /\ requests < MaxRequests
  /\ requests' = requests + 1
  /\ job' = [job EXCEPT ![h] = Job(step, o, u, FALSE)]
  /\ UNCHANGED <<portone, tables, failures>>

-----------------------------------------------------------------------------
(***************************************************************************)
(* PayService.handlePaymentWebhook, under PaymentController.handleWebhook. *)
(***************************************************************************)

\* Mutant: a webhook of any status is worked off.
ReceiveWebhookAnyStatus(h, o, status) ==
  /\ <<o, status>> \in sent
  /\ Accept(h, "findHistory", o, NoUser)
  /\ delivered' = [delivered EXCEPT ![o] = @ + 1]

\* A webhook whose signature is verified.  Any status but Paid is dropped.
ReceiveWebhook(h, o, status) ==
  /\ <<o, status>> \in sent
  /\ IF status = "PAID"
       THEN /\ Accept(h, "findHistory", o, NoUser)
            /\ delivered' = [delivered EXCEPT ![o] = @ + 1]
       ELSE Accept(h, "idle", NoOrder, NoUser) /\ UNCHANGED delivered

\* The tickets of o are to be user u's.
Take(h, o, u, named) == job' = [job EXCEPT ![h] = Job("getPayment", o, u, named)]

\* Mutant: the user is taken from the webhook, not from the history.
FindHistoryOrNot(h) ==
  LET o == job[h].order
  IN /\ At(h, "findHistory")
     /\ \E u \in Users : Take(h, o, u, TRUE)
     /\ UNCHANGED <<portone, tables, delivered, bounds>>

\* findPayHistory; history.userId is the user the tickets are for.
FindHistory(h) ==
  LET o == job[h].order
  IN /\ At(h, "findHistory")
     /\ \E r \in Found(o) :
          IF r # NoHistory THEN Take(h, o, r.user, r.named) ELSE Finish(h)
     /\ UNCHANGED <<portone, tables, delivered, bounds>>

\* getPayment, JSON.parse of its customData, and the comparison of the order's
\* names, of which either throws; the payment's status is not looked at.
GetPayment(h) ==
  /\ At(h, "getPayment")
  /\ IF job[h].order \in Readable /\ job[h].named
       THEN Goto(h, "updateHistory") ELSE Finish(h)
  /\ UNCHANGED <<portone, tables, delivered, bounds>>

\* Mutant: the handler returns when the history is written.
UpdateHistoryReturns(h) ==
  /\ At(h, "updateHistory")
  /\ completed' = completed \cup Histories(job[h].order)
  /\ Finish(h)
  /\ UNCHANGED <<portone, payHistories, tickets, delivered, bounds>>

\* updateHistory, of every row of the order; strategy has tickets made for its one product only.
UpdateHistory(h) ==
  /\ At(h, "updateHistory")
  /\ completed' = completed \cup Histories(job[h].order)
  /\ IF job[h].order \in RematchOrders THEN Goto(h, "createTickets") ELSE Finish(h)
  /\ UNCHANGED <<portone, payHistories, tickets, delivered, bounds>>

\* Mutant: a second insertion follows the first.
CreateTicketsTwice(h) ==
  /\ At(h, "createTickets")
  /\ Count[job[h].order] > 0
  /\ tickets' = Append(tickets, [user |-> job[h].user, count |-> Count[job[h].order],
                                 order |-> job[h].order])
  /\ Finish(h) \/ job' = job
  /\ UNCHANGED <<portone, payHistories, completed, delivered, bounds>>

\* createTickets, one INSERT of all of them; one of no rows throws.  What is
\* left of the handler is a Slack message whose failure is swallowed.
CreateTickets(h) ==
  LET o == job[h].order
  IN /\ At(h, "createTickets")
     /\ tickets' = IF Count[o] > 0
                     THEN Append(tickets, [user |-> job[h].user, count |-> Count[o],
                                           order |-> o])
                     ELSE tickets
     /\ Finish(h)
     /\ UNCHANGED <<portone, payHistories, completed, delivered, bounds>>

-----------------------------------------------------------------------------
(***************************************************************************)
(* PayService.confirmClientPayment.                                        *)
(***************************************************************************)
ReceiveConfirm(h, u, o) ==
  Accept(h, "confirmFind", o, u) /\ UNCHANGED delivered

\* The history found must exist and be the caller's.
ConfirmFind(h) ==
  LET o == job[h].order
  IN /\ At(h, "confirmFind")
     /\ \E r \in Found(o) :
          IF r.user = job[h].user THEN Goto(h, "confirmGet") ELSE Finish(h)
     /\ UNCHANGED <<portone, tables, delivered, bounds>>

\* getPayment answers with the payment itself, of which the code takes a field
\* response that only the former API has: reading its status throws, the error
\* is logged, and the history is returned as it is.
ConfirmGet(h) ==
  /\ At(h, "confirmGet")
  /\ Finish(h)
  /\ UNCHANGED <<portone, tables, delivered, bounds>>

-----------------------------------------------------------------------------
\* An awaited call fails.  Both handlers catch it; what they have written stays.
CallFails(h) ==
  /\ ~ At(h, "idle")
  /\ failures < MaxFailures
  /\ failures' = failures + 1
  /\ Finish(h)
  /\ UNCHANGED <<portone, tables, delivered, requests>>

Environment ==
  \E o \in Orders :
    \/ \E u \in Users, named \in BOOLEAN : CreateHistory(o, u, named)
    \/ Pay(o) \/ Decline(o) \/ Cancel(o)

Request(h) ==
  \/ \E o \in Orders, status \in Statuses : ReceiveWebhook(h, o, status)
  \/ \E u \in Users, o \in Orders : ReceiveConfirm(h, u, o)

\* The steps the event loop takes once the call a handler awaits has answered.
Continue(h) ==
  \/ FindHistory(h) \/ GetPayment(h) \/ UpdateHistory(h) \/ CreateTickets(h)
  \/ ConfirmFind(h) \/ ConfirmGet(h)

Next ==
  \/ Environment
  \/ \E h \in Handlers : Request(h) \/ Continue(h) \/ CallFails(h)

Spec == Init /\ [][Next]_vars

\* A handler whose call keeps being answered is resumed.
FairSpec == Spec /\ \A h \in Handlers : WF_vars(Continue(h))

-----------------------------------------------------------------------------
(***************************************************************************)
(* Properties.                                                             *)
(***************************************************************************)
Jobs == [step : Steps, order : Orders \cup {NoOrder}, user : Users \cup {NoUser},
         named : BOOLEAN]
Rows == [order : Orders, user : Users, named : BOOLEAN]
Insertions == [user : Users, count : Nat, order : Orders]

\* Every variable has the type its table or its handler gives it, and a job past
\* findPayHistory has an order.
TypeOK ==
  /\ payment \in [Orders -> Statuses]
  /\ everPaid \subseteq Orders
  /\ sent \subseteq Orders \X Statuses
  /\ payHistories \subseteq Rows /\ completed \subseteq Rows
  /\ tickets \in Seq(Insertions)
  /\ delivered \in [Orders -> Nat]
  /\ job \in [Handlers -> Jobs]
  /\ \A h \in Handlers : ~ At(h, "idle") => job[h].order \in Orders
  /\ requests \in Nat /\ failures \in Nat

\* Tickets are issued only for an order of the ticket product that the money was
\* taken for, to a user who recorded that order under its name, and who has that
\* record completed to show for them: a failure can leave a payment without
\* tickets, but no tickets without a record of the payment.  (Who that user is, if
\* several recorded the order, the code does not say.)
TicketsArePaid ==
  \A i \in DOMAIN tickets :
    LET t == tickets[i]
    IN /\ t.order \in everPaid \cap Readable \cap RematchOrders
       /\ History(t.order, t.user, TRUE) \in completed

\* The webhooks of an order under way, and its insertions.
Pending(o) == {h \in Handlers : job[h].step \in WebhookSteps /\ job[h].order = o}
Issues(o) == {i \in DOMAIN tickets : tickets[i].order = o}

\* One delivery of a webhook issues the tickets of its order once at most: of an
\* order there are no more issues, done or under way, than webhooks taken up.
OneIssuePerDelivery ==
  \A o \in Orders :
    Cardinality(Issues(o)) + Cardinality(Pending(o)) <= delivered[o]

\* While no call fails, a Paid webhook taken up for a recorded order of tickets
\* ends with its tickets, whatever the other handlers do, unless somebody records
\* the order under another name, which may be the row the handler finds.
WebhookLeadsToTickets ==
  \A o \in Readable \cap RematchOrders :
    (Histories(o) # {} /\ Count[o] > 0 /\ Pending(o) # {})
      ~> (Issues(o) # {} \/ failures > 0 \/ \E r \in Histories(o) : ~ r.named)

-----------------------------------------------------------------------------
(***************************************************************************)
(* The promise of PaidFulfilment, and how this flow keeps it.              *)
(***************************************************************************)
Receipts == {[no |-> i, order |-> tickets[i].order] : i \in DOMAIN tickets}

Promise == INSTANCE PaidFulfilment
             WITH paidOrders <- everPaid, fulfilments <- Receipts

\* The ticket flow fulfils only orders that were paid, one fulfilment an issue.
FulfilsOnlyPaid == Promise!Spec
=============================================================================
