------------------------ MODULE TicketPurchaseProofs ------------------------
(***************************************************************************)
(* Theorems about TicketPurchase, for every choice of its constants.       *)
(***************************************************************************)
EXTENDS TicketPurchase, FiniteSetTheorems, TLAPS

USE CountAssumption, KindsAssumption, NoneAssumption

-----------------------------------------------------------------------------
(***************************************************************************)
(* The inductive invariant: JobOK says what a handler has established by   *)
(* the step it is at.                                                      *)
(***************************************************************************)
JobOK(j, paid, recorded, done) ==
  /\ j.step # "idle" => j.order \in Orders
  /\ j.step \in WebhookSteps => j.order \in paid
  /\ j.step \in WebhookSteps \ {"findHistory"} =>
       History(j.order, j.user, j.named) \in recorded
  /\ j.step \in {"updateHistory", "createTickets"} => j.order \in Readable /\ j.named
  /\ j.step = "createTickets" =>
       j.order \in RematchOrders /\ History(j.order, j.user, TRUE) \in done

JobsInv == \A h \in Handlers : JobOK(job[h], everPaid, payHistories, completed)

\* PortOne sends a Paid webhook only of orders it has been paid.
PortoneInv ==
  /\ \A o \in Orders : payment[o] = "PAID" => o \in everPaid
  /\ \A o \in Orders : <<o, "PAID">> \in sent => o \in everPaid

IInv ==
  /\ TypeOK
  /\ JobsInv
  /\ PortoneInv
  /\ TicketsArePaid

LEMMA IdleFacts ==
  /\ Idle \in Jobs /\ Idle.step = "idle"
  /\ \A p, r, d : JobOK(Idle, p, r, d)
  BY DEF Idle, Job, Jobs, Steps, JobOK, WebhookSteps

LEMMA HistoryType ==
  \A o \in Orders, u \in Users, named \in BOOLEAN : History(o, u, named) \in Rows
  BY DEF History, Rows

LEMMA InitInv == Init => IInv
<1> SUFFICES ASSUME Init PROVE IInv
  OBVIOUS
<1> USE DEF Init
<1>1. tickets \in Seq(Insertions) /\ job \in [Handlers -> Jobs]
  BY IdleFacts
<1>2. TypeOK
  BY <1>1, IdleFacts DEF TypeOK, Statuses, At
<1>3. JobsInv /\ PortoneInv
  BY IdleFacts DEF JobsInv, PortoneInv
<1>4. TicketsArePaid
  BY DEF TicketsArePaid
<1>. QED  BY <1>2, <1>3, <1>4 DEF IInv

-----------------------------------------------------------------------------
Grows ==
  /\ everPaid \subseteq everPaid'
  /\ payHistories \subseteq payHistories'
  /\ completed \subseteq completed'

\* A step of one handler, or of none, keeps the jobs in order.
LEMMA JobsMove ==
  ASSUME JobsInv, Grows,
         \A i \in Handlers :
           \/ job'[i] = job[i]
           \/ JobOK(job'[i], everPaid', payHistories', completed')
  PROVE  JobsInv'
  BY DEF JobsInv, JobOK, Grows

\* A step that moves one job and perhaps the histories, and issues nothing.
Silent == UNCHANGED <<portone, tickets>>

LEMMA SilentStep ==
  ASSUME IInv, Silent, Grows, NEW h \in Handlers, NEW j \in Jobs,
         job' = [job EXCEPT ![h] = j],
         JobOK(j, everPaid, payHistories', completed'),
         payHistories' \subseteq Rows, completed' \subseteq Rows,
         delivered' \in [Orders -> Nat],
         requests' \in Nat, failures' \in Nat
  PROVE  IInv'
<1> USE DEF Silent, portone
<1>1. job \in [Handlers -> Jobs]
  BY DEF IInv, TypeOK
<1>2. \A i \in Handlers : job'[i] = IF i = h THEN j ELSE job[i]
  BY <1>1
<1>3. job' \in [Handlers -> Jobs]
  BY <1>1
<1>4. JobsInv'
  BY <1>2, JobsMove DEF IInv
<1>5. TypeOK'
  <2>1. \A i \in Handlers : job'[i].step # "idle" => job'[i].order \in Orders
    BY <1>4 DEF JobsInv, JobOK
  <2>. QED  BY <1>3, <2>1 DEF IInv, TypeOK, At
<1>6. PortoneInv'
  BY DEF IInv, PortoneInv
<1>7. TicketsArePaid'
  BY DEF IInv, TicketsArePaid, Grows
<1>. QED  BY <1>4, <1>5, <1>6, <1>7 DEF IInv

\* A handler returns and leaves the tables as they are.
LEMMA FinishStep ==
  ASSUME IInv, NEW h \in Handlers, Finish(h), UNCHANGED <<portone, tables, delivered>>,
         requests' \in Nat, failures' \in Nat
  PROVE  IInv'
  BY IdleFacts, SilentStep DEF Finish, Silent, Grows, tables, portone, IInv, TypeOK

\* A handler goes to its next step, with what it has established.
LEMMA GotoStep ==
  ASSUME IInv, NEW h \in Handlers, NEW s \in Steps, Goto(h, s),
         Silent, Grows, UNCHANGED <<payHistories, delivered, bounds>>,
         completed' \subseteq Rows, ~ At(h, "idle"),
         s \in WebhookSteps =>
           /\ s \in {"updateHistory", "createTickets"}
           /\ job[h].step \in WebhookSteps \ {"findHistory"}
           /\ job[h].order \in Readable /\ job[h].named
           /\ s = "createTickets" =>
                /\ job[h].order \in RematchOrders
                /\ History(job[h].order, job[h].user, TRUE) \in completed'
  PROVE  IInv'
<1> DEFINE j == [job[h] EXCEPT !.step = s]
<1>1. job[h] \in Jobs /\ JobOK(job[h], everPaid, payHistories, completed)
  BY DEF IInv, TypeOK, JobsInv
<1>2. j \in Jobs /\ j.step = s /\ j.order = job[h].order /\ j.user = job[h].user
      /\ j.named = job[h].named
  BY <1>1 DEF Jobs
<1>3. job' = [job EXCEPT ![h] = j]
  BY DEF Goto
<1> HIDE DEF j
<1>4. JobOK(j, everPaid, payHistories', completed')
  BY <1>1, <1>2 DEF JobOK, At, WebhookSteps
<1>. QED  BY <1>2, <1>3, <1>4, SilentStep DEF IInv, TypeOK, bounds

-----------------------------------------------------------------------------
LEMMA EnvironmentStep == ASSUME IInv, Environment PROVE IInv'
<1>1. PICK o \in Orders : \/ \E u \in Users, named \in BOOLEAN : CreateHistory(o, u, named)
                          \/ Pay(o) \/ Decline(o) \/ Cancel(o)
  BY DEF Environment
<1>2. Grows /\ UNCHANGED <<completed, tickets, delivered, job, bounds>>
  BY <1>1 DEF Grows, CreateHistory, Pay, Decline, Cancel, Settle, portone, tables
<1>3. TypeOK'
  <2>1. CASE \E u \in Users, named \in BOOLEAN : CreateHistory(o, u, named)
    <3>1. payHistories' \subseteq Rows /\ UNCHANGED portone
      BY <2>1, HistoryType DEF CreateHistory, IInv, TypeOK
    <3>. QED  BY <1>2, <3>1 DEF IInv, TypeOK, portone, bounds, At
  <2>2. ASSUME NEW from, NEW to \in Statuses, Settle(o, from, to) PROVE TypeOK'
    <3>1. /\ payment' \in [Orders -> Statuses] /\ everPaid' \subseteq Orders
          /\ sent' \subseteq Orders \X Statuses /\ payHistories' = payHistories
      BY <2>2 DEF IInv, TypeOK, Settle, tables
    <3>. QED  BY <1>2, <3>1 DEF IInv, TypeOK, bounds, At
  <2>. QED  BY <1>1, <2>1, <2>2 DEF Pay, Decline, Cancel, Statuses
<1>4. PortoneInv'
  BY <1>1 DEF IInv, PortoneInv, TypeOK, CreateHistory, Pay, Decline, Cancel, Settle, portone
<1>5. JobsInv'
  BY <1>2, JobsMove DEF IInv
<1>6. TicketsArePaid'
  BY <1>2 DEF IInv, TicketsArePaid, Grows
<1>. QED  BY <1>3, <1>4, <1>5, <1>6 DEF IInv

\* The handler takes up the request whose job is j.
Taken(h, j) ==
  /\ At(h, "idle")
  /\ requests' = requests + 1
  /\ job' = [job EXCEPT ![h] = j]
  /\ UNCHANGED <<portone, tables, failures>>

LEMMA RequestStep == ASSUME IInv, NEW h \in Handlers, Request(h) PROVE IInv'
<1>1. PICK j \in Jobs : /\ Taken(h, j) /\ delivered' \in [Orders -> Nat]
                        /\ JobOK(j, everPaid, payHistories, completed)
  <2>1. ASSUME NEW o \in Orders, NEW status \in Statuses, ReceiveWebhook(h, o, status)
        PROVE  \E j \in Jobs : /\ Taken(h, j) /\ delivered' \in [Orders -> Nat]
                               /\ JobOK(j, everPaid, payHistories, completed)
    <3>1. CASE status = "PAID"
      <4>1. o \in everPaid
        BY <2>1, <3>1 DEF ReceiveWebhook, IInv, PortoneInv
      <4>2. /\ Job("findHistory", o, NoUser, FALSE) \in Jobs
            /\ JobOK(Job("findHistory", o, NoUser, FALSE), everPaid, payHistories, completed)
        BY <4>1 DEF Job, Jobs, Steps, WebhookSteps, JobOK
      <4>3. /\ Taken(h, Job("findHistory", o, NoUser, FALSE))
            /\ delivered' = [delivered EXCEPT ![o] = @ + 1]
        BY <2>1, <3>1 DEF ReceiveWebhook, Accept, Taken
      <4>4. delivered' \in [Orders -> Nat]
        BY <4>3 DEF IInv, TypeOK
      <4>. QED  BY <4>2, <4>3, <4>4
    <3>2. CASE status # "PAID"
      BY <2>1, <3>2, IdleFacts DEF ReceiveWebhook, Accept, Taken, Idle, IInv, TypeOK
    <3>. QED  BY <3>1, <3>2
  <2>2. ASSUME NEW u \in Users, NEW o \in Orders, ReceiveConfirm(h, u, o)
        PROVE  \E j \in Jobs : /\ Taken(h, j) /\ delivered' \in [Orders -> Nat]
                               /\ JobOK(j, everPaid, payHistories, completed)
    <3>1. /\ Job("confirmFind", o, u, FALSE) \in Jobs
          /\ JobOK(Job("confirmFind", o, u, FALSE), everPaid, payHistories, completed)
      BY DEF Job, Jobs, Steps, WebhookSteps, JobOK
    <3>. QED  BY <2>2, <3>1 DEF ReceiveConfirm, Accept, Taken, IInv, TypeOK
  <2>. QED  BY <2>1, <2>2 DEF Request
<1>2. /\ Silent /\ Grows /\ payHistories' = payHistories /\ completed' = completed
      /\ failures' = failures /\ requests' = requests + 1
      /\ job' = [job EXCEPT ![h] = j]
  BY <1>1 DEF Taken, Silent, Grows, tables, portone
<1>3. /\ payHistories' \subseteq Rows /\ completed' \subseteq Rows
      /\ requests' \in Nat /\ failures' \in Nat
  BY <1>2 DEF IInv, TypeOK
<1>4. JobOK(j, everPaid, payHistories', completed')
  BY <1>1, <1>2
<1>. QED  BY <1>1, <1>2, <1>3, <1>4, SilentStep

\* Whose tickets a handler about to issue them issues, and of which order.
LEMMA Issuing ==
  ASSUME IInv, NEW h \in Handlers, At(h, "createTickets")
  PROVE  /\ job[h].order \in everPaid \cap Readable \cap RematchOrders
         /\ job[h].order \in Orders /\ job[h].user \in Users
         /\ History(job[h].order, job[h].user, TRUE) \in payHistories \cap completed
<1>1. /\ job[h] \in Jobs /\ JobOK(job[h], everPaid, payHistories, completed)
      /\ payHistories \subseteq Rows
  BY DEF IInv, TypeOK, JobsInv
<1>2. job[h].named = TRUE
  BY <1>1 DEF JobOK, At, Jobs
<1>3. /\ job[h].order \in everPaid \cap Readable \cap RematchOrders
      /\ job[h].order \in Orders
      /\ History(job[h].order, job[h].user, TRUE) \in payHistories \cap completed
  BY <1>1, <1>2 DEF JobOK, At, WebhookSteps
<1>4. job[h].user \in Users
  BY <1>1, <1>3 DEF History, Rows
<1>. QED  BY <1>3, <1>4

\* The issue of tickets.
LEMMA CreateTicketsStep == ASSUME IInv, NEW h \in Handlers, CreateTickets(h) PROVE IInv'
<1> DEFINE o == job[h].order
           t == [user |-> job[h].user, count |-> Count[o], order |-> o]
           row == History(o, job[h].user, TRUE)
<1>1. /\ o \in Orders /\ row \in payHistories /\ row \in completed
      /\ o \in everPaid \cap Readable \cap RematchOrders
      /\ job[h].user \in Users
  BY Issuing DEF CreateTickets
<1>2. t \in Insertions /\ t.order = o /\ row = History(t.order, t.user, TRUE)
  BY <1>1 DEF Insertions
<1>3. /\ tickets' = tickets \/ tickets' = Append(tickets, t)
      /\ job' = [job EXCEPT ![h] = Idle]
      /\ UNCHANGED <<portone, payHistories, completed, delivered, bounds>>
  BY DEF CreateTickets, Finish
<1> HIDE DEF o, t, row
<1>4. /\ tickets' \in Seq(Insertions)
      /\ \A i \in DOMAIN tickets' :
           tickets'[i] = t \/ (i \in DOMAIN tickets /\ tickets'[i] = tickets[i])
  <2>1. tickets \in Seq(Insertions)
    BY DEF IInv, TypeOK
  <2>2. CASE tickets' = tickets
    BY <2>1, <2>2
  <2>3. CASE tickets' = Append(tickets, t)
    BY <1>2, <2>1, <2>3
  <2>. QED  BY <1>3, <2>2, <2>3
<1>5. \A i \in Handlers : job'[i] = job[i] \/ job'[i] = Idle
  BY <1>3 DEF IInv, TypeOK
<1>6. JobsInv'
  BY <1>3, <1>5, IdleFacts, JobsMove DEF IInv, Grows, portone
<1>7. TypeOK'
  <2>1. job' \in [Handlers -> Jobs]
    BY <1>3, IdleFacts DEF IInv, TypeOK
  <2>. QED  BY <1>3, <1>4, <1>6, <2>1 DEF IInv, TypeOK, At, JobsInv, JobOK, portone, bounds
<1>8. PortoneInv'
  BY <1>3 DEF IInv, PortoneInv, portone
<1>9. TicketsArePaid'
  BY <1>1, <1>2, <1>3, <1>4 DEF IInv, TicketsArePaid, portone
<1>. QED  BY <1>6, <1>7, <1>8, <1>9 DEF IInv

LEMMA ContinueStep == ASSUME IInv, NEW h \in Handlers, Continue(h) PROVE IInv'
<1>1. job[h] \in Jobs /\ JobOK(job[h], everPaid, payHistories, completed)
  BY DEF IInv, TypeOK, JobsInv
<1>2. CASE FindHistory(h)
  <2>1. CASE Finish(h)
    BY <1>2, <2>1, FinishStep DEF FindHistory, IInv, TypeOK, bounds
  <2>2. CASE ~ Finish(h)
    <3> DEFINE o == job[h].order
    <3>1. PICK q \in Histories(o) : Take(h, o, q.user, q.named)
      BY <1>2, <2>2 DEF FindHistory, Found
    <3> DEFINE j == Job("getPayment", o, q.user, q.named)
    <3>2. /\ q \in payHistories /\ q \in Rows /\ q.order = o
          /\ o \in Orders /\ o \in everPaid
          /\ job' = [job EXCEPT ![h] = j]
          /\ UNCHANGED <<portone, tables, delivered, bounds>>
      BY <1>1, <1>2, <3>1 DEF FindHistory, Histories, Take, At, JobOK, WebhookSteps,
                              IInv, TypeOK
    <3>3. History(o, q.user, q.named) = q
      BY <3>2 DEF History, Rows
    <3>4. j \in Jobs /\ JobOK(j, everPaid, payHistories, completed)
      BY <3>2, <3>3 DEF Job, Jobs, Rows, Steps, WebhookSteps, JobOK
    <3>. QED  BY <3>2, <3>4, SilentStep
              DEF Silent, Grows, tables, portone, bounds, IInv, TypeOK
  <2>. QED  BY <2>1, <2>2
<1>3. CASE GetPayment(h) \/ ConfirmFind(h)
  <2>1. UNCHANGED <<portone, tables, delivered, bounds>> /\ ~ At(h, "idle")
    BY <1>3 DEF GetPayment, ConfirmFind, At
  <2>2. CASE Finish(h)
    BY <2>1, <2>2, FinishStep DEF IInv, TypeOK, bounds
  <2>3. CASE ~ Finish(h)
    <3>1. PICK s \in {"updateHistory", "confirmGet"} :
            /\ Goto(h, s)
            /\ s = "updateHistory" =>
                 At(h, "getPayment") /\ job[h].order \in Readable /\ job[h].named
      BY <1>3, <2>3 DEF GetPayment, ConfirmFind
    <3>2. Silent /\ Grows /\ UNCHANGED <<payHistories, completed, delivered, bounds>>
      BY <2>1 DEF Silent, Grows, tables, portone
    <3>3. completed' \subseteq Rows /\ s \in Steps
      BY <3>1, <3>2 DEF IInv, TypeOK, Steps, WebhookSteps
    <3>. QED  BY <2>1, <3>1, <3>2, <3>3, GotoStep DEF At, WebhookSteps
  <2>. QED  BY <2>2, <2>3
<1>4. CASE UpdateHistory(h)
  <2>1. /\ job[h].step = "updateHistory" /\ job[h].order \in Orders \cap Readable
        /\ completed' = completed \cup Histories(job[h].order) /\ job[h].named
        /\ UNCHANGED <<portone, payHistories, tickets, delivered, bounds>>
    BY <1>1, <1>4 DEF UpdateHistory, At, JobOK, WebhookSteps
  <2>2. Silent /\ Grows /\ completed' \subseteq Rows
    BY <2>1 DEF Silent, Grows, portone, IInv, TypeOK, Histories
  <2>5. History(job[h].order, job[h].user, TRUE) \in completed'
    <3>1. History(job[h].order, job[h].user, job[h].named) \in payHistories
      BY <1>1, <2>1 DEF JobOK, WebhookSteps
    <3>2. job[h].named = TRUE
      BY <1>1, <2>1 DEF Jobs
    <3>. QED  BY <2>1, <3>1, <3>2 DEF Histories, History
  <2>3. CASE Finish(h)
    BY <2>1, <2>2, <2>3, IdleFacts, SilentStep DEF Finish, IInv, TypeOK, bounds
  <2>4. CASE Goto(h, "createTickets") /\ job[h].order \in RematchOrders
    BY <2>1, <2>2, <2>4, <2>5, GotoStep DEF Steps, WebhookSteps, At
  <2>. QED  BY <1>4, <2>3, <2>4 DEF UpdateHistory
<1>5. CASE CreateTickets(h)
  BY <1>5, CreateTicketsStep
<1>6. CASE ConfirmGet(h)
  BY <1>1, <1>6, FinishStep DEF ConfirmGet, At, JobOK, IInv, TypeOK, bounds
<1>. QED  BY <1>2, <1>3, <1>4, <1>5, <1>6 DEF Continue

LEMMA Inductive == IInv /\ [Next]_vars => IInv'
<1> SUFFICES ASSUME IInv, [Next]_vars PROVE IInv'
  OBVIOUS
<1>1. CASE Environment
  BY <1>1, EnvironmentStep
<1>2. ASSUME NEW h \in Handlers, Request(h) \/ Continue(h) PROVE IInv'
  BY <1>2, RequestStep, ContinueStep
<1>3. ASSUME NEW h \in Handlers, CallFails(h) PROVE IInv'
  BY <1>3, FinishStep DEF CallFails, IInv, TypeOK
<1>4. CASE UNCHANGED vars
  <2>. USE <1>4 DEF vars, portone, tables, bounds
  <2>1. TypeOK' /\ PortoneInv'
    BY DEF IInv, TypeOK, PortoneInv, At
  <2>2. JobsInv' /\ TicketsArePaid'
    BY DEF IInv, JobsInv, TicketsArePaid
  <2>. QED  BY <2>1, <2>2 DEF IInv
<1>. QED  BY <1>1, <1>2, <1>3, <1>4 DEF Next

-----------------------------------------------------------------------------
\* The inductive invariant holds of every behaviour of pay.service.ts.
THEOREM Invariance == Spec => []IInv
  BY InitInv, Inductive, PTL DEF Spec

\* Every reachable state is type-correct.
THEOREM TypeCorrect == Spec => []TypeOK
<1>1. IInv => TypeOK
  BY DEF IInv
<1>. QED  BY <1>1, Invariance, PTL

\* No order, repetition or failure of requests issues tickets that were not
\* paid and of the ticket product, or to anybody without a completed history of the
\* order under its name, whoever records which orders.
THEOREM OnlyPaidGetTickets == Spec => []TicketsArePaid
<1>1. IInv => TicketsArePaid
  BY DEF IInv
<1>. QED  BY <1>1, Invariance, PTL

-----------------------------------------------------------------------------
(***************************************************************************)
(* Refinement of PaidFulfilment.                                           *)
(***************************************************************************)
LEMMA StepKinds ==
  ASSUME IInv, [Next]_vars
  PROVE  \/ Environment
         \/ \E h \in Handlers : CreateTickets(h)
         \/ Silent
<1> USE DEF Silent, portone, tables
<1>1. ASSUME NEW h \in Handlers, Request(h) \/ CallFails(h) PROVE Silent
  BY <1>1 DEF Request, ReceiveWebhook, ReceiveConfirm, Accept, CallFails
<1>2. ASSUME NEW h \in Handlers, Continue(h), ~ CreateTickets(h) PROVE Silent
  BY <1>2 DEF Continue, FindHistory, GetPayment, UpdateHistory, ConfirmFind, ConfirmGet
<1>3. CASE UNCHANGED vars
  BY <1>3 DEF vars
<1>. QED  BY <1>1, <1>2, <1>3 DEF Next

LEMMA AppendFacts ==
  ASSUME NEW S, NEW s \in Seq(S), NEW e \in S
  PROVE  /\ DOMAIN Append(s, e) = DOMAIN s \cup {Len(s) + 1}
         /\ Len(s) + 1 \notin DOMAIN s
         /\ Append(s, e)[Len(s) + 1] = e
         /\ \A i \in DOMAIN s : Append(s, e)[i] = s[i]
  OBVIOUS

\* The ticket flow keeps the promise of PaidFulfilment.
THEOREM Fulfilment == Spec => FulfilsOnlyPaid
<1>1. Init => Promise!Init
  BY DEF Init, Promise!Init, Receipts
<1>2. IInv /\ [Next]_vars => [Promise!Next]_(Promise!vars)
  <2> SUFFICES ASSUME IInv, [Next]_vars, ~ UNCHANGED Promise!vars
               PROVE  Promise!Next
    OBVIOUS
  <2>1. CASE Environment
    <3>1. PICK o \in Orders : \/ \E u \in Users, named \in BOOLEAN : CreateHistory(o, u, named)
                              \/ Pay(o) \/ Decline(o) \/ Cancel(o)
      BY <2>1 DEF Environment
    <3>2. Receipts' = Receipts
      BY <3>1 DEF CreateHistory, Pay, Decline, Cancel, Settle, Receipts, tables
    <3>3. everPaid' = everPaid \/ everPaid' = everPaid \cup {o}
      BY <3>1 DEF CreateHistory, Pay, Decline, Cancel, Settle, portone
    <3>. QED  BY <3>2, <3>3 DEF Promise!Next, Promise!TakeMoney, Promise!vars
  <2>2. CASE \E h \in Handlers : CreateTickets(h)
    <3>1. PICK h \in Handlers : CreateTickets(h)
      BY <2>2
    <3> DEFINE o == job[h].order
               t == [user |-> job[h].user, count |-> Count[o], order |-> o]
               n == Len(tickets) + 1
               r == [no |-> n, order |-> o]
    <3>2. /\ o \in everPaid /\ o \in Orders /\ t \in Insertions
      BY <3>1, Issuing DEF CreateTickets, Insertions
    <3>3. /\ tickets' = tickets \/ tickets' = Append(tickets, t)
          /\ everPaid' = everPaid
      BY <3>1 DEF CreateTickets, portone
    <3>4. CASE tickets' = tickets
      BY <3>3, <3>4 DEF Receipts, Promise!vars
    <3>5. CASE tickets' = Append(tickets, t)
      <4>1. /\ DOMAIN tickets' = DOMAIN tickets \cup {n} /\ n \notin DOMAIN tickets
            /\ tickets'[n] = t
            /\ \A i \in DOMAIN tickets : tickets'[i] = tickets[i]
        BY <3>2, <3>5, AppendFacts DEF IInv, TypeOK
      <4>2. t.order = o
        OBVIOUS
      <4> HIDE DEF t, n, o
      <4>3. Receipts' = Receipts \cup {r}
        BY <4>1, <4>2 DEF Receipts
      <4>4. \A q \in Receipts : q.no # r.no
        BY <4>1 DEF Receipts
      <4>5. r \in Receipts' \ Receipts /\ r.order = o
        BY <4>3, <4>4
      <4>6. Promise!Fulfil(o)
        BY <3>2, <3>3, <4>3, <4>4, <4>5 DEF Promise!Fulfil
      <4>. QED  BY <3>2, <4>6 DEF Promise!Next
    <3>. QED  BY <3>3, <3>4, <3>5
  <2>3. CASE Silent
    BY <2>3 DEF Silent, Promise!vars, Receipts, portone
  <2>. QED  BY <2>1, <2>2, <2>3, StepKinds
<1>. QED  BY <1>1, <1>2, Invariance, PTL DEF Spec, FulfilsOnlyPaid, Promise!Spec
-----------------------------------------------------------------------------
(***************************************************************************)
(* Counting the issues of an order.  An insertion takes its handler from   *)
(* the webhooks under way, so the sum grows with a delivery only.          *)
(***************************************************************************)
Counted(o) ==
  /\ IsFiniteSet(Issues(o)) /\ IsFiniteSet(Pending(o))
  /\ Cardinality(Issues(o)) + Cardinality(Pending(o)) <= delivered[o]

CountInv == \A o \in Orders : Counted(o)

\* Of an order, nothing is issued and no webhook is added to those under way.
LEMMA FewerPending ==
  ASSUME NEW o \in Orders, Counted(o), UNCHANGED <<tickets, delivered>>,
         Pending(o)' \subseteq Pending(o), delivered \in [Orders -> Nat]
  PROVE  Counted(o)'
<1>1. Issues(o)' = Issues(o)
  BY DEF Issues
<1>2. /\ IsFiniteSet(Pending(o)')
      /\ Cardinality(Pending(o)') <= Cardinality(Pending(o))
  BY FS_Subset DEF Counted
<1>3. /\ Cardinality(Issues(o)) \in Nat /\ Cardinality(Pending(o)) \in Nat
      /\ Cardinality(Pending(o)') \in Nat /\ delivered[o] \in Nat
  BY <1>2, FS_CardinalityType DEF Counted
<1>. QED  BY <1>1, <1>2, <1>3 DEF Counted

\* The step of one handler that neither issues anything nor takes up a webhook.
MovesOn(h, j) ==
  /\ job' = [job EXCEPT ![h] = j]
  /\ j.step \in WebhookSteps => job[h].step \in WebhookSteps /\ j.order = job[h].order

LEMMA CountQuiet ==
  ASSUME IInv, CountInv, NEW h \in Handlers, NEW j,
         MovesOn(h, j), UNCHANGED <<tickets, delivered>>
  PROVE  CountInv'
<1> USE DEF MovesOn
<1>1. \A i \in Handlers : job'[i] = IF i = h THEN j ELSE job[i]
  BY DEF IInv, TypeOK
<1>2. \A o \in Orders : Pending(o)' \subseteq Pending(o)
  BY <1>1 DEF Pending
<1>. QED  BY <1>2, FewerPending DEF CountInv, IInv, TypeOK

LEMMA CountReceive ==
  ASSUME IInv, CountInv, NEW h \in Handlers, NEW o \in Orders, ReceiveWebhook(h, o, "PAID")
  PROVE  CountInv'
<1>1. /\ job' = [job EXCEPT ![h] = Job("findHistory", o, NoUser, FALSE)]
      /\ delivered' = [delivered EXCEPT ![o] = @ + 1]
      /\ UNCHANGED tickets /\ job[h].step = "idle"
  BY DEF ReceiveWebhook, Accept, At, tables
<1>2. \A i \in Handlers : job'[i] = IF i = h THEN Job("findHistory", o, NoUser, FALSE) ELSE job[i]
  BY <1>1 DEF IInv, TypeOK
<1>3. Pending(o)' = Pending(o) \cup {h} /\ h \notin Pending(o)
  BY <1>1, <1>2 DEF Pending, Job, WebhookSteps
<1>4. \A p \in Orders \ {o} : Pending(p)' = Pending(p)
  BY <1>1, <1>2 DEF Pending, Job, WebhookSteps
<1>5. \A p \in Orders : Issues(p)' = Issues(p)
  BY <1>1 DEF Issues
<1>6. delivered'[o] = delivered[o] + 1 /\ delivered[o] \in Nat
      /\ \A p \in Orders \ {o} : delivered'[p] = delivered[p]
  BY <1>1 DEF IInv, TypeOK
<1>7. Counted(o)'
  <2>1. IsFiniteSet(Pending(o)') /\ Cardinality(Pending(o)') = Cardinality(Pending(o)) + 1
    BY <1>3, FS_AddElement DEF CountInv, Counted
  <2>2. Cardinality(Issues(o)) \in Nat /\ Cardinality(Pending(o)) \in Nat
    BY FS_CardinalityType DEF CountInv, Counted
  <2>3. Cardinality(Issues(o)) + Cardinality(Pending(o)) <= delivered[o]
    BY DEF CountInv, Counted
  <2>. QED  BY <1>5, <1>6, <2>1, <2>2, <2>3 DEF CountInv, Counted
<1>8. \A p \in Orders \ {o} : Counted(p)'
  BY <1>4, <1>5, <1>6 DEF CountInv, Counted
<1>. QED  BY <1>7, <1>8 DEF CountInv

LEMMA CountCreate ==
  ASSUME IInv, CountInv, NEW h \in Handlers, CreateTickets(h)
  PROVE  CountInv'
<1>a. PICK o \in Orders, u \in Users : o = job[h].order /\ u = job[h].user
  BY Issuing DEF CreateTickets
<1> DEFINE t == [user |-> u, count |-> Count[o], order |-> o]
<1>1. /\ h \in Pending(o) /\ t \in Insertions /\ t.order = o
      /\ job' = [job EXCEPT ![h] = Idle] /\ UNCHANGED delivered
      /\ tickets' = tickets \/ tickets' = Append(tickets, t)
  BY <1>a DEF CreateTickets, At, WebhookSteps, Pending, Insertions, Finish
<1> HIDE DEF t
<1>2. \A i \in Handlers : job'[i] = IF i = h THEN Idle ELSE job[i]
  BY <1>1 DEF IInv, TypeOK
<1>3. \A p \in Orders : Pending(p)' = Pending(p) \ {h}
  BY <1>2, IdleFacts DEF Pending, WebhookSteps
<1>4. \A p \in Orders \ {o} : h \notin Pending(p)
  BY <1>1 DEF Pending
<1>5. CASE tickets' = tickets
  BY <1>1, <1>3, <1>5, FewerPending DEF CountInv, IInv, TypeOK
<1>6. CASE tickets' = Append(tickets, t)
  <2>a. PICK n : n = Len(tickets) + 1
    OBVIOUS
  <2>1. /\ DOMAIN tickets' = DOMAIN tickets \cup {n} /\ n \notin DOMAIN tickets
        /\ tickets'[n] = t
        /\ \A i \in DOMAIN tickets : tickets'[i] = tickets[i]
    BY <2>a, <1>1, <1>6, AppendFacts DEF IInv, TypeOK
  <2>2. Issues(o)' = Issues(o) \cup {n} /\ n \notin Issues(o)
    BY <1>1, <2>1 DEF Issues
  <2>3. \A p \in Orders \ {o} : Issues(p)' = Issues(p)
    BY <1>1, <2>1 DEF Issues
  <2>4. Counted(o)'
    <3>1. IsFiniteSet(Issues(o)') /\ Cardinality(Issues(o)') = Cardinality(Issues(o)) + 1
      BY <1>1, <2>2, FS_AddElement DEF CountInv, Counted
    <3>2. /\ IsFiniteSet(Pending(o)')
          /\ Cardinality(Pending(o)') = Cardinality(Pending(o)) - 1
      BY <1>1, <1>3, FS_RemoveElement DEF CountInv, Counted
    <3>3. Cardinality(Issues(o)) \in Nat /\ Cardinality(Pending(o)) \in Nat
      BY <1>1, FS_CardinalityType DEF CountInv, Counted
    <3>4. Cardinality(Issues(o)) + Cardinality(Pending(o)) <= delivered[o]
      BY <1>1 DEF CountInv, Counted
    <3>5. delivered[o] \in Nat /\ delivered'[o] = delivered[o]
      BY <1>1 DEF IInv, TypeOK
    <3>. QED  BY <3>1, <3>2, <3>3, <3>4, <3>5 DEF Counted
  <2>5. \A p \in Orders \ {o} : Counted(p)'
    <3>1. ASSUME NEW p \in Orders \ {o} PROVE Pending(p)' = Pending(p)
      <4>1. Pending(p)' = Pending(p) \ {h} /\ h \notin Pending(p)
        BY <1>3, <1>4
      <4>. QED  BY <4>1
    <3>. QED  BY <1>1, <2>3, <3>1 DEF CountInv, Counted
  <2>. QED  BY <1>1, <2>4, <2>5 DEF CountInv
<1>. QED  BY <1>1, <1>5, <1>6

LEMMA CountNext == IInv /\ CountInv /\ [Next]_vars => CountInv'
<1> SUFFICES ASSUME IInv, CountInv, [Next]_vars PROVE CountInv'
  OBVIOUS
<1>1. CASE Environment \/ UNCHANGED vars
  <2>1. UNCHANGED <<tickets, delivered, job>>
    BY <1>1 DEF Environment, CreateHistory, Pay, Decline, Cancel, Settle, vars, tables
  <2>. QED  BY <2>1 DEF CountInv, Counted, Issues, Pending
<1>2. ASSUME NEW h \in Handlers, Request(h) PROVE CountInv'
  <2>1. ASSUME NEW o \in Orders, NEW status \in Statuses, ReceiveWebhook(h, o, status)
        PROVE  CountInv'
    <3>1. CASE status = "PAID"
      BY <2>1, <3>1, CountReceive
    <3>2. CASE status # "PAID"
      BY <2>1, <3>2, CountQuiet DEF MovesOn, ReceiveWebhook, Accept, tables, Job, WebhookSteps
    <3>. QED  BY <3>1, <3>2
  <2>2. ASSUME NEW u \in Users, NEW o \in Orders, ReceiveConfirm(h, u, o) PROVE CountInv'
    BY <2>2, CountQuiet DEF MovesOn, ReceiveConfirm, Accept, tables, Job, WebhookSteps
  <2>. QED  BY <1>2, <2>1, <2>2 DEF Request
<1>3. ASSUME NEW h \in Handlers, CreateTickets(h) PROVE CountInv'
  BY <1>3, CountCreate
<1>4. ASSUME NEW h \in Handlers, CallFails(h) \/ (Continue(h) /\ ~ CreateTickets(h))
      PROVE  CountInv'
  <2>1. UNCHANGED <<tickets, delivered>>
    BY <1>4 DEF CallFails, Continue, FindHistory, GetPayment, UpdateHistory, ConfirmFind,
                ConfirmGet, tables
  <2>2. job[h] \in Jobs
    BY DEF IInv, TypeOK
  <2>3. PICK j : MovesOn(h, j)
    <3>1. CASE Finish(h)
      BY <3>1, IdleFacts DEF Finish, WebhookSteps, MovesOn
    <3>2. CASE FindHistory(h) /\ ~ Finish(h)
      <4>1. PICK q : /\ job[h].step = "findHistory"
                     /\ job' = [job EXCEPT ![h] = Job("getPayment", job[h].order, q.user, q.named)]
        BY <3>2 DEF FindHistory, Take, At
      <4>2. Job("getPayment", job[h].order, q.user, q.named).order = job[h].order
        BY DEF Job
      <4>3. job[h].step \in WebhookSteps
        BY <4>1 DEF WebhookSteps
      <4>. QED  BY <4>1, <4>2, <4>3 DEF MovesOn
    <3>3. CASE ~ Finish(h) /\ ~ FindHistory(h)
      <4>1. PICK s \in Steps : /\ Goto(h, s)
                               /\ s \in WebhookSteps => job[h].step \in WebhookSteps
        BY <1>4, <3>3 DEF CallFails, Continue, GetPayment, UpdateHistory, ConfirmFind,
                          ConfirmGet, At, Steps, WebhookSteps
      <4> DEFINE j == [job[h] EXCEPT !.step = s]
      <4>2. j.step = s /\ j.order = job[h].order
        BY <2>2 DEF Jobs
      <4>3. job' = [job EXCEPT ![h] = j]
        BY <4>1 DEF Goto
      <4> HIDE DEF j
      <4>4. MovesOn(h, j)
        BY <4>1, <4>2, <4>3 DEF MovesOn
      <4>. QED  BY <4>4
    <3>. QED  BY <3>1, <3>2, <3>3
  <2>. QED  BY <2>1, <2>3, CountQuiet
<1>. QED  BY <1>1, <1>2, <1>3, <1>4 DEF Next

LEMMA CountInit == Init => CountInv
<1> SUFFICES ASSUME Init PROVE CountInv
  OBVIOUS
<1>1. \A o \in Orders : Issues(o) = {} /\ Pending(o) = {} /\ delivered[o] = 0
  BY IdleFacts DEF Init, Issues, Pending, WebhookSteps
<1>2. Cardinality({}) = 0 /\ IsFiniteSet({})
  BY FS_EmptySet
<1>. QED  BY <1>1, <1>2 DEF CountInv, Counted

\* However often PortOne repeats a webhook and however its handlers interleave,
\* each delivery issues the tickets of its order once at most.
THEOREM OneIssueEach == Spec => []OneIssuePerDelivery
<1>1. IInv /\ CountInv => OneIssuePerDelivery
  BY DEF CountInv, Counted, OneIssuePerDelivery
<1>. QED  BY <1>1, InitInv, CountInit, Inductive, CountNext, PTL DEF Spec
=============================================================================
