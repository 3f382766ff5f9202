--------------------------- MODULE GemChargeProofs ---------------------------
(***************************************************************************)
(* Theorems about GemCharge, for every choice of its constants.            *)
(***************************************************************************)
EXTENDS GemCharge, TLAPS

USE GemsAssumption, CatalogueAssumption, ConsumeAssumption,
    RowsAssumption, NoneAssumption

\* A job made by Job is well typed when its fields are.
LEMMA JobType ==
  ASSUME NEW step \in Steps, NEW kind \in Kinds, NEW o \in Orders \cup {NoOrder},
         NEW u \in Users \cup {NoUser}, NEW n \in Nat
  PROVE  Job(step, kind, o, u, n) \in Jobs
  BY DEF Job, Jobs, NoGems, Gems

LEMMA IdleType == Idle \in Jobs
  BY JobType DEF Idle, Steps, Kinds

\* The plumbing keeps job well typed.
LEMMA PlumbingType ==
  ASSUME job \in [Handlers -> Jobs], NEW h \in Handlers
  PROVE  /\ \A step \in Steps : Goto(h, step) => job' \in [Handlers -> Jobs]
         /\ Finish(h) => job' \in [Handlers -> Jobs]
         /\ Reject(h) => job' \in [Handlers -> Jobs]
<1>1. \A step \in Steps : Goto(h, step) => job' \in [Handlers -> Jobs]
  BY DEF Goto, Jobs
<1>2. Finish(h) => job' \in [Handlers -> Jobs]
  BY IdleType DEF Finish
<1>3. Reject(h) => job' \in [Handlers -> Jobs]
  BY <1>2, IdleType DEF Reject
<1>. QED  BY <1>1, <1>2, <1>3

\* A column that Trans computes from integers is an integer.
LEMMA TransType ==
  ASSUME NEW kind, NEW n \in Nat, NEW target \in Int
  PROVE  Trans(kind, n, target) \in Int
  BY DEF Trans

-----------------------------------------------------------------------------
(***************************************************************************)
(* The inductive invariant.  JobOK says what a handler has established by  *)
(* the step it is at, in terms of what PortOne and the tables hold; it is  *)
(* a constant operator, so that its monotonicity is a fact about values.   *)
(***************************************************************************)
WebhookFlow == {"getPayment", "findHistory"}
TransactionFlow == {"checkRow", "insertRow", "select", "write"}

JobOK(j, paid, recorded, owners, log) ==
  /\ j.step \in WebhookFlow => j.kind = "webhook" /\ j.order \in paid
  /\ j.step \in TransactionFlow =>
       /\ j.user \in Users
       /\ j.kind \in {"webhook", "consume"}
       /\ j.kind = "webhook" => /\ j.order \in paid
                                /\ <<j.order, j.user>> \in recorded
                                /\ j.amount = TotalGems[j.order]
       /\ j.kind = "consume" => j.order = NoOrder
  /\ j.step \in {"select", "write"} => j.user \in owners
  /\ j.step = "write" => /\ j.gems.balance = j.gems.charged
                         /\ Explained(j.gems.balance, log)
  /\ j.step \in {"confirmPayment", "confirmInsert"} =>
       j.kind = "confirm" /\ j.user \in Users /\ j.order \in Orders
  /\ j.step = "confirmInsert" =>
       j.order \in paid /\ <<j.order, j.user>> \in recorded

JobsInv ==
  \A h \in Handlers : JobOK(job[h], everPaid, payHistories, rows, gemTransactions)

\* PortOne reports PAID only of orders it has been paid.
PortoneInv ==
  /\ \A o \in Orders : payment[o] = "PAID" => o \in everPaid
  /\ \A o \in Orders : <<o, "PAID">> \in sent => o \in everPaid

\* The two written columns agree, the third is never written; a user without a
\* row counts as one of zeros.
ColumnsInv ==
  \A u \in Users : /\ gemBalance[u] = totalCharged[u] /\ totalConsumed[u] = 0
                   /\ u \notin rows => gemBalance[u] = 0

IInv ==
  /\ TypeOK
  /\ PortoneInv
  /\ JobsInv
  /\ ColumnsInv
  /\ ChargesArePaid
  /\ LedgerExplainsBalance
  /\ PaymentsAreRecorded

-----------------------------------------------------------------------------
LEMMA InitInv == Init => IInv
<1> SUFFICES ASSUME Init PROVE IInv
  OBVIOUS
<1> USE DEF Init
<1>1. TypeOK
  BY IdleType DEF TypeOK, Statuses
<1>2. PortoneInv
  BY DEF PortoneInv
<1>3. JobsInv
  BY DEF JobsInv, JobOK, Idle, Job, WebhookFlow, TransactionFlow
<1>4. ColumnsInv
  BY DEF ColumnsInv
<1>5. ChargesArePaid /\ LedgerExplainsBalance /\ PaymentsAreRecorded
  BY DEF ChargesArePaid, LedgerExplainsBalance, PaymentsAreRecorded, Explained
<1>. QED  BY <1>1, <1>2, <1>3, <1>4, <1>5 DEF IInv

-----------------------------------------------------------------------------
(***************************************************************************)
(* How job steps keep JobsInv.                                             *)
(***************************************************************************)
Grows ==
  /\ everPaid \subseteq everPaid'
  /\ payHistories \subseteq payHistories'
  /\ rows \subseteq rows'
  /\ \A i \in DOMAIN gemTransactions :
       i \in DOMAIN gemTransactions' /\ gemTransactions'[i] = gemTransactions[i]

\* What a handler has established stays established as the tables grow.
LEMMA JobOKMonotone ==
  ASSUME NEW j, NEW p1, NEW r1, NEW w1, NEW l1, NEW p2, NEW r2, NEW w2, NEW l2,
         JobOK(j, p1, r1, w1, l1),
         p1 \subseteq p2, r1 \subseteq r2, w1 \subseteq w2,
         \A i \in DOMAIN l1 : i \in DOMAIN l2 /\ l2[i] = l1[i]
  PROVE  JobOK(j, p2, r2, w2, l2)
<1>1. ASSUME NEW b, Explained(b, l1) PROVE Explained(b, l2)
  BY <1>1 DEF Explained
<1>. QED  BY <1>1 DEF JobOK

LEMMA IdleOK ==
  ASSUME NEW p, NEW r, NEW w, NEW l PROVE JobOK(Idle, p, r, w, l)
  BY DEF JobOK, Idle, Job, WebhookFlow, TransactionFlow

\* A step of one handler, or of none, keeps JobsInv when the new job is in order.
LEMMA OneJobMoves ==
  ASSUME JobsInv, Grows, job \in [Handlers -> Jobs], NEW h \in Handlers,
         JobOK(job'[h], everPaid', payHistories', rows', gemTransactions'),
         \A i \in Handlers : i # h => job'[i] = job[i]
  PROVE  JobsInv'
<1> SUFFICES ASSUME NEW i \in Handlers
             PROVE  JobOK(job'[i], everPaid', payHistories', rows', gemTransactions')
  BY DEF JobsInv
<1>1. CASE i = h
  BY <1>1
<1>2. CASE i # h
  <2>1. JobOK(job[i], everPaid, payHistories, rows, gemTransactions)
    BY DEF JobsInv
  <2>. QED  BY <1>2, <2>1, JobOKMonotone DEF Grows
<1>. QED  BY <1>1, <1>2

\* Jobs that stay or become idle keep JobsInv.
LEMMA JobsStayOrEnd ==
  ASSUME JobsInv, Grows, \A i \in Handlers : job'[i] = job[i] \/ job'[i] = Idle
  PROVE  JobsInv'
<1> SUFFICES ASSUME NEW i \in Handlers
             PROVE  JobOK(job'[i], everPaid', payHistories', rows', gemTransactions')
  BY DEF JobsInv
<1>1. JobOK(job[i], everPaid', payHistories', rows', gemTransactions')
  <2>1. JobOK(job[i], everPaid, payHistories, rows, gemTransactions)
    BY DEF JobsInv
  <2>. QED  BY <2>1, JobOKMonotone DEF Grows
<1>. QED  BY <1>1, IdleOK

LEMMA EndsKeepJobs ==
  ASSUME JobsInv, Grows, job \in [Handlers -> Jobs], NEW h \in Handlers,
         Finish(h) \/ Reject(h)
  PROVE  JobsInv'
<1>1. \A i \in Handlers : job'[i] = job[i] \/ job'[i] = Idle
  BY DEF Finish, Reject
<1>. QED  BY <1>1, JobsStayOrEnd

\* Steps that move nothing but jobs and bounds.
Still == UNCHANGED <<portone, payHistories, tables, gemTransactions, gemPayments>>

LEMMA StillGrows == Still => Grows
  BY DEF Still, Grows, portone, tables

LEMMA StillInv ==
  ASSUME IInv, Still, job' \in [Handlers -> Jobs], JobsInv',
         requests' \in Nat, failures' \in Nat
  PROVE  IInv'
<1> USE DEF IInv, Still, portone, tables
<1>1. TypeOK'
  BY DEF TypeOK
<1>2. PortoneInv'
  BY DEF PortoneInv
<1>3. ColumnsInv'
  BY DEF ColumnsInv
<1>4. ChargesArePaid' /\ PaymentsAreRecorded'
  BY DEF ChargesArePaid, PaymentsAreRecorded, Recorders
<1>5. LedgerExplainsBalance'
  BY DEF LedgerExplainsBalance, Explained
<1>. QED  BY <1>1, <1>2, <1>3, <1>4, <1>5

-----------------------------------------------------------------------------
(***************************************************************************)
(* The steps, one lemma for each group of actions.                         *)
(***************************************************************************)
LEMMA EnvironmentStep == ASSUME IInv, Environment PROVE IInv'
<1> USE DEF IInv
<1>1. PICK o \in Orders : \/ \E u \in Users : CreateHistory(o, u)
                          \/ Pay(o) \/ Decline(o) \/ Cancel(o)
  BY DEF Environment
<1>2. Grows /\ job' = job /\ UNCHANGED <<rows, gemBalance, totalCharged,
        totalConsumed, gemTransactions, gemPayments, requests, failures>>
  BY <1>1 DEF Grows, CreateHistory, Pay, Decline, Cancel, Settle, portone,
              tables, bounds
<1>3. TypeOK'
  <2>1. CASE \E u \in Users : CreateHistory(o, u)
    BY <1>2, <2>1 DEF TypeOK, CreateHistory, portone
  <2>2. CASE \E from, to \in Statuses : Settle(o, from, to)
    <3>1. PICK to \in Statuses : \E from \in Statuses : Settle(o, from, to)
      BY <2>2
    <3>2. /\ payment' \in [Orders -> Statuses] /\ everPaid' \subseteq Orders
          /\ sent' \subseteq Orders \X Statuses /\ payHistories' = payHistories
      BY <3>1 DEF TypeOK, Settle
    <3>. QED  BY <1>2, <3>2 DEF TypeOK
  <2>. QED  BY <1>1, <2>1, <2>2 DEF Pay, Decline, Cancel, Statuses
<1>4. PortoneInv'
  BY <1>1 DEF PortoneInv, TypeOK, CreateHistory, Pay, Decline, Cancel, Settle,
              portone
<1>5. JobsInv'
  BY <1>2, JobsStayOrEnd
<1>6. ColumnsInv'
  BY <1>2 DEF ColumnsInv
<1>7. ChargesArePaid' /\ PaymentsAreRecorded'
  BY <1>2 DEF ChargesArePaid, PaymentsAreRecorded, Recorders, Grows
<1>8. LedgerExplainsBalance'
  BY <1>2 DEF LedgerExplainsBalance, Explained
<1>. QED  BY <1>3, <1>4, <1>5, <1>6, <1>7, <1>8

\* The handler takes up the request whose job is j.
Taken(h, j) ==
  /\ At(h, "idle")
  /\ requests' = requests + 1
  /\ job' = [job EXCEPT ![h] = j]
  /\ UNCHANGED <<portone, payHistories, tables, gemTransactions, gemPayments,
                 failures>>

LEMMA AcceptStep ==
  ASSUME IInv, NEW h \in Handlers, NEW j \in Jobs, Taken(h, j),
         JobOK(j, everPaid, payHistories, rows, gemTransactions)
  PROVE  IInv'
<1> USE DEF IInv
<1>1. Still /\ requests' \in Nat /\ failures' \in Nat
  BY DEF Taken, Still, TypeOK
<1>2. job' \in [Handlers -> Jobs]
  BY DEF Taken, TypeOK
<1>3. JobsInv'
  <2>1. JobOK(job'[h], everPaid', payHistories', rows', gemTransactions')
    BY <1>1 DEF Taken, TypeOK, Still, portone, tables
  <2>2. \A i \in Handlers : i # h => job'[i] = job[i]
    BY DEF Taken, TypeOK
  <2>. QED  BY <1>1, <2>1, <2>2, StillGrows, OneJobMoves DEF TypeOK
<1>. QED  BY <1>1, <1>2, <1>3, StillInv

LEMMA RequestStep ==
  ASSUME IInv, NEW h \in Handlers, Request(h)
  PROVE  IInv'
<1> USE DEF IInv
<1>1. CASE \E o \in Orders, status \in Statuses : ReceiveWebhook(h, o, status)
  <2>1. PICK o \in Orders, status \in Statuses : ReceiveWebhook(h, o, status)
    BY <1>1
  <2>2. CASE status = "PAID"
    <3> DEFINE j == Job("getPayment", "webhook", o, NoUser, 0)
    <3>1. j \in Jobs
      BY JobType DEF Steps, Kinds
    <3>2. JobOK(j, everPaid, payHistories, rows, gemTransactions)
      BY <2>1, <2>2 DEF JobOK, Job, WebhookFlow, TransactionFlow, PortoneInv,
                        ReceiveWebhook
    <3>. QED  BY <2>1, <2>2, <3>1, <3>2, AcceptStep DEF ReceiveWebhook, Accept, Taken
  <2>3. CASE status # "PAID"
    BY <2>1, <2>3, IdleType, IdleOK, AcceptStep DEF ReceiveWebhook, Accept, Taken, Idle
  <2>. QED  BY <2>2, <2>3
<1>2. CASE \E u \in Users, n \in ConsumeAmounts : StartConsume(h, u, n)
  <2>1. PICK u \in Users, n \in ConsumeAmounts : StartConsume(h, u, n)
    BY <1>2
  <2> DEFINE j == Job("checkRow", "consume", NoOrder, u, n)
  <2>2. j \in Jobs
    BY JobType DEF Steps, Kinds
  <2>3. JobOK(j, everPaid, payHistories, rows, gemTransactions)
    BY DEF JobOK, Job, WebhookFlow, TransactionFlow
  <2>. QED  BY <2>1, <2>2, <2>3, AcceptStep DEF StartConsume, Accept, Taken
<1>3. CASE \E u \in Users, o \in Orders : ReceiveConfirm(h, u, o)
  <2>1. PICK u \in Users, o \in Orders : ReceiveConfirm(h, u, o)
    BY <1>3
  <2> DEFINE j == Job("confirmPayment", "confirm", o, u, 0)
  <2>2. j \in Jobs
    BY JobType DEF Steps, Kinds
  <2>3. JobOK(j, everPaid, payHistories, rows, gemTransactions)
    BY DEF JobOK, Job, WebhookFlow, TransactionFlow
  <2>. QED  BY <2>1, <2>2, <2>3, AcceptStep DEF ReceiveConfirm, Accept, Taken
<1>. QED  BY <1>1, <1>2, <1>3 DEF Request

\* A step of the flow that only moves the job, to one that is in order.
LEMMA MoveStep ==
  ASSUME IInv, NEW h \in Handlers, NEW j \in Jobs,
         KeepWorld, UNCHANGED <<tables, gemTransactions, gemPayments>>,
         \/ Finish(h)
         \/ Reject(h)
         \/ /\ job' = [job EXCEPT ![h] = j]
            /\ JobOK(j, everPaid, payHistories, rows, gemTransactions)
  PROVE  IInv'
<1> USE DEF IInv
<1>1. Still /\ requests' \in Nat /\ failures' \in Nat
  BY DEF KeepWorld, Still, TypeOK, bounds
<1>2. job' \in [Handlers -> Jobs]
  BY PlumbingType DEF TypeOK
<1>3. JobsInv'
  <2>1. CASE Finish(h) \/ Reject(h)
    BY <1>1, <2>1, StillGrows, EndsKeepJobs DEF TypeOK
  <2>2. CASE /\ job' = [job EXCEPT ![h] = j]
             /\ JobOK(j, everPaid, payHistories, rows, gemTransactions)
    <3>1. JobOK(job'[h], everPaid', payHistories', rows', gemTransactions')
      BY <1>1, <2>2 DEF TypeOK, Still, portone, tables
    <3>2. \A i \in Handlers : i # h => job'[i] = job[i]
      BY <2>2 DEF TypeOK
    <3>. QED  BY <1>1, <3>1, <3>2, StillGrows, OneJobMoves DEF TypeOK
  <2>. QED  BY <2>1, <2>2
<1>. QED  BY <1>1, <1>2, <1>3, StillInv

LEMMA WebhookSteps ==
  ASSUME IInv, NEW h \in Handlers, GetPayment(h) \/ FindHistory(h)
  PROVE  IInv'
<1> USE DEF IInv
<1>1. job[h] \in Jobs /\ JobOK(job[h], everPaid, payHistories, rows, gemTransactions)
  BY DEF TypeOK, JobsInv
<1>2. CASE GetPayment(h)
  <2> DEFINE j == [job[h] EXCEPT !.step = "findHistory"]
  <2>1. j \in Jobs
    BY <1>1 DEF Jobs, Steps
  <2>2. JobOK(j, everPaid, payHistories, rows, gemTransactions)
    BY <1>1, <1>2 DEF JobOK, Jobs, WebhookFlow, TransactionFlow, GetPayment, At
  <2>3. Goto(h, "findHistory") => job' = [job EXCEPT ![h] = j]
    BY DEF Goto, TypeOK
  <2>. QED  BY <1>2, <2>1, <2>2, <2>3, MoveStep DEF GetPayment
<1>3. CASE FindHistory(h)
  <2> DEFINE o == job[h].order
             j(u) == Job("checkRow", "webhook", o, u, TotalGems[o])
  <2>1. o \in everPaid /\ o \in Orders
    BY <1>1, <1>3 DEF JobOK, WebhookFlow, FindHistory, At, TypeOK
  <2>2. PICK u \in Found(o) :
          IF u # NoUser /\ o \in Catalogue THEN Charge(h, o, u) ELSE Finish(h)
    BY <1>3 DEF FindHistory
  <2>3. CASE Finish(h)
    BY <1>1, <1>3, <2>3, MoveStep DEF FindHistory
  <2>4. CASE u # NoUser /\ Charge(h, o, u)
    <3>1. u \in Users /\ <<o, u>> \in payHistories
      BY <2>2, <2>4 DEF Found, Recorders
    <3>2. j(u) \in Jobs
      BY <2>1, <3>1, JobType DEF Steps, Kinds
    <3>3. JobOK(j(u), everPaid, payHistories, rows, gemTransactions)
      BY <2>1, <3>1 DEF JobOK, Job, WebhookFlow, TransactionFlow
    <3>4. job' = [job EXCEPT ![h] = j(u)]
      BY <2>4 DEF Charge
    <3>. HIDE DEF j
    <3>. QED  BY <1>3, <3>2, <3>3, <3>4, MoveStep DEF FindHistory
  <2>. QED  BY <2>2, <2>3, <2>4
<1>. QED  BY <1>2, <1>3

LEMMA ConfirmSteps ==
  ASSUME IInv, NEW h \in Handlers, ConfirmPayment(h) \/ ConfirmInsert(h)
  PROVE  IInv'
<1> USE DEF IInv
<1>1. job[h] \in Jobs /\ JobOK(job[h], everPaid, payHistories, rows, gemTransactions)
  BY DEF TypeOK, JobsInv
<1>2. CASE ConfirmPayment(h)
  <2> DEFINE o == job[h].order
             j == [job[h] EXCEPT !.step = "confirmInsert"]
             valid == <<o, job[h].user>> \in payHistories /\ payment[o] = "PAID"
  <2>1. j \in Jobs
    BY <1>1 DEF Jobs, Steps
  <2>2. valid => JobOK(j, everPaid, payHistories, rows, gemTransactions)
    BY <1>1, <1>2 DEF JobOK, Jobs, WebhookFlow, TransactionFlow, ConfirmPayment, At,
                      PortoneInv
  <2>3. Goto(h, "confirmInsert") => job' = [job EXCEPT ![h] = j]
    BY DEF Goto, TypeOK
  <2>4. Finish(h) \/ (valid /\ Goto(h, "confirmInsert"))
    <3>1. job[h].user \in Users
      BY <1>1, <1>2 DEF JobOK, ConfirmPayment, At
    <3>. QED  BY <1>2, <3>1 DEF ConfirmPayment, Found, Recorders, Confirmable
  <2>. QED  BY <1>2, <2>1, <2>2, <2>3, <2>4, MoveStep DEF ConfirmPayment
<1>3. CASE ConfirmInsert(h)
  <2> DEFINE p == [user |-> job[h].user, order |-> job[h].order]
  <2>1. /\ p \in Payments
        /\ p.order \in everPaid /\ p.user \in Recorders(p.order)
    BY <1>1, <1>3 DEF JobOK, ConfirmInsert, At, Payments, Recorders
  <2>2. gemPayments' = Append(gemPayments, p) /\ Finish(h) /\ Grows
        /\ UNCHANGED <<portone, payHistories, tables, gemTransactions, bounds>>
    BY <1>3 DEF ConfirmInsert, KeepWorld, Grows, portone, tables
  <2>. HIDE DEF p
  <2>3. job' \in [Handlers -> Jobs] /\ JobsInv'
    BY <2>2, PlumbingType, EndsKeepJobs DEF TypeOK
  <2>4. TypeOK'
    BY <2>1, <2>2, <2>3 DEF TypeOK, portone, tables, bounds
  <2>5. PaymentsAreRecorded'
    <3>1. \A i \in DOMAIN gemPayments' :
            \/ i \in DOMAIN gemPayments /\ gemPayments'[i] = gemPayments[i]
            \/ gemPayments'[i] = p
      <4>1. gemPayments \in Seq(Payments)
        BY DEF TypeOK
      <4>. QED  BY <2>1, <2>2, <4>1, SMTT(30)
    <3>2. everPaid' = everPaid /\ payHistories' = payHistories
      BY <2>2 DEF portone
    <3>. QED  BY <2>1, <3>1, <3>2 DEF PaymentsAreRecorded, Recorders
  <2>6. PortoneInv' /\ ColumnsInv' /\ ChargesArePaid' /\ LedgerExplainsBalance'
    BY <2>2 DEF PortoneInv, ColumnsInv, ChargesArePaid, Recorders,
                LedgerExplainsBalance, Explained, portone, tables
  <2>. QED  BY <2>3, <2>4, <2>5, <2>6
<1>. QED  BY <1>2, <1>3

LEMMA FailureStep ==
  ASSUME IInv, NEW h \in Handlers, CallFails(h)
  PROVE  IInv'
<1> USE DEF IInv
<1>1. Still /\ requests' \in Nat /\ failures' \in Nat /\ Reject(h)
  BY DEF CallFails, Still, TypeOK
<1>2. job' \in [Handlers -> Jobs] /\ JobsInv'
  BY <1>1, PlumbingType, EndsKeepJobs, StillGrows DEF TypeOK
<1>. QED  BY <1>1, <1>2, StillInv

LEMMA RowSteps ==
  ASSUME IInv, NEW h \in Handlers, CheckRow(h) \/ InsertRow(h) \/ InsertRowFails(h)
  PROVE  IInv'
<1> USE DEF IInv
<1>1. job[h] \in Jobs /\ JobOK(job[h], everPaid, payHistories, rows, gemTransactions)
  BY DEF TypeOK, JobsInv
<1>2. CASE CheckRow(h)
  <2> DEFINE next == IF job[h].user \in rows THEN "select" ELSE "insertRow"
             j == [job[h] EXCEPT !.step = next]
  <2>1. j \in Jobs
    BY <1>1 DEF Jobs, Steps
  <2>2. JobOK(j, everPaid, payHistories, rows, gemTransactions)
    BY <1>1, <1>2 DEF JobOK, Jobs, WebhookFlow, TransactionFlow, CheckRow, At
  <2>3. job' = [job EXCEPT ![h] = j]
    BY <1>2 DEF CheckRow, Goto, TypeOK
  <2>. QED  BY <1>2, <2>1, <2>2, <2>3, MoveStep DEF CheckRow
<1>3. CASE InsertRowFails(h)
  BY <1>1, <1>3, MoveStep DEF InsertRowFails
<1>4. CASE InsertRow(h)
  <2> DEFINE j == [job[h] EXCEPT !.step = "select"]
  <2>1. j \in Jobs
    BY <1>1 DEF Jobs, Steps
  <2>2. job[h].user \in Users /\ rows' = rows \cup {job[h].user}
    BY <1>1, <1>4 DEF JobOK, TransactionFlow, InsertRow, At
  <2>3. JobOK(j, everPaid, payHistories, rows', gemTransactions)
    BY <1>1, <1>4, <2>2 DEF JobOK, Jobs, WebhookFlow, TransactionFlow, InsertRow, At
  <2>4. job' = [job EXCEPT ![h] = j]
    BY <1>4 DEF InsertRow, Goto, TypeOK
  <2>5. Grows /\ UNCHANGED <<payment, everPaid, sent, payHistories, gemTransactions,
          gemPayments, requests, failures>>
    BY <1>4 DEF InsertRow, KeepWorld, Grows, portone, bounds
  <2>6. JobsInv'
    <3>1. JobOK(job'[h], everPaid', payHistories', rows', gemTransactions')
      BY <2>3, <2>4, <2>5 DEF TypeOK
    <3>2. \A i \in Handlers : i # h => job'[i] = job[i]
      BY <2>4 DEF TypeOK
    <3>. QED  BY <2>5, <3>1, <3>2, OneJobMoves DEF TypeOK
  <2>7. TypeOK'
    BY <1>4, <2>1, <2>2, <2>4, <2>5 DEF TypeOK, InsertRow
  <2>8. ColumnsInv'
    BY <1>4 DEF ColumnsInv, InsertRow, TypeOK
  <2>9. LedgerExplainsBalance'
    BY <1>4, <2>5 DEF LedgerExplainsBalance, Explained, InsertRow, TypeOK
  <2>10. PortoneInv' /\ ChargesArePaid' /\ PaymentsAreRecorded'
    BY <2>5 DEF PortoneInv, ChargesArePaid, PaymentsAreRecorded, Recorders
  <2>. QED  BY <2>6, <2>7, <2>8, <2>9, <2>10
<1>. QED  BY <1>2, <1>3, <1>4

LEMMA SelectStep ==
  ASSUME IInv, NEW h \in Handlers, SelectGems(h)
  PROVE  IInv'
<1> USE DEF IInv
<1> DEFINE u == job[h].user
           g == [balance |-> gemBalance[u], charged |-> totalCharged[u]]
           j == [job[h] EXCEPT !.step = "write", !.gems = g]
<1>1. job[h] \in Jobs /\ JobOK(job[h], everPaid, payHistories, rows, gemTransactions)
  BY DEF TypeOK, JobsInv
<1>2. u \in Users /\ u \in rows
  BY <1>1 DEF JobOK, TransactionFlow, SelectGems, At
<1>3. g \in Gems
  BY <1>2 DEF Gems, TypeOK
<1>4. g.balance = g.charged /\ Explained(g.balance, gemTransactions)
  BY <1>2 DEF ColumnsInv, LedgerExplainsBalance
<1> HIDE DEF g
<1>5. j \in Jobs
  BY <1>1, <1>3 DEF Jobs, Steps
<1>6. JobOK(j, everPaid, payHistories, rows, gemTransactions)
  BY <1>1, <1>2, <1>4 DEF JobOK, Jobs, WebhookFlow, TransactionFlow, SelectGems, At
<1>7. job' = [job EXCEPT ![h] = j]
  BY <1>2 DEF SelectGems, TypeOK, g
<1> HIDE DEF j
<1>. QED  BY <1>5, <1>6, <1>7, MoveStep DEF SelectGems

LEMMA WriteStep ==
  ASSUME IInv, NEW h \in Handlers, WriteGems(h)
  PROVE  IInv'
<1> USE DEF IInv
<1> DEFINE j == job[h]
           after == Trans(j.kind, j.amount, j.gems.balance)
           t == Row(j, j.gems.balance, after)
<1>1. j \in Jobs /\ JobOK(j, everPaid, payHistories, rows, gemTransactions)
  BY DEF TypeOK, JobsInv
<1>2. At(h, "write") /\ Finish(h) /\ gemTransactions' = Append(gemTransactions, t)
  BY DEF WriteGems, Write
<1>3. /\ j.user \in Users /\ j.gems.balance = j.gems.charged
      /\ Explained(j.gems.balance, gemTransactions)
      /\ j.kind \in {"webhook", "consume"}
      /\ j.kind = "webhook" => /\ j.order \in everPaid
                               /\ j.user \in Recorders(j.order)
                               /\ j.amount = TotalGems[j.order]
  BY <1>1, <1>2 DEF JobOK, TransactionFlow, At, Recorders
<1>4. after \in Int
  BY <1>1, TransType DEF Jobs, Gems
<1>5. t \in Transactions
  BY <1>1, <1>3, <1>4 DEF Row, Transactions, Jobs, Gems
<1>6. /\ gemBalance' = [v \in Users |-> IF v \in rows THEN after ELSE gemBalance[v]]
      /\ totalCharged' = [v \in Users |-> IF v \in rows THEN after ELSE totalCharged[v]]
      /\ UNCHANGED <<payment, everPaid, sent, payHistories, rows, totalConsumed,
                     gemPayments, requests, failures>>
  BY <1>3 DEF WriteGems, Write, UpdatedRows, KeepWorld, portone, bounds
<1>7. /\ t.user = j.user /\ t.kind = j.kind /\ t.gemAmount = j.amount
      /\ t.balanceBefore = j.gems.balance /\ t.balanceAfter = after
      /\ t.order = j.order
  BY DEF Row
<1> HIDE DEF t, after
<1>8. /\ \A i \in DOMAIN gemTransactions :
           i \in DOMAIN gemTransactions' /\ gemTransactions'[i] = gemTransactions[i]
      /\ Len(gemTransactions) + 1 \in DOMAIN gemTransactions'
      /\ gemTransactions'[Len(gemTransactions) + 1] = t
      /\ \A i \in DOMAIN gemTransactions' :
           i \in DOMAIN gemTransactions \/ i = Len(gemTransactions) + 1
      /\ DOMAIN gemTransactions = 1..Len(gemTransactions)
      /\ Len(gemTransactions) \in Nat
  BY <1>2, <1>5 DEF TypeOK
<1>9. Grows
  BY <1>6, <1>8 DEF Grows
<1>10. job' \in [Handlers -> Jobs] /\ JobsInv'
  BY <1>2, <1>9, PlumbingType, EndsKeepJobs DEF TypeOK
<1>11. TypeOK'
  BY <1>2, <1>4, <1>5, <1>6, <1>10 DEF TypeOK
<1>12. ColumnsInv'
  BY <1>6 DEF ColumnsInv, TypeOK
<1>13. ChargesArePaid'
  BY <1>3, <1>6, <1>7, <1>8 DEF ChargesArePaid, Recorders
<1>14. LedgerExplainsBalance'
  <2>1. ASSUME NEW b, Explained(b, gemTransactions)
        PROVE  Explained(b, gemTransactions')
    BY <1>8, <2>1 DEF Explained
  <2>2. Explained(after, gemTransactions')
    BY <1>7, <1>8 DEF Explained
  <2>3. \A u \in Users : Explained(gemBalance[u], gemTransactions)'
    BY <1>6, <2>1, <2>2 DEF LedgerExplainsBalance
  <2>4. ASSUME NEW i \in DOMAIN gemTransactions'
        PROVE  LET before == gemTransactions'[i].balanceBefore
               IN before = 0 \/ \E k \in 1..(i - 1) :
                                  gemTransactions'[k].balanceAfter = before
    <3>1. CASE i \in DOMAIN gemTransactions
      BY <1>8, <3>1 DEF LedgerExplainsBalance
    <3>2. CASE i = Len(gemTransactions) + 1
      BY <1>3, <1>7, <1>8, <3>2 DEF Explained
    <3>. QED  BY <1>8, <3>1, <3>2
  <2>. QED  BY <2>3, <2>4 DEF LedgerExplainsBalance, Explained
<1>15. PortoneInv' /\ PaymentsAreRecorded'
  BY <1>6 DEF PortoneInv, PaymentsAreRecorded, Recorders
<1>. QED  BY <1>10, <1>11, <1>12, <1>13, <1>14, <1>15

-----------------------------------------------------------------------------
\* The invariant is inductive.
LEMMA StepInv == IInv /\ [Next]_vars => IInv'
<1> SUFFICES ASSUME IInv, [Next]_vars PROVE IInv'
  OBVIOUS
<1>1. CASE Environment
  BY <1>1, EnvironmentStep
<1>2. ASSUME NEW h \in Handlers, Request(h) PROVE IInv'
  BY <1>2, RequestStep
<1>3. ASSUME NEW h \in Handlers, Continue(h) PROVE IInv'
  BY <1>3, WebhookSteps, RowSteps, SelectStep, WriteStep, ConfirmSteps DEF Continue
<1>4. ASSUME NEW h \in Handlers, CallFails(h) PROVE IInv'
  BY <1>4, FailureStep
<1>5. CASE UNCHANGED vars
  <2>1. Still /\ job' = job /\ UNCHANGED <<requests, failures>>
    BY <1>5 DEF vars, Still, bounds
  <2>2. JobsInv'
    BY <2>1, StillGrows, JobsStayOrEnd DEF IInv
  <2>. QED  BY <2>1, <2>2, StillInv DEF IInv, TypeOK
<1>. QED  BY <1>1, <1>2, <1>3, <1>4, <1>5 DEF Next

THEOREM Invariance == Spec => []IInv
  BY InitInv, StepInv, PTL DEF Spec

\* Every variable keeps its type.
THEOREM TypeCorrect == Spec => []TypeOK
<1>1. IInv => TypeOK
  BY DEF IInv
<1>. QED  BY <1>1, Invariance, PTL

\* Gems are charged only for an order that was paid, to a user who recorded it and
\* in its product's number, whoever records which orders, and however often.
THEOREM OnlyPaidIsCharged == Spec => []ChargesArePaid
<1>1. IInv => ChargesArePaid
  BY DEF IInv
<1>. QED  BY <1>1, Invariance, PTL

\* The rollback arm of the balance transaction is never taken.
THEOREM NoRollback == Spec => []RowBeforeTransaction
<1>1. IInv => RowBeforeTransaction
  BY DEF IInv, JobsInv, JobOK, RowBeforeTransaction, At
<1>. QED  BY <1>1, Invariance, PTL

\* No interleaving of transactions makes the columns of a row disagree.
THEOREM TotalsAgree == Spec => []BalanceEqualsTotals
<1>1. IInv => BalanceEqualsTotals
  <2> SUFFICES ASSUME IInv, NEW u \in Users
               PROVE  gemBalance[u] = totalCharged[u] - totalConsumed[u]
    BY DEF BalanceEqualsTotals
  <2>1. totalCharged[u] \in Int
    BY DEF IInv, TypeOK
  <2>. QED  BY <2>1 DEF IInv, ColumnsInv
<1>. QED  BY <1>1, Invariance, PTL

\* gem_transactions explains every balance ever held or started from.
THEOREM LedgerComplete == Spec => []LedgerExplainsBalance
<1>1. IInv => LedgerExplainsBalance
  BY DEF IInv
<1>. QED  BY <1>1, Invariance, PTL

\* Only a user who recorded a paid order gets a gem_payments row for it.
THEOREM OnlyRecordersConfirm == Spec => []PaymentsAreRecorded
<1>1. IInv => PaymentsAreRecorded
  BY DEF IInv
<1>. QED  BY <1>1, Invariance, PTL

-----------------------------------------------------------------------------
(***************************************************************************)
(* Action properties and the refinement.                                   *)
(***************************************************************************)

\* Of all steps only WriteGems appends to gem_transactions or changes a balance,
\* and only the environment touches PortOne.
LEMMA StepKinds ==
  ASSUME IInv, [Next]_vars
  PROVE  \/ Environment
         \/ \E h \in Handlers : WriteGems(h)
         \/ UNCHANGED <<portone, gemTransactions, gemBalance>>
<1> USE DEF portone, tables
<1>1. ASSUME NEW h \in Handlers, Request(h)
      PROVE  UNCHANGED <<portone, gemTransactions, gemBalance>>
  BY <1>1 DEF Request, ReceiveWebhook, StartConsume, ReceiveConfirm, Accept
<1>2. ASSUME NEW h \in Handlers, CallFails(h)
      PROVE  UNCHANGED <<portone, gemTransactions, gemBalance>>
  BY <1>2 DEF CallFails
<1>3. ASSUME NEW h \in Handlers, InsertRow(h)
      PROVE  UNCHANGED <<portone, gemTransactions, gemBalance>>
  <2>1. job[h].user \in Users
    BY <1>3 DEF IInv, JobsInv, JobOK, TransactionFlow, InsertRow, At
  <2>2. gemBalance[job[h].user] = 0
    BY <1>3, <2>1 DEF IInv, ColumnsInv, InsertRow
  <2>3. gemBalance' = gemBalance
    BY <1>3, <2>1, <2>2 DEF IInv, TypeOK, InsertRow
  <2>. QED  BY <1>3, <2>3 DEF InsertRow, KeepWorld
<1>4. ASSUME NEW h \in Handlers, Continue(h), ~ WriteGems(h)
      PROVE  UNCHANGED <<portone, gemTransactions, gemBalance>>
  BY <1>3, <1>4 DEF Continue, GetPayment, FindHistory, CheckRow, InsertRowFails,
                    SelectGems, ConfirmPayment, ConfirmInsert, KeepWorld
<1>5. CASE UNCHANGED vars
  BY <1>5 DEF vars
<1>. QED  BY <1>1, <1>2, <1>4, <1>5 DEF Next

\* What WriteGems appends, and to whose name.
LEMMA WriteGemsAppends ==
  ASSUME IInv, NEW h \in Handlers, WriteGems(h)
  PROVE  /\ job[h].user \in rows /\ job[h].user \in Users
         /\ job[h].kind \in {"webhook", "consume"}
         /\ job[h].kind = "webhook" => job[h].order \in everPaid
         /\ job[h].kind = "consume" => job[h].order = NoOrder
         /\ UNCHANGED portone
         /\ \E t \in Transactions :
              /\ t.user = job[h].user /\ t.kind = job[h].kind /\ t.order = job[h].order
              /\ gemTransactions' = Append(gemTransactions, t)
              /\ gemBalance'[t.user] = t.balanceAfter
<1> DEFINE j == job[h]
           after == Trans(j.kind, j.amount, j.gems.balance)
           t == Row(j, j.gems.balance, after)
<1>1. j \in Jobs /\ JobOK(j, everPaid, payHistories, rows, gemTransactions)
  BY DEF IInv, TypeOK, JobsInv
<1>2. /\ j.user \in rows /\ j.user \in Users /\ j.kind \in {"webhook", "consume"}
      /\ j.kind = "webhook" => j.order \in everPaid
      /\ j.kind = "consume" => j.order = NoOrder
  BY <1>1 DEF JobOK, TransactionFlow, WriteGems, Write, At
<1>3. t \in Transactions
  BY <1>1, <1>2, TransType DEF Row, Transactions, Jobs, Gems
<1>4. gemTransactions' = Append(gemTransactions, t) /\ gemBalance'[j.user] = after
  BY <1>2 DEF WriteGems, Write, UpdatedRows
<1>5. t.user = j.user /\ t.kind = j.kind /\ t.order = j.order /\ t.balanceAfter = after
  BY DEF Row
<1>6. UNCHANGED portone
  BY DEF WriteGems, Write, KeepWorld
<1> HIDE DEF t, after
<1>. QED  BY <1>2, <1>3, <1>4, <1>5, <1>6

LEMMA AppendFacts ==
  ASSUME NEW S, NEW s \in Seq(S), NEW e \in S
  PROVE  /\ Len(Append(s, e)) = Len(s) + 1 /\ Len(s) \in Nat
         /\ DOMAIN s = 1..Len(s)
         /\ DOMAIN Append(s, e) = 1..(Len(s) + 1)
         /\ Append(s, e)[Len(s) + 1] = e
         /\ \A i \in DOMAIN s : Append(s, e)[i] = s[i]
  OBVIOUS

\* A balance changes only with the gem_transactions row that accounts for it.
THEOREM BalanceRecorded == Spec => BalanceChangesAreRecorded
<1> DEFINE A == gemBalance' # gemBalance =>
                  /\ Len(gemTransactions') = Len(gemTransactions) + 1
                  /\ LET t == gemTransactions'[Len(gemTransactions')]
                     IN gemBalance'[t.user] = t.balanceAfter
<1>1. IInv /\ [Next]_vars => A
  <2> SUFFICES ASSUME IInv, [Next]_vars PROVE A
    OBVIOUS
  <2>1. CASE Environment
    BY <2>1 DEF Environment, CreateHistory, Pay, Decline, Cancel, Settle, tables
  <2>2. CASE \E h \in Handlers : WriteGems(h)
    <3>1. PICK h \in Handlers : WriteGems(h)
      BY <2>2
    <3>2. PICK t \in Transactions : /\ gemTransactions' = Append(gemTransactions, t)
                                   /\ gemBalance'[t.user] = t.balanceAfter
      BY <3>1, WriteGemsAppends
    <3>. QED  BY <3>2, AppendFacts DEF IInv, TypeOK
  <2>3. CASE UNCHANGED <<portone, gemTransactions, gemBalance>>
    BY <2>3
  <2>. QED  BY <2>1, <2>2, <2>3, StepKinds
<1>2. IInv /\ [Next]_vars => [A]_vars
  BY <1>1
<1>. QED  BY <1>2, Invariance, PTL DEF Spec, BalanceChangesAreRecorded

\* The gem flow keeps the promise of PaidFulfilment.
THEOREM Fulfilment == Spec => FulfilsOnlyPaid
<1>1. Init => Promise!Init
  BY DEF Init, Promise!Init, Receipts
<1>2. IInv /\ [Next]_vars => [Promise!Next]_(Promise!vars)
  <2> SUFFICES ASSUME IInv, [Next]_vars, ~ UNCHANGED Promise!vars
               PROVE  Promise!Next
    OBVIOUS
  <2>1. CASE Environment
    <3>1. PICK o \in Orders : \/ \E u \in Users : CreateHistory(o, u)
                              \/ Pay(o) \/ Decline(o) \/ Cancel(o)
      BY <2>1 DEF Environment
    <3>2. Receipts' = Receipts
      BY <3>1 DEF CreateHistory, Pay, Decline, Cancel, Settle, Receipts
    <3>3. everPaid' = everPaid \/ everPaid' = everPaid \cup {o}
      BY <3>1 DEF CreateHistory, Pay, Decline, Cancel, Settle, portone
    <3>. QED  BY <3>2, <3>3 DEF Promise!Next, Promise!TakeMoney, Promise!vars
  <2>2. CASE \E h \in Handlers : WriteGems(h)
    <3>1. PICK h \in Handlers : WriteGems(h)
      BY <2>2
    <3> DEFINE n == Len(gemTransactions) + 1
               r == [no |-> n, order |-> job[h].order]
    <3>2. PICK t \in Transactions :
            /\ t.kind = job[h].kind /\ t.order = job[h].order
            /\ gemTransactions' = Append(gemTransactions, t)
      BY <3>1, WriteGemsAppends
    <3>3. /\ DOMAIN gemTransactions' = DOMAIN gemTransactions \cup {n}
          /\ n \notin DOMAIN gemTransactions
          /\ gemTransactions'[n] = t
          /\ \A i \in DOMAIN gemTransactions : gemTransactions'[i] = gemTransactions[i]
      BY <3>2, AppendFacts DEF IInv, TypeOK
    <3>4. CASE job[h].kind = "webhook"
      <4>1. Receipts' = Receipts \cup {r}
        BY <3>2, <3>3, <3>4 DEF Receipts
      <4>2. \A q \in Receipts : q.no # r.no
        BY <3>3 DEF Receipts
      <4>3. job[h].order \in everPaid /\ everPaid' = everPaid
        BY <3>1, <3>4, WriteGemsAppends DEF portone
      <4>4. Promise!Fulfil(job[h].order)
        <5>1. r \in Receipts' \ Receipts /\ r.order = job[h].order
          BY <4>1, <4>2
        <5>. QED  BY <4>1, <4>2, <4>3, <5>1 DEF Promise!Fulfil
      <4>. QED  BY <4>3, <4>4 DEF Promise!Next, IInv, TypeOK
    <3>5. CASE job[h].kind = "consume"
      <4>1. Receipts' = Receipts
        BY <3>2, <3>3, <3>5 DEF Receipts
      <4>2. everPaid' = everPaid
        BY <3>1, WriteGemsAppends DEF portone
      <4>. QED  BY <4>1, <4>2 DEF Promise!vars
    <3>. QED  BY <3>1, <3>4, <3>5, WriteGemsAppends
  <2>3. CASE UNCHANGED <<portone, gemTransactions, gemBalance>>
    BY <2>3 DEF Promise!vars, Receipts, portone
  <2>. QED  BY <2>1, <2>2, <2>3, StepKinds
<1>. QED  BY <1>1, <1>2, Invariance, PTL DEF Spec, FulfilsOnlyPaid, Promise!Spec

-----------------------------------------------------------------------------
\* The webhook jobs for o are all still before their look at the status.
LEMMA CancelledStep ==
  ASSUME IInv, [Next]_vars, NEW o \in Orders,
         payment[o] = "CANCELLED", NoneBeyondStatusCheck(o)
  PROVE  NoneBeyondStatusCheck(o)' /\ ChargesOf(o)' = ChargesOf(o)
<1>1. NoneBeyondStatusCheck(o)'
  <2> SUFFICES ASSUME NEW i \in Handlers, job'[i].order = o, job'[i].kind = "webhook"
               PROVE  job'[i].step = "getPayment"
    BY DEF NoneBeyondStatusCheck, At
  <2>0. job \in [Handlers -> Jobs]
    BY DEF IInv, TypeOK
  <2>1. Idle.order # o
    BY DEF Idle, Job
  <2>2. CASE job'[i] = job[i]
    BY <2>2 DEF NoneBeyondStatusCheck, At
  <2>3. ASSUME NEW h \in Handlers, Request(h)
        PROVE  job'[i].step = "getPayment"
    <3>1. CASE i # h
      BY <2>0, <2>2, <2>3, <3>1 DEF Request, ReceiveWebhook, StartConsume,
                                    ReceiveConfirm, Accept
    <3>2. CASE i = h
      <4>1. ASSUME NEW p \in Orders, NEW status \in Statuses, ReceiveWebhook(h, p, status)
            PROVE  job'[i].step = "getPayment"
        BY <2>0, <2>1, <3>2, <4>1 DEF ReceiveWebhook, Accept, Job
      <4>2. ASSUME NEW u \in Users, NEW n \in ConsumeAmounts, StartConsume(h, u, n)
            PROVE  FALSE
        BY <2>0, <3>2, <4>2 DEF StartConsume, Accept, Job
      <4>3. ASSUME NEW u \in Users, NEW p \in Orders, ReceiveConfirm(h, u, p)
            PROVE  FALSE
        BY <2>0, <3>2, <4>3 DEF ReceiveConfirm, Accept, Job
      <4>. QED  BY <2>3, <4>1, <4>2, <4>3 DEF Request
    <3>. QED  BY <3>1, <3>2
  <2>4. ASSUME NEW h \in Handlers, Finish(h) \/ Reject(h)
        PROVE  job'[i].step = "getPayment"
    <3>1. job'[i] = job[i] \/ job'[i] = Idle
      BY <2>0, <2>4 DEF Finish, Reject
    <3>. QED  BY <2>1, <2>2, <3>1
  <2>5. ASSUME NEW h \in Handlers, Continue(h)
        PROVE  job'[i].step = "getPayment"
    <3>1. CASE i # h
      <4>1. ASSUME NEW step \in Steps, Goto(h, step)  PROVE job'[i] = job[i]
        BY <2>0, <3>1, <4>1 DEF Goto
      <4>2. GetPayment(h) \/ CheckRow(h) \/ InsertRow(h) \/ ConfirmPayment(h) =>
              Finish(h) \/ job'[i] = job[i]
        BY <4>1 DEF GetPayment, CheckRow, InsertRow, ConfirmPayment, Steps
      <4>3. FindHistory(h) \/ SelectGems(h) => Reject(h) \/ Finish(h) \/ job'[i] = job[i]
        BY <2>0, <3>1 DEF FindHistory, Charge, SelectGems
      <4>4. InsertRowFails(h) \/ WriteGems(h) \/ ConfirmInsert(h) => Reject(h) \/ Finish(h)
        BY DEF InsertRowFails, WriteGems, Write, ConfirmInsert
      <4>. QED  BY <2>2, <2>4, <2>5, <4>2, <4>3, <4>4 DEF Continue
    <3>2. CASE i = h
      <4>1. job[h].order = o /\ job[h].kind = "webhook" => job[h].step = "getPayment"
        BY DEF NoneBeyondStatusCheck, At
      <4>2. ASSUME NEW step \in Steps, Goto(h, step)
            PROVE  job'[h].order = job[h].order /\ job'[h].kind = job[h].kind
        BY <2>0, <4>2 DEF Goto, Jobs
      <4>3. CASE GetPayment(h)
        BY <2>4, <3>2, <4>2, <4>3 DEF GetPayment, Steps
      <4>4. CASE FindHistory(h)
        <5>1. job[h].kind = "webhook" /\ job[h].step = "findHistory"
          BY <4>4 DEF IInv, JobsInv, JobOK, WebhookFlow, FindHistory, At
        <5>2. Finish(h) \/ job'[h].order = job[h].order
          BY <2>0, <4>4 DEF FindHistory, Charge, Job, Jobs
        <5>. QED  BY <2>4, <3>2, <4>1, <5>1, <5>2
      <4>5. CASE CheckRow(h) \/ InsertRow(h) \/ ConfirmPayment(h)
        BY <2>4, <3>2, <4>1, <4>2, <4>5
           DEF CheckRow, InsertRow, ConfirmPayment, Steps, At
      <4>6. CASE SelectGems(h)
        <5>1. \/ Reject(h)
              \/ job'[h].order = job[h].order /\ job'[h].kind = job[h].kind
          BY <2>0, <4>6 DEF SelectGems, Jobs
        <5>. QED  BY <2>4, <3>2, <4>1, <4>6, <5>1 DEF SelectGems, At
      <4>7. CASE InsertRowFails(h) \/ WriteGems(h) \/ ConfirmInsert(h)
        BY <2>4, <4>7 DEF InsertRowFails, WriteGems, Write, ConfirmInsert
      <4>. QED  BY <2>5, <4>3, <4>4, <4>5, <4>6, <4>7 DEF Continue
    <3>. QED  BY <3>1, <3>2
  <2>6. CASE job' = job
    BY <2>2, <2>6
  <2>7. Environment => job' = job
    BY DEF Environment, CreateHistory, Pay, Decline, Cancel, Settle
  <2>8. \A h \in Handlers : CallFails(h) => Reject(h)
    BY DEF CallFails
  <2>. QED  BY <2>3, <2>4, <2>5, <2>6, <2>7, <2>8 DEF Next, vars
<1>2. ChargesOf(o)' = ChargesOf(o)
  <2>1. CASE Environment
    BY <2>1 DEF Environment, CreateHistory, Pay, Decline, Cancel, Settle, ChargesOf
  <2>2. CASE \E h \in Handlers : WriteGems(h)
    <3>1. PICK h \in Handlers : WriteGems(h)
      BY <2>2
    <3>2. job[h].order # o
      BY <3>1, WriteGemsAppends DEF NoneBeyondStatusCheck, At, WriteGems, Write
    <3>3. PICK t \in Transactions :
            t.order = job[h].order /\ gemTransactions' = Append(gemTransactions, t)
      BY <3>1, WriteGemsAppends
    <3>. QED  BY <3>2, <3>3, AppendFacts DEF IInv, TypeOK, ChargesOf
  <2>3. CASE UNCHANGED <<portone, gemTransactions, gemBalance>>
    BY <2>3 DEF ChargesOf
  <2>. QED  BY <2>1, <2>2, <2>3, StepKinds
<1>. QED  BY <1>1, <1>2

\* A cancelled order with no handler past the status check is never charged again.
THEOREM CancelledIsFinal == Spec => CancelledStaysUncharged
<1>1. IInv /\ [Next]_vars => ChargesNoCancelledOrder
  BY CancelledStep DEF ChargesNoCancelledOrder
<1>. QED  BY <1>1, Invariance, PTL DEF Spec, CancelledStaysUncharged
=============================================================================
