----------------------------- MODULE MCGemCharge -----------------------------
(***************************************************************************)
(* Instances of GemCharge for TLC, and what the requirements say of the    *)
(* balances.                                                               *)
(***************************************************************************)
EXTENDS GemCharge, TLC

CONSTANTS o1

\* Orders of 1 and of 3 gems (distinguishable sums).
Sizes == [o \in Orders |-> IF o = o1 THEN 1 ELSE 3]

\* Both handlers in one Node process: a rejection of either ends both.
OneServer == [h \in Handlers |-> 1]

\* docs/gem_prd.md:130: "트랜잭션 원자성: 잔액 변경과 거래 기록이 동시에 처리": a user's balance changes only
\* together with a transaction record, of that user.
OwnRowOnly ==
  [][\A u \in Users : gemBalance'[u] # gemBalance[u] =>
       \E i \in DOMAIN gemTransactions' \ DOMAIN gemTransactions :
         gemTransactions'[i].user = u]_vars
=============================================================================
