------------------------- MODULE AiTokenWalletProofs -------------------------
(* Proofs about AiTokenWallet, for every set of sessions, actions, orders   *)
(* and references and every value of the quotas and bounds: its types, the  *)
(* safety of charges and purchases, and that it implements CreditAccount.   *)
EXTENDS AiTokenWallet, TLAPS

Costs == {CreditsFor(a, t) : a \in Actions, t \in 0..MaxTokenCredits}

\* The transactions that write the balance.
Writers == TransactionKinds \ {"failed"}

\* What a request carries.
OpOK(s) ==
  /\ op[s].kind = "charge" =>
       /\ op[s].amount \in Costs
       /\ op[s].subject \in References \cup {None}
       /\ op[s].ref = IF op[s].subject = None THEN NoReference
                      ELSE ChargeRef(op[s].subject)
  /\ op[s].kind \in {"signup", "activate", "reset", "renew"} => op[s].amount \in Nat
  /\ op[s].kind \in {"recharge", "failed"} => op[s].subject \in Orders
  /\ op[s].kind = "recharge" => op[s].amount = OrderCredits

\* A transaction that writes the balance locks the user row before it can
\* commit, nobody else holds the row then, and what it read is still there.
UserIsLocked(s) ==
  op[s].kind \in Writers =>
    "user" \in mine[s] \/ \E i \in DOMAIN want[s] : want[s][i] = "user"
ReadIsCurrent(s) == "user" \in mine[s] => seen[s] = balance

LockInv ==
  /\ \A s, t \in Sessions : mine[s] \cap mine[t] # {} => s = t
  /\ \A s \in Sessions : UserIsLocked(s) /\ ReadIsCurrent(s)

\* An order is paid when its payment is in credit_transactions.
PurchaseInv ==
  /\ PaidOrderIsCredited
  /\ \A o \in Orders : o \in purchases <=> AlreadyPaid(o)

WalletInv ==
  /\ TypeOK
  /\ \A s \in Sessions : OpOK(s)
  /\ LockInv
  /\ PurchaseInv
  /\ BalanceAboveLimit
  /\ ChargedOncePerReference

USE DEF TransactionKinds

(***************************************************************************)
(* What the helpers return                                                 *)
(***************************************************************************)
\* Every price is a positive number of credits.
LEMMA CostType == Costs \subseteq Nat \ {0}
  BY WalletAssumption DEF Costs, CreditsFor, AtLeast

\* The limit is a number of credits, not above zero.
LEMMA LimitType == Limit \in Int /\ Limit <= 0
  <1>1. GraceBuffer \in Nat
    BY WalletAssumption
  <1> QED
    BY <1>1 DEF Limit

\* The days that may come are natural numbers.
LEMMA DaysType == MaxDay \in Nat /\ 0..MaxDay \subseteq Nat
  <1>1. MaxDay \in Nat
    BY WalletAssumption
  <1> QED
    BY <1>1

\* What a session has read and what its request carries are numbers, and its
\* reference is one of those there are.
LEMMA RequestType ==
  ASSUME WalletInv, NEW s \in Sessions
  PROVE  /\ balance \in Int /\ nextDue \in Nat /\ today \in 0..MaxDay /\ today \in Nat
         /\ seen[s] \in Int /\ op[s].amount \in Int /\ op[s].ref \in AllRefs
  <1>1. op[s] \in Requests /\ balance \in Int /\ nextDue \in Nat /\ today \in 0..MaxDay
        /\ seen[s] \in Int
    BY DEF WalletInv, TypeOK
  <1>2. today \in Nat
    BY <1>1, DaysType
  <1> QED
    BY <1>1, <1>2 DEF Requests

\* Clamping at zero gives a natural number, no less than what was clamped.
LEMMA NotNegativeType ==
  ASSUME NEW n \in Int
  PROVE  NotNegative(n) \in Nat /\ NotNegative(n) >= n /\ NotNegative(n) >= 0
  BY DEF NotNegative, AtLeast

\* A request locks rows of the database, and the user's unless it only marks an
\* order as failed.
LEMMA RowsOfOK ==
  ASSUME NEW o \in Requests,
         o.kind \in {"recharge", "failed"} => o.subject \in Orders
  PROVE  /\ RowsOf(o) \in Seq(Rows)
         /\ o.kind \in Writers => \E i \in DOMAIN RowsOf(o) : RowsOf(o)[i] = "user"
  <1>1. CASE o.kind \in {"charge", "signup", "activate"}
    <2>1. RowsOf(o) = <<"user">>
      BY <1>1 DEF RowsOf
    <2> QED
      BY <2>1 DEF Rows
  <1>2. CASE o.kind = "recharge"
    <2>1. RowsOf(o) = <<o.subject, "user", "wallet">>
      BY <1>2 DEF RowsOf
    <2> QED
      BY <2>1, <1>2 DEF Rows
  <1>3. CASE o.kind = "failed"
    BY <1>3 DEF RowsOf, Rows, Writers
  <1>4. CASE o.kind \in {"adjust", "reset"}
    <2>1. RowsOf(o) = <<"wallet", "user">>
      BY <1>4 DEF RowsOf
    <2> QED
      BY <2>1 DEF Rows
  <1>5. CASE o.kind = "renew"
    <2>1. RowsOf(o) = <<"user", "wallet">>
      BY <1>5 DEF RowsOf
    <2> QED
      BY <2>1 DEF Rows
  <1>6. CASE o.kind \in {"idle", "work"}
    BY <1>6 DEF RowsOf, Writers
  <1> QED
    BY <1>1, <1>2, <1>3, <1>4, <1>5, <1>6 DEF Requests

\* The ledger grows by at most one row and keeps the rows it has.
LEMMA LedgerGrows ==
  ASSUME ledger \in Seq(LedgerRows), NEW ref \in AllRefs, NEW amount \in Int,
         NEW after \in Int
  PROVE  /\ LedgerWith(ref, amount, after) \in Seq(LedgerRows)
         /\ \A i \in DOMAIN ledger :
              /\ i \in DOMAIN LedgerWith(ref, amount, after)
              /\ LedgerWith(ref, amount, after)[i] = ledger[i]
         /\ ~Recorded(ref) =>
              \E i \in DOMAIN LedgerWith(ref, amount, after) :
                /\ LedgerWith(ref, amount, after)[i].ref = ref
                /\ LedgerWith(ref, amount, after)[i].amount = amount
  <1> DEFINE r == [ref |-> ref, amount |-> amount, after |-> after]
  <1>1. r \in LedgerRows
    BY DEF LedgerRows
  <1>2. Append(ledger, r) \in Seq(LedgerRows)
    BY <1>1
  <1>3. \A i \in DOMAIN ledger : i \in DOMAIN Append(ledger, r) /\ Append(ledger, r)[i] = ledger[i]
    BY <1>1
  <1>4. Len(ledger) + 1 \in DOMAIN Append(ledger, r) /\ Append(ledger, r)[Len(ledger) + 1] = r
    BY <1>1
  <1> HIDE DEF r
  <1>5. r.ref = ref /\ r.amount = amount
    BY DEF r
  <1>6. LedgerWith(ref, amount, after) = IF Recorded(ref) THEN ledger ELSE Append(ledger, r)
    BY DEF LedgerWith, r
  <1> QED
    BY <1>2, <1>3, <1>4, <1>5, <1>6

(***************************************************************************)
(* Requests that begin                                                     *)
(***************************************************************************)
\* What Begin needs of a request to keep the invariant.
RequestOK(request) ==
  /\ request \in Requests
  /\ request.kind = "charge" =>
       /\ request.amount \in Costs
       /\ request.subject \in References \cup {None}
       /\ request.ref = IF request.subject = None THEN NoReference
                        ELSE ChargeRef(request.subject)
  /\ request.kind \in {"signup", "activate", "reset", "renew"} => request.amount \in Nat
  /\ request.kind \in {"recharge", "failed"} => request.subject \in Orders
  /\ request.kind = "recharge" => request.amount = OrderCredits

\* Requests that begin are well formed.
LEMMA RequestsAreOK ==
  ASSUME TypeOK
  PROVE  /\ \A a \in Actions, t \in 0..MaxTokenCredits, r \in References \cup {None} :
              RequestOK(Request("charge", IF r = None THEN NoReference ELSE ChargeRef(r),
                                r, CreditsFor(a, t)))
         /\ RequestOK(Request("signup", SignupRef, None, SignupQuota))
         /\ RequestOK(Request("activate", NoReference, None, PlanQuota))
         /\ \A d \in Adjustments : RequestOK(Request("adjust", NoReference, None, d))
         /\ RequestOK(Request("reset", NoReference, None, MonthlyCredits))
         /\ RequestOK(Request("renew", RenewalRef(today), None, MonthlyCredits))
         /\ \A o \in Orders :
              /\ RequestOK(Request("recharge", OrderRef(o), o, OrderCredits))
              /\ RequestOK(Request("failed", NoReference, o, 0))
  <1> USE WalletAssumption DEF RequestOK, Request, Requests, AllRefs
  <1>1. ASSUME NEW a \in Actions, NEW t \in 0..MaxTokenCredits,
               NEW r \in References \cup {None}
        PROVE  RequestOK(Request("charge", IF r = None THEN NoReference ELSE ChargeRef(r),
                                 r, CreditsFor(a, t)))
    <2>1. CreditsFor(a, t) \in Costs /\ CreditsFor(a, t) \in Int
      BY CostType DEF Costs
    <2>2. (IF r = None THEN NoReference ELSE ChargeRef(r)) \in AllRefs
      OBVIOUS
    <2> HIDE DEF AllRefs
    <2> QED
      BY <2>1, <2>2
  <1>2. /\ RequestOK(Request("signup", SignupRef, None, SignupQuota))
        /\ RequestOK(Request("activate", NoReference, None, PlanQuota))
    OBVIOUS
  <1>3. /\ \A d \in Adjustments : RequestOK(Request("adjust", NoReference, None, d))
        /\ RequestOK(Request("reset", NoReference, None, MonthlyCredits))
    OBVIOUS
  <1>4. RequestOK(Request("renew", RenewalRef(today), None, MonthlyCredits))
    BY DEF TypeOK
  <1>5. \A o \in Orders :
          /\ RequestOK(Request("recharge", OrderRef(o), o, OrderCredits))
          /\ RequestOK(Request("failed", NoReference, o, 0))
    OBVIOUS
  <1> QED
    BY <1>1, <1>2, <1>3, <1>4, <1>5

\* A request begins: nothing is locked yet.
LEMMA BeginInv ==
  ASSUME WalletInv, NEW s \in Sessions, NEW request, RequestOK(request),
         Begin(s, request), requests' \in Nat
  PROVE  WalletInv'
  <1> USE DEF WalletInv, Begin, accountVars, historyVars
  <1>1. op'[s] = request /\ \A t \in Sessions \ {s} : op'[t] = op[t]
    BY DEF TypeOK
  <1>2. want'[s] = RowsOf(request) /\ \A t \in Sessions \ {s} : want'[t] = want[t]
    BY DEF TypeOK
  <1>3. /\ RowsOf(request) \in Seq(Rows)
        /\ request.kind \in Writers => \E i \in DOMAIN RowsOf(request) : RowsOf(request)[i] = "user"
    BY RowsOfOK DEF RequestOK
  <1>4. TypeOK'
    BY <1>3 DEF TypeOK, RequestOK
  <1>5. \A t \in Sessions : OpOK(t)'
    BY <1>1 DEF OpOK, RequestOK
  <1>6. LockInv'
    BY <1>1, <1>2, <1>3 DEF LockInv, UserIsLocked, ReadIsCurrent
  <1> QED
    BY <1>4, <1>5, <1>6
       DEF PurchaseInv, PaidOrderIsCredited, AlreadyPaid, BalanceAboveLimit,
           ChargedOncePerReference

\* So it is with every request.
LEMMA StartInv ==
  ASSUME WalletInv, NEW s \in Sessions,
         \/ \E a \in Actions, r \in References \cup {None} : StartCharge(s, a, r)
         \/ StartCredit(s) \/ StartAdmin(s) \/ StartRenewal(s)
         \/ \E o \in Orders : ReportPaid(s, o) \/ ReportFailed(s, o)
  PROVE  WalletInv'
  <1>1. requests \in Nat /\ requests + 1 \in Nat
    BY DEF WalletInv, TypeOK
  <1>2. requests' \in Nat
    BY <1>1 DEF StartCharge, StartCredit, StartAdmin, StartRenewal, ReportPaid,
                ReportFailed, Counted
  <1>3. PICK request : RequestOK(request) /\ Begin(s, request)
    BY RequestsAreOK DEF WalletInv, StartCharge, StartCredit, StartAdmin, StartRenewal,
                         ReportPaid, ReportFailed
  <1> QED
    BY <1>2, <1>3, BeginInv

\* An AI action that starts or ends its work writes nothing, and neither do a
\* payment and a new day.
LEMMA IdleInv ==
  ASSUME WalletInv,
         \/ \E s \in Sessions : Finish(s) \/ \E a \in Actions : Admit(s, a)
         \/ \E o \in Orders : Pay(o)
         \/ NextDay \/ Quiet
  PROVE  WalletInv'
  <1> USE DEF WalletInv, accountVars, historyVars, sessionVars
  <1>1. CASE \E s \in Sessions : Finish(s) \/ \E a \in Actions : Admit(s, a)
    <2> PICK s \in Sessions : Finish(s) \/ \E a \in Actions : Admit(s, a)
      BY <1>1
    <2>1. PICK new \in {IdleOp, WorkOp} : op' = [op EXCEPT ![s] = new]
      BY DEF Finish, Admit
    <2>2. /\ UNCHANGED <<balance, ledger, wallet, orders, purchases, nextDue, today,
                         captured, answered, want, mine, seen, failures, drawn, granted>>
          /\ requests' \in Nat
      BY DEF Finish, Admit, TypeOK, Counted
    <2>3. new \in Requests /\ new.kind \in {"idle", "work"}
      BY DEF Requests, IdleOp, WorkOp, Request, AllRefs
    <2>4. op'[s] = new /\ \A t \in Sessions \ {s} : op'[t] = op[t]
      BY <2>1 DEF TypeOK
    <2>5. TypeOK'
      BY <2>1, <2>2, <2>3 DEF TypeOK
    <2>6. \A t \in Sessions : OpOK(t)'
      BY <2>3, <2>4 DEF OpOK
    <2>7. LockInv'
      BY <2>2, <2>3, <2>4 DEF LockInv, UserIsLocked, ReadIsCurrent, Writers
    <2> QED
      BY <2>2, <2>5, <2>6, <2>7
         DEF PurchaseInv, PaidOrderIsCredited, AlreadyPaid, BalanceAboveLimit,
             ChargedOncePerReference
  <1>2. CASE (\E o \in Orders : Pay(o)) \/ NextDay \/ Quiet
    <2>1. /\ UNCHANGED <<balance, ledger, wallet, orders, purchases, nextDue, answered, op,
                         want, mine, seen, requests, failures, drawn, granted>>
          /\ captured' \subseteq Orders /\ today' \in 0..MaxDay
      <3>1. CASE (\E o \in Orders : Pay(o)) \/ Quiet
        BY <3>1 DEF Pay, Quiet, vars, TypeOK
      <3>2. CASE NextDay
        <4>1. MaxDay \in Nat
          BY WalletAssumption
        <4> QED
          BY <3>2, <4>1 DEF NextDay, TypeOK
      <3> QED
        BY <1>2, <3>1, <3>2
    <2>2. TypeOK'
      BY <2>1 DEF TypeOK
    <2> QED
      BY <2>1, <2>2
         DEF OpOK, LockInv, UserIsLocked, ReadIsCurrent, PurchaseInv, PaidOrderIsCredited,
             AlreadyPaid, BalanceAboveLimit, ChargedOncePerReference
  <1> QED
    BY <1>1, <1>2

\* Locking a row reads the balance when it is the user's.
LEMMA LockRowInv ==
  ASSUME WalletInv, NEW s \in Sessions, Lock(s)
  PROVE  WalletInv'
  <1> USE DEF WalletInv
  <1> DEFINE row == Head(want[s])
  <1>1. /\ want[s] \in Seq(Rows) /\ want[s] # <<>> /\ Free(row)
        /\ mine' = [mine EXCEPT ![s] = mine[s] \cup {row}]
        /\ want' = [want EXCEPT ![s] = Tail(want[s])]
        /\ seen' = IF row = "user" THEN [seen EXCEPT ![s] = balance] ELSE seen
        /\ UNCHANGED <<balance, ledger, wallet, orders, purchases, nextDue, today,
                       captured, answered, op, requests, failures, drawn, granted>>
    BY DEF Lock, TypeOK, accountVars, historyVars
  <1>2. row \in Rows /\ Tail(want[s]) \in Seq(Rows)
    BY <1>1
  <1>3. \A i \in DOMAIN want[s] : want[s][i] = row \/ \E j \in DOMAIN Tail(want[s]) : Tail(want[s])[j] = want[s][i]
    <2> TAKE i \in DOMAIN want[s]
    <2>1. i \in 1..Len(want[s])
      BY <1>1
    <2>2. CASE i = 1
      BY <2>2, <1>1
    <2>3. CASE i # 1
      <3>1. i - 1 \in DOMAIN Tail(want[s]) /\ Tail(want[s])[i - 1] = want[s][i]
        BY <2>1, <2>3, <1>1
      <3> QED
        BY <3>1
    <2> QED
      BY <2>2, <2>3
  <1> HIDE DEF row
  <1>4. /\ mine'[s] = mine[s] \cup {row} /\ want'[s] = Tail(want[s])
        /\ \A t \in Sessions \ {s} : mine'[t] = mine[t] /\ want'[t] = want[t] /\ seen'[t] = seen[t]
        /\ seen'[s] = IF row = "user" THEN balance ELSE seen[s]
    BY <1>1 DEF TypeOK
  <1>5. TypeOK'
    BY <1>1, <1>2 DEF TypeOK
  <1>6. \A t, u \in Sessions : mine'[t] \cap mine'[u] # {} => t = u
    BY <1>1, <1>4 DEF LockInv, Free
  <1>7. \A t \in Sessions : UserIsLocked(t)'
    BY <1>1, <1>3, <1>4 DEF LockInv, UserIsLocked
  <1>8. \A t \in Sessions : ReadIsCurrent(t)'
    BY <1>1, <1>4 DEF LockInv, ReadIsCurrent
  <1> QED
    BY <1>1, <1>5, <1>6, <1>7, <1>8
       DEF OpOK, LockInv, PurchaseInv, PaidOrderIsCredited, AlreadyPaid, BalanceAboveLimit,
           ChargedOncePerReference

(***************************************************************************)
(* Transactions that end                                                   *)
(***************************************************************************)
\* Releasing the rows keeps the lock discipline, if only the holder of the user
\* row has written the balance.
LEMMA ReleaseInv ==
  ASSUME WalletInv, NEW s \in Sessions, Release(s),
         balance' = balance \/ "user" \in mine[s]
  PROVE  /\ op' \in [Sessions -> Requests]
         /\ want' \in [Sessions -> Seq(Rows)]
         /\ mine' \in [Sessions -> SUBSET Rows]
         /\ seen' \in [Sessions -> Int]
         /\ \A t \in Sessions : OpOK(t)'
         /\ LockInv'
  <1> USE DEF WalletInv
  <1>1. PICK new \in {IdleOp, WorkOp} : op' = [op EXCEPT ![s] = new]
    BY DEF Release
  <1>2. new \in Requests /\ new.kind \in {"idle", "work"}
    BY DEF Requests, IdleOp, WorkOp, Request, AllRefs
  <1>3. /\ want' = [want EXCEPT ![s] = <<>>]
        /\ mine' = [mine EXCEPT ![s] = {}]
        /\ seen' = [seen EXCEPT ![s] = 0]
    BY DEF Release
  <1>4. /\ op'[s] = new /\ mine'[s] = {}
        /\ \A t \in Sessions \ {s} :
             op'[t] = op[t] /\ mine'[t] = mine[t] /\ want'[t] = want[t] /\ seen'[t] = seen[t]
    BY <1>1, <1>3 DEF TypeOK
  <1>5. /\ op' \in [Sessions -> Requests]
        /\ want' \in [Sessions -> Seq(Rows)]
        /\ mine' \in [Sessions -> SUBSET Rows]
        /\ seen' \in [Sessions -> Int]
    BY <1>1, <1>2, <1>3 DEF TypeOK
  <1>6. \A t \in Sessions : OpOK(t)'
    BY <1>2, <1>4 DEF OpOK
  <1>7. LockInv'
    BY <1>2, <1>4 DEF LockInv, UserIsLocked, ReadIsCurrent, Writers
  <1> QED
    BY <1>5, <1>6, <1>7

\* A writer that commits holds the user row, and so read the current balance.
LEMMA ReadyHasUser ==
  ASSUME WalletInv, NEW s \in Sessions, NEW kind \in Writers, Ready(s, kind)
  PROVE  "user" \in mine[s] /\ seen[s] = balance
  BY DEF WalletInv, LockInv, UserIsLocked, ReadIsCurrent, Ready

\* What is answered stays a set of orders.
LEMMA AnsweredType ==
  ASSUME WalletInv, NEW s \in Sessions, NEW c \in BOOLEAN
  PROVE  AnsweredAfter(s, c) \subseteq Orders
  BY DEF WalletInv, TypeOK, OpOK, AnsweredAfter

\* A rollback leaves the account alone.
LEMMA RollbackInv ==
  ASSUME WalletInv, NEW s \in Sessions, Deadlock(s) \/ Fail(s)
  PROVE  WalletInv'
  <1>1. Rollback(s) /\ failures' \in Nat
    BY DEF WalletInv, TypeOK, Deadlock, Fail
  <1>2. /\ UNCHANGED <<balance, ledger, wallet, orders, purchases, nextDue, today,
                       captured, requests, drawn, granted>>
        /\ Release(s) /\ answered' \subseteq Orders
    BY <1>1, AnsweredType DEF Rollback, accountVars, historyVars
  <1>3. TypeOK' /\ (\A t \in Sessions : OpOK(t)') /\ LockInv'
    BY <1>1, <1>2, ReleaseInv DEF WalletInv, TypeOK
  <1> QED
    BY <1>2, <1>3
       DEF WalletInv, PurchaseInv, PaidOrderIsCredited, AlreadyPaid, BalanceAboveLimit,
           ChargedOncePerReference

\* What every commit does beside writing the account.
LEMMA CommitInv ==
  ASSUME WalletInv, NEW s \in Sessions, Commit(s),
         balance' = balance \/ "user" \in mine[s],
         balance' \in Int, ledger' \in Seq(LedgerRows), wallet' \in Nat,
         orders' \in [Orders -> {"created", "paid", "failed"}],
         purchases' \subseteq Orders, nextDue' \in Nat,
         drawn' \in [References \cup {None} -> Nat], granted' \in [Orders -> Nat]
  PROVE  TypeOK' /\ (\A t \in Sessions : OpOK(t)') /\ LockInv'
  <1>1. /\ UNCHANGED <<today, captured, requests, failures>>
        /\ Release(s) /\ answered' \subseteq Orders
    BY AnsweredType DEF Commit
  <1> QED
    BY <1>1, ReleaseInv DEF WalletInv, TypeOK

\* A new ledger row takes nothing in the name of a reference.
LEMMA LedgerKeepsCharges ==
  ASSUME WalletInv, NEW ref \in AllRefs, NEW amount \in Int, NEW after \in Int,
         ledger' = LedgerWith(ref, amount, after), UNCHANGED drawn
  PROVE  ledger' \in Seq(LedgerRows) /\ ChargedOncePerReference'
  <1>1. /\ ledger' \in Seq(LedgerRows)
        /\ \A i \in DOMAIN ledger : i \in DOMAIN ledger' /\ ledger'[i] = ledger[i]
    BY LedgerGrows DEF WalletInv, TypeOK
  <1> QED
    BY <1>1 DEF WalletInv, ChargedOncePerReference

\* A transaction that sets the balance to a sum above the limit and records it,
\* and touches neither orders nor charges.
LEMMA SettledInv ==
  ASSUME WalletInv, NEW s \in Sessions, NEW kind \in Writers, Ready(s, kind),
         Commit(s), NEW amount \in Int, balance' \in Int, balance' >= Limit,
         ledger' = LedgerWith(op[s].ref, amount, balance') \/ UNCHANGED ledger,
         wallet' \in Nat, nextDue' \in Nat,
         UNCHANGED <<orders, purchases, drawn, granted>>
  PROVE  WalletInv'
  <1>1. op[s].ref \in AllRefs
    BY DEF WalletInv, TypeOK, Requests
  <1>2. "user" \in mine[s]
    BY ReadyHasUser
  <1>3. ledger' \in Seq(LedgerRows) /\ ChargedOncePerReference'
    <2>1. CASE ledger' = LedgerWith(op[s].ref, amount, balance')
      BY <1>1, <2>1, LedgerKeepsCharges
    <2>2. CASE UNCHANGED ledger
      BY <2>2 DEF WalletInv, TypeOK, ChargedOncePerReference
    <2> QED
      BY <2>1, <2>2
  <1>4. TypeOK' /\ (\A t \in Sessions : OpOK(t)') /\ LockInv'
    BY <1>2, <1>3, CommitInv DEF WalletInv, TypeOK
  <1>5. PurchaseInv' /\ BalanceAboveLimit'
    BY DEF WalletInv, PurchaseInv, PaidOrderIsCredited, AlreadyPaid, BalanceAboveLimit, Limit
  <1> QED
    BY <1>3, <1>4, <1>5 DEF WalletInv

\* A charge takes its cost from the balance nobody else can be changing.
LEMMA ChargeInv ==
  ASSUME WalletInv, NEW s \in Sessions, CommitCharge(s)
  PROVE  WalletInv'
  <1> DEFINE o == op[s]
             after == seen[s] - o.amount
             taken == [drawn EXCEPT ![o.subject] = drawn[o.subject] + o.amount]
  <1>1. /\ Ready(s, "charge") /\ o.kind = "charge" /\ Commit(s)
        /\ UNCHANGED <<wallet, orders, purchases, nextDue>>
    BY DEF CommitCharge, Ready
  <1>2. "user" \in mine[s] /\ seen[s] = balance
    BY <1>1, ReadyHasUser DEF Writers
  <1>3. CASE UNCHANGED <<balance, ledger, historyVars>>
    <2>1. TypeOK' /\ (\A t \in Sessions : OpOK(t)') /\ LockInv'
      BY <1>1, <1>3, CommitInv DEF WalletInv, TypeOK, historyVars
    <2> QED
      BY <1>1, <1>3, <2>1
         DEF WalletInv, PurchaseInv, PaidOrderIsCredited, AlreadyPaid, BalanceAboveLimit,
             ChargedOncePerReference, historyVars
  <1>4. CASE /\ ~Recorded(o.ref) /\ Affordable(seen[s], o.amount)
             /\ balance' = after /\ ledger' = LedgerWith(o.ref, -o.amount, after)
             /\ drawn' = taken /\ UNCHANGED granted
    <2>1. /\ o.amount \in Nat /\ o.ref \in AllRefs /\ o.subject \in References \cup {None}
          /\ o.ref = IF o.subject = None THEN NoReference ELSE ChargeRef(o.subject)
          /\ after \in Int
      BY <1>1, <1>2, CostType DEF WalletInv, OpOK, TypeOK, Requests
    <2>2. /\ ledger' \in Seq(LedgerRows)
          /\ \A i \in DOMAIN ledger : i \in DOMAIN ledger' /\ ledger'[i] = ledger[i]
          /\ \E i \in DOMAIN ledger' : ledger'[i].ref = o.ref /\ ledger'[i].amount = -o.amount
      <3> DEFINE cost == -o.amount
      <3>1. cost \in Int /\ ledger' = LedgerWith(o.ref, cost, after) /\ ~Recorded(o.ref)
        BY <1>4, <2>1
      <3> HIDE DEF o, after, cost
      <3>2. ledger \in Seq(LedgerRows) /\ o.ref \in AllRefs /\ after \in Int
        BY <2>1 DEF WalletInv, TypeOK
      <3>3. /\ ledger' \in Seq(LedgerRows)
            /\ \A i \in DOMAIN ledger : i \in DOMAIN ledger' /\ ledger'[i] = ledger[i]
            /\ \E i \in DOMAIN ledger' : ledger'[i].ref = o.ref /\ ledger'[i].amount = cost
        BY <3>1, <3>2, LedgerGrows
      <3> QED
        BY <3>3 DEF cost
    <2>3. taken \in [References \cup {None} -> Nat]
      BY <2>1 DEF WalletInv, TypeOK
    <2>4. TypeOK' /\ (\A t \in Sessions : OpOK(t)') /\ LockInv'
      <3> HIDE DEF o, after, taken
      <3> QED
        BY <1>1, <1>2, <1>4, <2>1, <2>2, <2>3, CommitInv DEF WalletInv, TypeOK
    <2>5. BalanceAboveLimit'
      BY <1>2, <1>4 DEF BalanceAboveLimit, Affordable, Limit
    <2>6. ChargedOncePerReference'
      <3> SUFFICES ASSUME NEW r \in References, drawn'[r] # 0
                   PROVE  \E i \in DOMAIN ledger' :
                            ledger'[i].ref = ChargeRef(r) /\ ledger'[i].amount = -drawn'[r]
        BY DEF ChargedOncePerReference
      <3>1. CASE r = o.subject
        <4>1. o.ref = ChargeRef(r)
          BY <2>1, <3>1, WalletAssumption
        <4>2. ~Recorded(ChargeRef(r)) /\ ChargeRef(r) # NoReference
          BY <1>4, <4>1 DEF ChargeRef, NoReference
        <4>3. \A i \in DOMAIN ledger : ledger[i].ref # ChargeRef(r)
          BY <4>2 DEF Recorded, LedgerRefs
        <4>4. drawn[r] = 0
          BY <4>3 DEF WalletInv, ChargedOncePerReference
        <4>5. drawn'[r] = o.amount
          BY <1>4, <2>1, <3>1, <4>4 DEF WalletInv, TypeOK
        <4> QED
          BY <2>2, <4>1, <4>5
      <3>2. CASE r # o.subject
        <4>1. drawn'[r] = drawn[r]
          BY <1>4, <3>2 DEF WalletInv, TypeOK
        <4> QED
          BY <2>2, <4>1 DEF WalletInv, ChargedOncePerReference
      <3> QED
        BY <3>1, <3>2
    <2> QED
      BY <1>1, <1>4, <2>4, <2>5, <2>6
         DEF WalletInv, PurchaseInv, PaidOrderIsCredited, AlreadyPaid
  <1> QED
    BY <1>3, <1>4 DEF CommitCharge, AlreadyCharged, historyVars

\* A purchase credits an order that was not paid before, and only then.
LEMMA RechargeInv ==
  ASSUME WalletInv, NEW s \in Sessions, CommitRecharge(s)
  PROVE  WalletInv'
  <1> DEFINE o == op[s].subject
             after == NotNegative(seen[s]) + OrderCredits
  <1>1. /\ Ready(s, "recharge") /\ op[s].kind = "recharge" /\ Commit(s)
        /\ orders' = [orders EXCEPT ![o] = "paid"] /\ UNCHANGED nextDue
    BY DEF CommitRecharge, Ready
  <1>2. "user" \in mine[s] /\ seen[s] = balance
    BY <1>1, ReadyHasUser DEF Writers
  <1>3. o \in Orders /\ op[s].amount = OrderCredits /\ op[s].ref \in AllRefs
    BY <1>1 DEF WalletInv, OpOK, TypeOK, Requests
  <1>4. CASE o \in purchases /\ UNCHANGED <<balance, ledger, wallet, purchases, historyVars>>
    <2>1. orders[o] = "paid" /\ orders' = orders
      BY <1>1, <1>3, <1>4 DEF WalletInv, TypeOK, PurchaseInv, AlreadyPaid
    <2>2. TypeOK' /\ (\A t \in Sessions : OpOK(t)') /\ LockInv'
      BY <1>1, <1>4, <2>1, CommitInv DEF WalletInv, TypeOK, historyVars
    <2> QED
      BY <1>4, <2>1, <2>2
         DEF WalletInv, PurchaseInv, PaidOrderIsCredited, AlreadyPaid, BalanceAboveLimit,
             ChargedOncePerReference, historyVars
  <1>5. CASE /\ o \notin purchases /\ purchases' = purchases \cup {o}
             /\ balance' = after /\ ledger' = LedgerWith(op[s].ref, op[s].amount, after)
             /\ wallet' = wallet + OrderCredits
             /\ granted' = [granted EXCEPT ![o] = granted[o] + 1] /\ UNCHANGED drawn
    <2>1. balance \in Int /\ after \in Nat /\ OrderCredits \in Nat
      <3>1. balance \in Int /\ OrderCredits \in Nat
        BY WalletAssumption DEF WalletInv, TypeOK
      <3>2. NotNegative(balance) \in Nat
        BY <3>1, NotNegativeType
      <3> QED
        BY <1>2, <3>1, <3>2
    <2>2. ledger' \in Seq(LedgerRows) /\ ChargedOncePerReference'
      <3> HIDE DEF after
      <3> QED
        BY <1>3, <1>5, <2>1, LedgerKeepsCharges
    <2>3. TypeOK' /\ (\A t \in Sessions : OpOK(t)') /\ LockInv'
      <3> HIDE DEF o, after
      <3>1. /\ wallet' \in Nat /\ granted' \in [Orders -> Nat] /\ purchases' \subseteq Orders
            /\ orders' \in [Orders -> {"created", "paid", "failed"}]
            /\ nextDue' \in Nat /\ drawn' \in [References \cup {None} -> Nat]
            /\ balance' \in Int
        BY <1>1, <1>3, <1>5, <2>1 DEF WalletInv, TypeOK
      <3> QED
        BY <1>1, <1>2, <2>2, <3>1, CommitInv
    <2>4. BalanceAboveLimit'
      BY <1>5, <2>1, WalletAssumption DEF BalanceAboveLimit, Limit
    <2>5. PurchaseInv'
      <3> HIDE DEF o
      <3> QED
        BY <1>1, <1>3, <1>5 DEF WalletInv, TypeOK, PurchaseInv, PaidOrderIsCredited, AlreadyPaid
    <2> QED
      BY <2>2, <2>3, <2>4, <2>5 DEF WalletInv
  <1> QED
    BY <1>4, <1>5 DEF CommitRecharge, SetBalance

\* The signup credit adds to the balance and the plan's replaces it.
LEMMA CreditInv ==
  ASSUME WalletInv, NEW s \in Sessions, CommitCredit(s)
  PROVE  WalletInv'
  <1>1. PICK kind \in {"signup", "activate"} : Ready(s, kind)
    BY DEF CommitCredit
  <1>2. /\ Commit(s) /\ UNCHANGED <<wallet, orders, purchases, nextDue, drawn, granted>>
        /\ kind \in Writers
    BY DEF CommitCredit, historyVars, Writers
  <1>3. op[s].amount \in Nat /\ balance \in Int /\ balance >= Limit /\ Limit \in Int /\ Limit <= 0
    <2>1. op[s].amount \in Nat
      BY <1>1 DEF Ready, WalletInv, OpOK
    <2> QED
      BY <2>1, LimitType, RequestType DEF WalletInv, BalanceAboveLimit
  <1>4. wallet' \in Nat /\ nextDue' \in Nat
    BY <1>2 DEF WalletInv, TypeOK
  <1>5. /\ balance' \in Int /\ balance' >= Limit
        /\ \/ ledger' = LedgerWith(op[s].ref, op[s].amount, balance')
           \/ UNCHANGED ledger
    BY <1>3 DEF CommitCredit, SetBalance
  <1> QED
    BY <1>1, <1>2, <1>3, <1>4, <1>5, SettledInv

\* An adjustment by the administrator leaves neither account negative.
LEMMA AdjustInv ==
  ASSUME WalletInv, NEW s \in Sessions, CommitAdjust(s)
  PROVE  WalletInv'
  <1> DEFINE delta == EffectiveDelta(op[s].amount)
  <1>1. /\ Ready(s, "adjust") /\ Commit(s) /\ "adjust" \in Writers
        /\ UNCHANGED <<orders, purchases, nextDue, drawn, granted>>
    BY DEF CommitAdjust, historyVars, Writers
  <1>2. wallet \in Nat /\ op[s].amount \in Int /\ seen[s] \in Int /\ nextDue \in Nat
    BY DEF WalletInv, TypeOK, Requests
  <1>3. AdjustedWallet(op[s].amount) \in Nat
    <2>1. wallet + op[s].amount \in Int
      BY <1>2
    <2> QED
      BY <2>1, NotNegativeType DEF AdjustedWallet
  <1>4. delta \in Int
    BY <1>2, <1>3 DEF EffectiveDelta
  <1> HIDE DEF delta
  <1>5. NotNegative(seen[s] + delta) \in Nat
    <2>1. seen[s] + delta \in Int
      BY <1>2, <1>4
    <2> QED
      BY <2>1, NotNegativeType
  <1>6. /\ wallet' \in Nat /\ nextDue' \in Nat
        /\ balance' = NotNegative(seen[s] + delta)
        /\ ledger' = LedgerWith(op[s].ref, delta, balance')
    BY <1>1, <1>2, <1>3 DEF CommitAdjust, delta
  <1>7. balance' \in Int /\ balance' >= Limit
    BY <1>5, <1>6, WalletAssumption DEF Limit
  <1> QED
    BY <1>1, <1>4, <1>6, <1>7, SettledInv

\* A reset and a renewal give the monthly credits.
LEMMA ResetInv ==
  ASSUME WalletInv, NEW s \in Sessions, CommitReset(s)
  PROVE  WalletInv'
  <1>1. PICK kind \in {"reset", "renew"} : Ready(s, kind)
    BY DEF CommitReset
  <1>2. /\ Commit(s) /\ UNCHANGED <<orders, purchases, drawn, granted>>
        /\ kind \in Writers
    BY DEF CommitReset, historyVars, Writers
  <1>3. op[s].amount \in Nat
    BY <1>1 DEF Ready, WalletInv, OpOK
  <1>4. wallet' \in Nat /\ nextDue' \in Nat
    <2>1. nextDue \in Nat /\ Month \in Nat
      BY WalletAssumption DEF WalletInv, TypeOK
    <2>2. nextDue + Month \in Nat
      BY <2>1
    <2>3. nextDue' = nextDue \/ nextDue' = nextDue + Month
      BY DEF CommitReset
    <2>4. wallet' = op[s].amount
      BY DEF CommitReset
    <2> QED
      BY <1>3, <2>1, <2>2, <2>3, <2>4
  <1>5. /\ balance' \in Int /\ balance' >= Limit
        /\ ledger' = LedgerWith(op[s].ref, op[s].amount, balance')
    BY <1>3, WalletAssumption DEF CommitReset, SetBalance, Limit
  <1> QED
    BY <1>1, <1>2, <1>3, <1>4, <1>5, SettledInv

\* A repeated report finds its order paid, and a failed attempt cannot undo that.
LEMMA ReportInv ==
  ASSUME WalletInv, NEW s \in Sessions, CommitAlreadyPaid(s) \/ CommitFailed(s)
  PROVE  WalletInv'
  <1>1. /\ Commit(s)
        /\ UNCHANGED <<balance, ledger, wallet, purchases, nextDue, drawn, granted>>
    BY DEF CommitAlreadyPaid, CommitFailed, accountVars, historyVars
  <1>2. /\ orders' \in [Orders -> {"created", "paid", "failed"}]
        /\ \A o \in Orders : orders'[o] = "paid" <=> orders[o] = "paid"
    <2>1. CASE CommitAlreadyPaid(s)
      BY <2>1 DEF CommitAlreadyPaid, accountVars, WalletInv, TypeOK
    <2>2. CASE CommitFailed(s)
      BY <2>2 DEF CommitFailed, FailedStatus, WalletInv, TypeOK
    <2> QED
      BY <2>1, <2>2
  <1>3. TypeOK' /\ (\A t \in Sessions : OpOK(t)') /\ LockInv'
    BY <1>1, <1>2, CommitInv DEF WalletInv, TypeOK
  <1> QED
    BY <1>1, <1>2, <1>3
       DEF WalletInv, PurchaseInv, PaidOrderIsCredited, AlreadyPaid, BalanceAboveLimit,
           ChargedOncePerReference

(***************************************************************************)
(* The invariant                                                           *)
(***************************************************************************)
\* A new account satisfies the invariant.
LEMMA InitInv == Init => WalletInv
  <1> SUFFICES ASSUME Init PROVE WalletInv
    OBVIOUS
  <1> USE DEF Init
  <1>1. IdleOp \in Requests /\ IdleOp.kind = "idle"
    BY DEF IdleOp, Request, Requests, AllRefs
  <1>2. TypeOK
    BY <1>1, WalletAssumption DEF TypeOK
  <1>3. \A s \in Sessions : OpOK(s)
    BY <1>1 DEF OpOK
  <1>4. LockInv
    BY <1>1 DEF LockInv, UserIsLocked, ReadIsCurrent, Writers
  <1>5. PurchaseInv
    BY DEF PurchaseInv, PaidOrderIsCredited, AlreadyPaid
  <1>6. BalanceAboveLimit
    BY WalletAssumption DEF BalanceAboveLimit, Limit
  <1>7. ChargedOncePerReference
    BY DEF ChargedOncePerReference
  <1> QED
    BY <1>2, <1>3, <1>4, <1>5, <1>6, <1>7 DEF WalletInv

\* Every step keeps the invariant.
LEMMA StepInv == WalletInv /\ [Next]_vars => WalletInv'
  <1> SUFFICES ASSUME WalletInv, [Next]_vars PROVE WalletInv'
    OBVIOUS
  <1>1. ASSUME NEW s \in Sessions,
               \/ \E a \in Actions, r \in References \cup {None} : StartCharge(s, a, r)
               \/ StartCredit(s) \/ StartAdmin(s) \/ StartRenewal(s)
               \/ \E o \in Orders : ReportPaid(s, o) \/ ReportFailed(s, o)
        PROVE  WalletInv'
    BY <1>1, StartInv
  <1>2. CASE \/ \E s \in Sessions : Finish(s) \/ \E a \in Actions : Admit(s, a)
             \/ \E o \in Orders : Pay(o)
             \/ NextDay \/ Quiet
    BY <1>2, IdleInv
  <1>3. ASSUME NEW s \in Sessions, Lock(s)
        PROVE  WalletInv'
    BY <1>3, LockRowInv
  <1>4. ASSUME NEW s \in Sessions, End(s)
        PROVE  WalletInv'
    BY <1>4, ChargeInv, CreditInv, RechargeInv, ReportInv, AdjustInv, ResetInv DEF End
  <1>5. ASSUME NEW s \in Sessions, Deadlock(s) \/ Fail(s)
        PROVE  WalletInv'
    BY <1>5, RollbackInv
  <1>6. CASE UNCHANGED vars
    BY <1>6
       DEF vars, WalletInv, TypeOK, OpOK, LockInv, UserIsLocked, ReadIsCurrent, PurchaseInv,
           PaidOrderIsCredited, AlreadyPaid, BalanceAboveLimit, ChargedOncePerReference,
           Recorded, LedgerRefs
  <1> QED
    BY <1>1, <1>2, <1>3, <1>4, <1>5, <1>6 DEF Next

\* The whole invariant holds in every state.
THEOREM WalletInvariant == Spec => []WalletInv
  BY InitInv, StepInv, PTL DEF Spec

\* Every variable keeps its type: no adjustment, renewal or purchase makes the
\* wallet negative.
THEOREM TypeCorrect == Spec => []TypeOK
  <1>1. WalletInv => TypeOK
    BY DEF WalletInv
  <1> QED
    BY <1>1, WalletInvariant, PTL

\* However many sessions charge at once, none pushes the balance below the limit.
THEOREM BalanceSafety == Spec => []BalanceAboveLimit
  <1>1. WalletInv => BalanceAboveLimit
    BY DEF WalletInv
  <1> QED
    BY <1>1, WalletInvariant, PTL

\* A charge that is retried under its reference is made once.
THEOREM ChargeSafety == Spec => []ChargedOncePerReference
  <1>1. WalletInv => ChargedOncePerReference
    BY DEF WalletInv
  <1> QED
    BY <1>1, WalletInvariant, PTL

\* An order is credited exactly once when it is paid, and never otherwise.
THEOREM PurchaseSafety == Spec => []PaidOrderIsCredited
  <1>1. WalletInv => PaidOrderIsCredited
    BY DEF WalletInv, PurchaseInv
  <1> QED
    BY <1>1, WalletInvariant, PTL

(***************************************************************************)
(* The statement-level transactions implement the atomic account           *)
(***************************************************************************)
\* A charge takes its cost from the balance at the instant it commits.
LEMMA ChargeRefines ==
  ASSUME WalletInv, NEW s \in Sessions, CommitCharge(s)
  PROVE  [Account!Next]_Account!vars
  <1> DEFINE r == op[s].subject
             cost == op[s].amount
  <1>1. /\ Ready(s, "charge") /\ op[s].kind = "charge"
        /\ seen[s] = balance
    BY ReadyHasUser DEF CommitCharge, Ready, Writers
  <1>2. /\ r \in References \cup {None} /\ cost \in Costs
        /\ op[s].ref = IF r = None THEN NoReference ELSE ChargeRef(r)
    BY <1>1 DEF WalletInv, OpOK
  <1>3. CASE UNCHANGED <<balance, ledger, historyVars>>
    BY <1>3 DEF historyVars, Account!vars
  <1>4. CASE /\ ~AlreadyCharged(op[s].ref) /\ Affordable(seen[s], cost)
             /\ balance' = seen[s] - cost
             /\ drawn' = [drawn EXCEPT ![r] = @ + cost] /\ UNCHANGED granted
    <2>1. r \in References => drawn[r] = 0
      <3> SUFFICES ASSUME r \in References, drawn[r] # 0 PROVE FALSE
        OBVIOUS
      <3>1. op[s].ref = ChargeRef(r) /\ ChargeRef(r) # NoReference
        BY <1>2, WalletAssumption DEF ChargeRef, NoReference
      <3>2. PICK i \in DOMAIN ledger : ledger[i].ref = ChargeRef(r)
        BY DEF WalletInv, ChargedOncePerReference
      <3> QED
        BY <1>4, <3>1, <3>2 DEF AlreadyCharged, Recorded, LedgerRefs
    <2>2. Account!Charge(r, cost)
      BY <1>1, <1>4, <2>1 DEF Account!Charge, Affordable, Limit
    <2> HIDE DEF r, cost
    <2> QED
      BY <1>2, <2>2 DEF Account!Next, Costs
  <1> QED
    BY <1>3, <1>4 DEF CommitCharge

\* An order is purchased when its payment is recorded first, not when repeated.
LEMMA RechargeRefines ==
  ASSUME WalletInv, NEW s \in Sessions, CommitRecharge(s)
  PROVE  [Account!Next]_Account!vars
  <1> DEFINE o == op[s].subject
  <1>1. Ready(s, "recharge") /\ op[s].kind = "recharge" /\ seen[s] = balance
    BY ReadyHasUser DEF CommitRecharge, Ready, Writers
  <1>2. o \in Orders
    BY <1>1 DEF WalletInv, OpOK
  <1>3. CASE UNCHANGED <<balance, ledger, wallet, purchases, historyVars>>
    BY <1>3 DEF historyVars, Account!vars
  <1>4. CASE /\ o \notin purchases
             /\ balance' = NotNegative(seen[s]) + OrderCredits
             /\ granted' = [granted EXCEPT ![o] = granted[o] + 1] /\ UNCHANGED drawn
    <2>1. granted[o] = 0
      BY <1>2, <1>4 DEF WalletInv, PurchaseInv, PaidOrderIsCredited
    <2>2. Account!Purchase(o)
      BY <1>1, <1>4, <2>1
         DEF Account!Purchase, Account!NotNegative, NotNegative, AtLeast
    <2> QED
      BY <1>2, <2>2 DEF Account!Next
  <1> QED
    BY <1>3, <1>4 DEF CommitRecharge, SetBalance

\* The credits of the platform are grants or settlements.
LEMMA SettleRefines ==
  ASSUME WalletInv, NEW s \in Sessions,
         CommitCredit(s) \/ CommitAdjust(s) \/ CommitReset(s)
  PROVE  [Account!Next]_Account!vars
  <1>1. UNCHANGED <<drawn, granted>>
    BY DEF CommitCredit, CommitAdjust, CommitReset, historyVars
  <1>2. balance' \in Nat \/ balance' >= balance
    <2>1. CASE CommitCredit(s)
      <3>1. op[s].amount \in Nat /\ balance \in Int
        BY <2>1 DEF CommitCredit, Ready, WalletInv, OpOK, TypeOK
      <3> QED
        BY <2>1, <3>1 DEF CommitCredit, SetBalance
    <2>2. CASE CommitAdjust(s)
      <3> DEFINE delta == EffectiveDelta(op[s].amount)
      <3>1. wallet \in Nat /\ op[s].amount \in Int /\ seen[s] \in Int
        BY DEF WalletInv, TypeOK, Requests
      <3>2. seen[s] + delta \in Int
        BY <3>1 DEF EffectiveDelta, AdjustedWallet, NotNegative, AtLeast
      <3> HIDE DEF delta
      <3>3. NotNegative(seen[s] + delta) \in Nat
        BY <3>2, NotNegativeType
      <3> QED
        BY <2>2, <3>3 DEF CommitAdjust, delta
    <2>3. CASE CommitReset(s)
      <3>1. op[s].amount \in Nat
        BY <2>3 DEF CommitReset, Ready, WalletInv, OpOK
      <3> QED
        BY <2>3, <3>1 DEF CommitReset, SetBalance
    <2> QED
      BY <2>1, <2>2, <2>3
  <1> QED
    BY <1>1, <1>2 DEF Account!Next, Account!Grant, Account!Settle

\* Every step of the transactions is a step of the account or a stutter.
LEMMA StepRefines ==
  ASSUME WalletInv, [Next]_vars
  PROVE  [Account!Next]_Account!vars
  <1>1. ASSUME NEW s \in Sessions, End(s)
        PROVE  [Account!Next]_Account!vars
    <2>1. CASE CommitAlreadyPaid(s) \/ CommitFailed(s)
      BY <2>1 DEF CommitAlreadyPaid, CommitFailed, accountVars, historyVars, Account!vars
    <2> QED
      BY <1>1, <2>1, ChargeRefines, RechargeRefines, SettleRefines DEF End
  <1>2. CASE \/ \E s \in Sessions, a \in Actions : Admit(s, a)
             \/ \E s \in Sessions : Finish(s)
             \/ \E o \in Orders : Pay(o)
             \/ NextDay \/ Quiet \/ UNCHANGED vars
    BY <1>2 DEF Admit, Finish, Pay, NextDay, Quiet, accountVars, historyVars, vars,
                Account!vars
  <1>3. CASE \/ \E s \in Sessions, a \in Actions, r \in References \cup {None} :
                  StartCharge(s, a, r)
             \/ \E s \in Sessions : StartCredit(s) \/ StartAdmin(s) \/ StartRenewal(s)
             \/ \E s \in Sessions, o \in Orders : ReportPaid(s, o) \/ ReportFailed(s, o)
    BY <1>3 DEF StartCharge, StartCredit, StartAdmin, StartRenewal, ReportPaid,
                ReportFailed, Begin, accountVars, historyVars, Account!vars
  <1>4. CASE \E s \in Sessions : Lock(s) \/ Deadlock(s) \/ Fail(s)
    BY <1>4 DEF Lock, Deadlock, Fail, Rollback, accountVars, historyVars, Account!vars
  <1> QED
    BY <1>1, <1>2, <1>3, <1>4 DEF Next

\* Whatever transactions overlap, fail or are aborted, the balance changes as if
\* each charge, purchase and settlement were one atomic step.
THEOREM Implementation == Spec => ImplementsAccount
  <1>1. Init => Account!Init
    BY WalletAssumption DEF Init, Account!Init
  <1>2. WalletInv /\ [Next]_vars => [Account!Next]_Account!vars
    BY StepRefines
  <1> QED
    BY <1>1, <1>2, WalletInvariant, PTL DEF Spec, ImplementsAccount, Account!Spec

(***************************************************************************)
(* The ledger tells the balance                                            *)
(***************************************************************************)
\* What a step leaves alone that ends no transaction.
Kept == UNCHANGED <<balance, ledger, purchases, nextDue>> /\ today' >= today

\* References of different kinds differ, and none is NoReference.
LEMMA RefsDiffer ==
  /\ \A o \in Orders : OrderRef(o) \notin {NoReference, SignupRef}
  /\ \A d \in Nat : RenewalRef(d) \notin {NoReference, SignupRef}
  /\ \A o \in Orders, d \in Nat : OrderRef(o) # RenewalRef(d)
  /\ SignupRef # NoReference
  /\ \A r \in References, o \in Orders, d \in Nat :
       ChargeRef(r) \notin {SignupRef, OrderRef(o), RenewalRef(d)}
  /\ \A o, p \in Orders : OrderRef(o) = OrderRef(p) => o = p
  /\ \A d, e \in Nat : RenewalRef(d) = RenewalRef(e) => d = e
  BY DEF OrderRef, RenewalRef, SignupRef, ChargeRef, NoReference

\* A ledger row that is not skipped carries the new balance.
LEMMA LedgerTells ==
  ASSUME WalletInv, NEW ref \in AllRefs, NEW amount \in Int, NEW after \in Int, ~Recorded(ref),
         ledger' = LedgerWith(ref, amount, after), balance' = after
  PROVE  /\ LedgerTellsBalance'
         /\ \A r : Recorded(r)' => Recorded(r) \/ r = ref
  <1> DEFINE new == [ref |-> ref, amount |-> amount, after |-> after]
  <1>1. ledger \in Seq(LedgerRows) /\ new \in LedgerRows
    BY DEF WalletInv, TypeOK, LedgerRows
  <1>2. ledger' = Append(ledger, new)
    BY DEF LedgerWith
  <1>3. new.ref = ref /\ new.after = after
    OBVIOUS
  <1> HIDE DEF new
  <1>4. Len(ledger') = Len(ledger) + 1 /\ ledger'[Len(ledger')] = new
    BY <1>1, <1>2
  <1>5. \A i \in DOMAIN ledger' : ledger'[i] = new \/ \E j \in DOMAIN ledger : ledger'[i] = ledger[j]
    <2> SUFFICES ASSUME NEW i \in DOMAIN ledger', i # Len(ledger) + 1
                 PROVE  i \in DOMAIN ledger /\ ledger'[i] = ledger[i]
      BY <1>4
    <2>1. i \in 1..(Len(ledger) + 1)
      BY <1>1, <1>2
    <2> QED
      BY <1>1, <1>2, <2>1
  <1>6. \A r \in LedgerRefs' : r \in LedgerRefs \/ r = ref
    BY <1>3, <1>5 DEF LedgerRefs
  <1> QED
    BY <1>3, <1>4, <1>6 DEF LedgerTellsBalance, Recorded

\* A step that leaves the account alone: a request may begin or end.
LEMMA LedgerUntouched ==
  ASSUME WalletInv, LedgerInvariant, Kept,
         \A s \in Sessions : RefIsOwn(s)', OneAtATime("signup")', OneAtATime("renew")'
  PROVE  LedgerInvariant'
  BY DEF LedgerInvariant, Kept, LedgerTellsBalance, Recorded, LedgerRefs

\* A session that goes idle, or back to its work, takes nothing with it.
LEMMA RefsOfTheRest ==
  ASSUME WalletInv, LedgerInvariant, NEW s \in Sessions, NEW new,
         op' = [op EXCEPT ![s] = new],
         new.kind \in {"idle", "work"},
         today' >= today, today' \in Nat,
         \A t \in Sessions \ {s} :
           /\ op[t].kind = "signup" /\ ~Recorded(SignupRef) => ~Recorded(SignupRef)'
           /\ op[t].kind = "renew" => nextDue' = nextDue
  PROVE  /\ \A t \in Sessions : RefIsOwn(t)'
         /\ OneAtATime("signup")' /\ OneAtATime("renew")'
  <1>1. op'[s] = new /\ \A t \in Sessions \ {s} : op'[t] = op[t]
    BY DEF WalletInv, TypeOK
  <1>2. ASSUME NEW t \in Sessions
        PROVE  RefIsOwn(t)'
    <2>1. CASE t = s
      BY <1>1, <2>1 DEF RefIsOwn
    <2>2. CASE t # s
      <3>1. RefIsOwn(t) /\ op'[t] = op[t] /\ today \in Nat
        BY <1>1, <2>2 DEF LedgerInvariant, WalletInv, TypeOK
      <3>2. op'[t].kind = "signup" => op'[t].ref = SignupRef /\ ~Recorded(SignupRef)'
        BY <2>2, <3>1 DEF RefIsOwn
      <3>3. op'[t].kind = "renew" => \E d \in 0..today' : op'[t].ref = RenewalRef(d) /\ nextDue' <= d
        BY <2>2, <3>1 DEF RefIsOwn
      <3> QED
        BY <3>1, <3>2, <3>3 DEF RefIsOwn
    <2> QED
      BY <2>1, <2>2
  <1>3. \A k \in {"signup", "renew"} : OneAtATime(k)'
    BY <1>1 DEF LedgerInvariant, OneAtATime
  <1> QED
    BY <1>2, <1>3

\* A request begins under a reference that has no row yet.
LEMMA BeginKeepsLedger ==
  ASSUME WalletInv, LedgerInvariant, NEW s \in Sessions, NEW request,
         Begin(s, request),
         /\ request.kind = "signup" => request.ref = SignupRef /\ NeverSignedUp
         /\ request.kind \in {"activate", "adjust", "reset"} => request.ref = NoReference
         /\ request.kind = "recharge" => request.ref = OrderRef(request.subject)
         /\ request.kind = "renew" =>
              /\ request.ref = RenewalRef(today) /\ nextDue <= today
              /\ \A t \in Sessions : op[t].kind # "renew"
  PROVE  LedgerInvariant'
  <1>1. op'[s] = request /\ \A t \in Sessions \ {s} : op'[t] = op[t]
    BY DEF Begin, WalletInv, TypeOK
  <1>2. UNCHANGED <<balance, ledger, purchases, nextDue, today>> /\ today \in 0..today
    BY DEF Begin, accountVars, WalletInv, TypeOK
  <1>3. Recorded(SignupRef)' <=> Recorded(SignupRef)
    BY <1>2 DEF Recorded, LedgerRefs
  <1>4. ASSUME NEW t \in Sessions
        PROVE  RefIsOwn(t)'
    <2>1. CASE t = s
      BY <1>1, <1>2, <1>3, <2>1 DEF RefIsOwn, NeverSignedUp
    <2>2. CASE t # s
      <3>1. RefIsOwn(t) /\ op'[t] = op[t]
        BY <1>1, <2>2 DEF LedgerInvariant
      <3> QED
        BY <1>2, <1>3, <3>1 DEF RefIsOwn
    <2> QED
      BY <2>1, <2>2
  <1>5. OneAtATime("signup")' /\ OneAtATime("renew")'
    BY <1>1 DEF LedgerInvariant, OneAtATime, NeverSignedUp
  <1>6. Kept
    BY <1>2 DEF Kept, WalletInv, TypeOK
  <1> QED
    BY <1>4, <1>5, <1>6, LedgerUntouched

\* A transaction that commits writes the balance and a row that is not skipped,
\* or neither.
LEMMA CommitKeepsLedger ==
  ASSUME WalletInv, LedgerInvariant, NEW s \in Sessions, Commit(s), NEW amount \in Int,
         \/ UNCHANGED <<balance, ledger>>
         \/ /\ ~Recorded(op[s].ref) /\ balance' \in Int
            /\ ledger' = LedgerWith(op[s].ref, amount, balance'),
         purchases \subseteq purchases',
         \A o \in Orders : op[s].ref = OrderRef(o) => o \in purchases',
         nextDue' \in Nat, nextDue' >= nextDue, nextDue' # nextDue => op[s].kind = "renew",
         \A d \in 0..MaxDay : op[s].ref = RenewalRef(d) => d < nextDue',
         op[s].ref = SignupRef => op[s].kind = "signup"
  PROVE  LedgerInvariant'
  <1>1. /\ nextDue \in Nat /\ today \in Nat /\ op[s].ref \in AllRefs /\ 0..MaxDay \subseteq Nat
    BY RequestType, DaysType
  <1>2. /\ LedgerTellsBalance'
        /\ \A r : Recorded(r)' => Recorded(r) \/ r = op[s].ref
    <2>1. CASE UNCHANGED <<balance, ledger>>
      BY <2>1 DEF LedgerInvariant, LedgerTellsBalance, Recorded, LedgerRefs
    <2>2. CASE /\ ~Recorded(op[s].ref) /\ balance' \in Int
               /\ ledger' = LedgerWith(op[s].ref, amount, balance')
      BY <1>1, <2>2, LedgerTells
    <2> QED
      BY <2>1, <2>2
  <1>3. PICK new \in {IdleOp, WorkOp} : op' = [op EXCEPT ![s] = new]
    BY DEF Commit, Release
  <1>4. new.kind \in {"idle", "work"} /\ UNCHANGED today
    BY DEF IdleOp, WorkOp, Request, Commit
  <1>5. \A t \in Sessions \ {s} :
          /\ op[t].kind = "signup" /\ ~Recorded(SignupRef) => ~Recorded(SignupRef)'
          /\ op[t].kind = "renew" => nextDue' = nextDue
    BY <1>2 DEF LedgerInvariant, OneAtATime
  <1>6. /\ \A t \in Sessions : RefIsOwn(t)'
        /\ OneAtATime("signup")' /\ OneAtATime("renew")'
    <2>1. today' >= today /\ today' \in Nat
      BY <1>1, <1>4
    <2> QED
      BY <1>3, <1>4, <1>5, <2>1, RefsOfTheRest
  <1>7. \A o \in Orders : Recorded(OrderRef(o))' => o \in purchases'
    BY <1>2 DEF LedgerInvariant
  <1>8. ASSUME NEW d \in 0..MaxDay, Recorded(RenewalRef(d))'
        PROVE  d < nextDue'
    <2>1. Recorded(RenewalRef(d)) \/ op[s].ref = RenewalRef(d)
      BY <1>2, <1>8
    <2>2. CASE Recorded(RenewalRef(d))
      <3>1. d < nextDue
        BY <2>2 DEF LedgerInvariant
      <3> QED
        BY <1>1, <3>1
    <2> QED
      BY <2>1, <2>2
  <1> QED
    BY <1>2, <1>6, <1>7, <1>8 DEF LedgerInvariant
\* No reference of another kind is that of an order, a renewal or a signup.
LEMMA OwnRefs ==
  ASSUME WalletInv, NEW s \in Sessions, RefIsOwn(s)
  PROVE  /\ op[s].kind = "charge" =>
              /\ \A o \in Orders : op[s].ref # OrderRef(o)
              /\ \A d \in Nat : op[s].ref # RenewalRef(d)
              /\ op[s].ref # SignupRef
         /\ op[s].kind = "recharge" =>
              /\ \A o \in Orders : op[s].ref = OrderRef(o) => o = op[s].subject
              /\ \A d \in Nat : op[s].ref # RenewalRef(d)
              /\ op[s].ref # SignupRef
  <1>1. CASE op[s].kind = "charge"
    <2>1. op[s].ref = NoReference \/ \E r \in References : op[s].ref = ChargeRef(r)
      BY <1>1 DEF WalletInv, OpOK
    <2> QED
      BY <1>1, <2>1 DEF OrderRef, RenewalRef, SignupRef, ChargeRef, NoReference
  <1>2. CASE op[s].kind = "recharge"
    <2>1. op[s].ref = OrderRef(op[s].subject)
      BY <1>2 DEF RefIsOwn
    <2> QED
      BY <1>2, <2>1 DEF OrderRef, RenewalRef, SignupRef
  <1> QED
    BY <1>1, <1>2

\* A charge writes both or neither.
LEMMA ChargeKeepsLedger ==
  ASSUME WalletInv, LedgerInvariant, NEW s \in Sessions, CommitCharge(s)
  PROVE  LedgerInvariant'
  <1>1. op[s].kind = "charge" /\ Commit(s) /\ UNCHANGED <<purchases, nextDue>>
    BY DEF CommitCharge, Ready
  <1>2. nextDue \in Nat /\ seen[s] \in Int /\ op[s].amount \in Int /\ 0..MaxDay \subseteq Nat
    BY RequestType, DaysType
  <1>3. /\ \A o \in Orders : op[s].ref # OrderRef(o)
        /\ \A d \in Nat : op[s].ref # RenewalRef(d)
        /\ op[s].ref # SignupRef
    BY <1>1, OwnRefs DEF LedgerInvariant
  <1>4. -op[s].amount \in Int /\ seen[s] - op[s].amount \in Int
    BY <1>2
  <1>5. \/ UNCHANGED <<balance, ledger>>
        \/ /\ ~Recorded(op[s].ref) /\ balance' \in Int
           /\ ledger' = LedgerWith(op[s].ref, -op[s].amount, balance')
    BY <1>4 DEF CommitCharge, AlreadyCharged
  <1>6. nextDue' \in Nat /\ nextDue' >= nextDue
    BY <1>1, <1>2
  <1> QED
    BY <1>1, <1>2, <1>3, <1>4, <1>5, <1>6, CommitKeepsLedger

\* A signup, an activation and a reset find no row under their reference.
LEMMA GrantKeepsLedger ==
  ASSUME WalletInv, LedgerInvariant, NEW s \in Sessions,
         op[s].kind \in {"signup", "activate", "adjust", "reset"},
         Commit(s), NEW amount \in Int,
         \/ UNCHANGED <<balance, ledger>>
         \/ balance' \in Int /\ ledger' = LedgerWith(op[s].ref, amount, balance'),
         UNCHANGED <<purchases, nextDue>>
  PROVE  LedgerInvariant'
  <1>1. nextDue \in Nat /\ 0..MaxDay \subseteq Nat
    BY WalletAssumption DEF WalletInv, TypeOK
  <1>2. /\ op[s].ref \in {SignupRef, NoReference} /\ ~Recorded(op[s].ref)
        /\ op[s].ref = SignupRef => op[s].kind = "signup"
    BY RefsDiffer DEF LedgerInvariant, RefIsOwn, Recorded
  <1>3. /\ \A o \in Orders : op[s].ref # OrderRef(o)
        /\ \A d \in Nat : op[s].ref # RenewalRef(d)
    BY <1>2, RefsDiffer
  <1>4. nextDue' \in Nat /\ nextDue' >= nextDue
    BY <1>1
  <1> QED
    BY <1>1, <1>2, <1>3, <1>4, CommitKeepsLedger

\* An order that is not purchased has no row.
LEMMA RechargeKeepsLedger ==
  ASSUME WalletInv, LedgerInvariant, NEW s \in Sessions, CommitRecharge(s)
  PROVE  LedgerInvariant'
  <1> DEFINE o == op[s].subject
             after == NotNegative(seen[s]) + OrderCredits
  <1>1. op[s].kind = "recharge" /\ Commit(s) /\ UNCHANGED nextDue
    BY DEF CommitRecharge, Ready
  <1>2. /\ nextDue \in Nat /\ seen[s] \in Int /\ op[s].amount \in Int /\ 0..MaxDay \subseteq Nat
        /\ o \in Orders /\ op[s].ref = OrderRef(o) /\ OrderCredits \in Nat
    <2>1. nextDue \in Nat /\ seen[s] \in Int /\ op[s].amount \in Int /\ 0..MaxDay \subseteq Nat
      BY RequestType, DaysType
    <2>2. o \in Orders /\ op[s].ref = OrderRef(o)
      BY <1>1 DEF WalletInv, OpOK, LedgerInvariant, RefIsOwn
    <2>3. OrderCredits \in Nat
      BY WalletAssumption
    <2> QED
      BY <2>1, <2>2, <2>3
  <1>3. /\ \A p \in Orders : op[s].ref = OrderRef(p) => p = o
        /\ \A d \in Nat : op[s].ref # RenewalRef(d)
        /\ op[s].ref # SignupRef
    BY <1>1, OwnRefs DEF LedgerInvariant
  <1>4. after \in Int
    BY <1>2, NotNegativeType
  <1>5. purchases' = purchases \cup {o}
    BY DEF CommitRecharge
  <1>6. \/ UNCHANGED <<balance, ledger>>
        \/ /\ ~Recorded(op[s].ref) /\ balance' \in Int
           /\ ledger' = LedgerWith(op[s].ref, op[s].amount, balance')
    <2>1. o \notin purchases => ~Recorded(op[s].ref)
      BY <1>2 DEF LedgerInvariant
    <2> QED
      BY <1>4, <2>1 DEF CommitRecharge, SetBalance
  <1>7. nextDue' \in Nat /\ nextDue' >= nextDue
    BY <1>1, <1>2
  <1> QED
    BY <1>1, <1>2, <1>3, <1>5, <1>6, <1>7, CommitKeepsLedger

\* A renewal that is not a period late passes its own day.
LEMMA RenewalKeepsLedger ==
  ASSUME WalletInv, LedgerInvariant, RenewalsKeepUp, NEW s \in Sessions,
         CommitReset(s), Ready(s, "renew")
  PROVE  LedgerInvariant'
  <1>1. op[s].kind = "renew" /\ Commit(s) /\ UNCHANGED purchases
    BY DEF CommitReset, Ready
  <1>2. /\ nextDue \in Nat /\ today \in 0..MaxDay /\ op[s].amount \in Int
        /\ MaxDay \in Nat /\ Month \in Nat
    BY RequestType, DaysType, WalletAssumption
  <1>3. PICK d \in 0..today : op[s].ref = RenewalRef(d) /\ nextDue <= d
    BY <1>1 DEF LedgerInvariant, RefIsOwn
  <1>4. d \in 0..MaxDay /\ ~(d < nextDue) /\ d < nextDue + Month
    BY <1>2, <1>3 DEF RenewalsKeepUp
  <1>5. ~Recorded(op[s].ref)
    BY <1>3, <1>4 DEF LedgerInvariant
  <1>6. /\ nextDue' = nextDue + Month
        /\ balance' = op[s].amount /\ ledger' = LedgerWith(op[s].ref, op[s].amount, balance')
    BY <1>1 DEF CommitReset, Ready, SetBalance
  <1>7. /\ \A o \in Orders : op[s].ref # OrderRef(o)
        /\ \A e \in 0..MaxDay : op[s].ref = RenewalRef(e) => e < nextDue'
        /\ op[s].ref # SignupRef
    BY <1>2, <1>3, <1>4, <1>6, RefsDiffer
  <1>8. nextDue' \in Nat /\ nextDue' >= nextDue
    BY <1>2, <1>6
  <1> QED
    BY <1>1, <1>2, <1>5, <1>6, <1>7, <1>8, CommitKeepsLedger

\* So does every transaction that commits.
LEMMA EndKeepsLedger ==
  ASSUME WalletInv, LedgerInvariant, RenewalsKeepUp, NEW s \in Sessions, End(s)
  PROVE  LedgerInvariant'
  <1>1. balance \in Int /\ op[s].amount \in Int /\ seen[s] \in Int /\ wallet \in Nat
    BY DEF WalletInv, TypeOK, Requests
  <1>2. CASE CommitCredit(s)
    <2>1. op[s].kind \in {"signup", "activate"} /\ Commit(s) /\ UNCHANGED <<purchases, nextDue>>
      BY <1>2 DEF CommitCredit, Ready
    <2>2. balance + op[s].amount \in Int
      BY <1>1
    <2>3. \/ UNCHANGED <<balance, ledger>>
          \/ balance' \in Int /\ ledger' = LedgerWith(op[s].ref, op[s].amount, balance')
      BY <1>1, <1>2, <2>2 DEF CommitCredit, SetBalance
    <2> QED
      BY <1>1, <2>1, <2>3, GrantKeepsLedger
  <1>3. CASE CommitAdjust(s)
    <2> DEFINE delta == EffectiveDelta(op[s].amount)
    <2>1. op[s].kind = "adjust" /\ Commit(s) /\ UNCHANGED <<purchases, nextDue>>
      BY <1>3 DEF CommitAdjust, Ready
    <2>2. delta \in Int
      BY <1>1 DEF EffectiveDelta, AdjustedWallet, NotNegative, AtLeast
    <2>3. balance' = NotNegative(seen[s] + delta) /\ ledger' = LedgerWith(op[s].ref, delta, balance')
      BY <1>3 DEF CommitAdjust
    <2> HIDE DEF delta
    <2>4. seen[s] + delta \in Int
      BY <1>1, <2>2
    <2>5. balance' \in Int
      BY <2>3, <2>4, NotNegativeType
    <2> QED
      BY <2>1, <2>2, <2>3, <2>5, GrantKeepsLedger
  <1>4. CASE CommitReset(s) /\ ~Ready(s, "renew")
    <2>1. op[s].kind = "reset" /\ Commit(s) /\ UNCHANGED <<purchases, nextDue>>
      BY <1>4 DEF CommitReset, Ready
    <2>2. balance' \in Int /\ ledger' = LedgerWith(op[s].ref, op[s].amount, balance')
      BY <1>1, <1>4 DEF CommitReset, SetBalance
    <2> QED
      BY <1>1, <2>1, <2>2, GrantKeepsLedger
  <1>5. CASE CommitAlreadyPaid(s) \/ CommitFailed(s)
    <2>1. /\ op[s].kind \in {"recharge", "failed"} /\ Commit(s)
          /\ UNCHANGED <<balance, ledger, purchases, nextDue>>
      BY <1>5 DEF CommitAlreadyPaid, CommitFailed, Stops, Ready, accountVars
    <2>2. today \in Nat /\ today' = today
      BY <2>1 DEF WalletInv, TypeOK, Commit
    <2>3. Kept /\ today' >= today /\ today' \in Nat
      BY <2>1, <2>2 DEF Kept
    <2>4. PICK new \in {IdleOp, WorkOp} : op' = [op EXCEPT ![s] = new]
      BY <2>1 DEF Commit, Release
    <2>5. new.kind \in {"idle", "work"}
      BY DEF IdleOp, WorkOp, Request
    <2>6. Recorded(SignupRef)' <=> Recorded(SignupRef)
      BY <2>1 DEF Recorded, LedgerRefs
    <2>7. /\ \A t \in Sessions : RefIsOwn(t)'
          /\ OneAtATime("signup")' /\ OneAtATime("renew")'
      BY <2>1, <2>3, <2>4, <2>5, <2>6, RefsOfTheRest
    <2> QED
      BY <2>3, <2>7, LedgerUntouched
  <1> QED
    BY <1>2, <1>3, <1>4, <1>5, ChargeKeepsLedger, RechargeKeepsLedger, RenewalKeepsLedger
       DEF End

\* A request begins with a reference of its own.
LEMMA StartKeepsLedger ==
  ASSUME WalletInv, LedgerInvariant, NEW s \in Sessions,
         \/ \E a \in Actions, r \in References \cup {None} : StartCharge(s, a, r)
         \/ StartCredit(s) \/ StartAdmin(s) \/ StartRenewal(s)
         \/ \E o \in Orders : ReportPaid(s, o) \/ ReportFailed(s, o)
  PROVE  LedgerInvariant'
  <1>1. CASE \E a \in Actions, r \in References \cup {None} : StartCharge(s, a, r)
    BY <1>1, BeginKeepsLedger DEF StartCharge, Request
  <1>2. CASE StartCredit(s)
    BY <1>2, BeginKeepsLedger DEF StartCredit, Request
  <1>3. CASE StartAdmin(s)
    BY <1>3, BeginKeepsLedger DEF StartAdmin, Request
  <1>4. CASE StartRenewal(s)
    BY <1>4, BeginKeepsLedger DEF StartRenewal, Request
  <1>5. CASE \E o \in Orders : ReportPaid(s, o) \/ ReportFailed(s, o)
    BY <1>5, BeginKeepsLedger DEF ReportPaid, ReportFailed, Request
  <1> QED
    BY <1>1, <1>2, <1>3, <1>4, <1>5

\* Steps that write neither the balance nor the ledger.
LEMMA RestKeepsLedger ==
  ASSUME WalletInv, LedgerInvariant,
         \/ \E s \in Sessions, a \in Actions : Admit(s, a)
         \/ \E s \in Sessions : Finish(s) \/ Lock(s) \/ Deadlock(s) \/ Fail(s)
         \/ \E o \in Orders : Pay(o)
         \/ NextDay \/ Quiet \/ UNCHANGED vars
  PROVE  LedgerInvariant'
  <1>1. today \in Nat
    BY DEF WalletInv, TypeOK
  <1>2. UNCHANGED <<balance, ledger, purchases, nextDue>>
    BY DEF Admit, Finish, Lock, Deadlock, Fail, Rollback, Pay, NextDay, Quiet, accountVars, vars
  <1>3. today' = today \/ today' = today + 1
    BY DEF Admit, Finish, Lock, Deadlock, Fail, Rollback, Pay, NextDay, Quiet, vars
  <1>4. today' >= today /\ today' \in Nat
    BY <1>1, <1>3
  <1>5. Kept
    BY <1>2, <1>4 DEF Kept
  <1>6. Recorded(SignupRef)' <=> Recorded(SignupRef)
    BY <1>2 DEF Recorded, LedgerRefs
  <1>7. /\ \A t \in Sessions : RefIsOwn(t)'
        /\ OneAtATime("signup")' /\ OneAtATime("renew")'
    <2>1. CASE UNCHANGED op
      <3>1. ASSUME NEW t \in Sessions PROVE RefIsOwn(t)'
        <4>1. RefIsOwn(t)
          BY DEF LedgerInvariant
        <4>2. \A d \in 0..today : d \in 0..today'
          BY <1>1, <1>4
        <4> QED
          BY <1>2, <1>6, <2>1, <4>1, <4>2 DEF RefIsOwn
      <3> QED
        BY <2>1, <3>1 DEF LedgerInvariant, OneAtATime
    <2>2. CASE \E s \in Sessions : \E new \in {IdleOp, WorkOp} : op' = [op EXCEPT ![s] = new]
      <3>1. \A new \in {IdleOp, WorkOp} : new.kind \in {"idle", "work"}
        BY DEF IdleOp, WorkOp, Request
      <3> QED
        BY <1>2, <1>4, <1>6, <2>2, <3>1, RefsOfTheRest
    <2> QED
      BY <2>1, <2>2 DEF Admit, Finish, Lock, Deadlock, Fail, Rollback, Release, Pay, NextDay,
                        Quiet, vars, sessionVars
  <1> QED
    BY <1>5, <1>7, LedgerUntouched

\* Every step keeps the ledger's invariant while the renewals keep up.
LEMMA StepKeepsLedger ==
  ASSUME WalletInv, LedgerInvariant, RenewalsKeepUp, [Next]_vars
  PROVE  LedgerInvariant'
  BY StartKeepsLedger, RestKeepsLedger, EndKeepsLedger DEF Next

\* It holds before the first request.
LEMMA InitLedger == Init => LedgerInvariant
  BY DEF Init, LedgerInvariant, LedgerTellsBalance, Recorded, LedgerRefs, RefIsOwn,
         OneAtATime, IdleOp, Request

\* As long as no renewal is a whole period late, the latest ledger row shows the
\* balance the user has: no row is skipped as a duplicate while the balance moves.
THEOREM LedgerSafety == Spec /\ []RenewalsKeepUp => []LedgerTellsBalance
  <1>1. WalletInv /\ LedgerInvariant /\ RenewalsKeepUp /\ [Next]_vars => LedgerInvariant'
    BY StepKeepsLedger
  <1>2. LedgerInvariant => LedgerTellsBalance
    BY DEF LedgerInvariant
  <1> QED
    BY <1>1, <1>2, InitLedger, WalletInvariant, PTL DEF Spec
=============================================================================
