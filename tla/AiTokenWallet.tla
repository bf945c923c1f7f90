---------------------------- MODULE AiTokenWallet ----------------------------
(* The AI credits of one workspace owner: users.ai_token_balance, its       *)
(* ledger, the workspace's credit_wallet and its recharge orders, and every *)
(* transaction that writes them: the AI services charge, the billing        *)
(* webhooks and the monthly renewal credit, the administrator adjusts and   *)
(* resets.  A transaction locks its rows one after the other, in the order  *)
(* of its statements, and what it writes becomes visible when it commits.   *)
(* Rows are locked by SELECT ... FOR UPDATE, by an UPDATE or by an upsert.  *)
EXTENDS Integers, Sequences

CONSTANTS
  Sessions,         \* database sessions, one per request at work
  Actions,          \* AI actions
  HardGated,        \* HARD_GATED_ACTIONS
  ActionCost,       \* AI_TOKEN_COSTS
  MaxTokenCredits,  \* what a large reply may cost by its tokens
  GraceBuffer,      \* - AI_CREDIT_GRACE_LIMIT
  TrialCredits,     \* the seed of a new account
  SignupQuota,      \* AI_TOKEN_PLAN_QUOTA.trial
  PlanQuota,        \* AI_TOKEN_PLAN_QUOTA of the plan
  MonthlyCredits,   \* plans.monthly_credits and ai_tokens_monthly
  References,       \* references callers give with a charge
  Orders,           \* recharge orders
  OrderCredits,     \* the credits of an order
  Adjustments,      \* what an administrator may add or take
  FirstDue, Month,  \* the first billing day and the days between two
  None,
  Kinds,            \* the transactions a run looks at
  MaxDay, MaxRequests, MaxFailures   \* bounds

TransactionKinds ==
  {"charge", "signup", "activate", "recharge", "failed", "adjust", "reset", "renew"}

ASSUME WalletAssumption ==
  /\ HardGated \subseteq Actions
  /\ ActionCost \in [Actions -> Nat \ {0}]
  /\ {MaxTokenCredits, GraceBuffer, TrialCredits, SignupQuota, PlanQuota} \subseteq Nat
  /\ {MonthlyCredits, FirstDue, Month, MaxDay, MaxRequests, MaxFailures} \subseteq Nat
  /\ OrderCredits \in Nat \ {0}
  /\ Adjustments \subseteq Int
  /\ None \notin Actions \cup References \cup Orders \cup Sessions
  /\ Orders \cap {"user", "wallet"} = {}
  /\ Kinds \subseteq TransactionKinds

VARIABLES
  balance,    \* users.ai_token_balance
  ledger,     \* the rows of ai_token_ledger
  wallet,     \* credit_wallet.remaining_credits
  orders,     \* credit_recharge_orders.status
  purchases,  \* the addon_purchase rows of credit_transactions
  nextDue,    \* subscriptions.next_billing_date
  today,
  captured,   \* orders whose payment the gateway has captured ...
  answered,   \* ... and reported, and been answered with success
  op,         \* the request each session is at work on
  want,       \* rows its transaction has still to lock
  mine,       \* rows it has locked
  seen,       \* the balance it read when it locked the user
  requests, failures,
  drawn,      \* history: credits taken in the name of each reference
  granted     \* history: how often each order was credited

accountVars == <<balance, ledger, wallet, orders, purchases, nextDue>>
sessionVars == <<op, want, mine, seen>>
historyVars == <<drawn, granted>>
vars == <<balance, ledger, wallet, orders, purchases, nextDue, today, captured,
          answered, op, want, mine, seen, requests, failures, drawn, granted>>

Limit == -GraceBuffer
AtLeast(low, n) == IF n < low THEN low ELSE n

(***************************************************************************)
(* Ledger references.  Those made of Date.now() never meet another one and *)
(* are NoReference; so are the charges that give none.                     *)
(***************************************************************************)
NoReference  == <<"none", 0>>
ChargeRef(r) == <<"charge", r>>
SignupRef    == <<"signup", 0>>
OrderRef(o)  == <<"recharge", o>>
RenewalRef(day) == <<"renewal", day>>

LedgerRefs == {ledger[i].ref : i \in DOMAIN ledger}
Recorded(ref) == ref # NoReference /\ ref \in LedgerRefs

\* Faulty variant: balance_after is the balance read before the update
LedgerBefore(ref, amount, after) ==
  IF Recorded(ref) THEN ledger
  ELSE Append(ledger, [ref |-> ref, amount |-> amount, after |-> balance])

\* INSERT INTO ai_token_ledger ... ON CONFLICT (user_id, reference_id) DO NOTHING
LedgerWith(ref, amount, after) ==
  IF Recorded(ref) THEN ledger
  ELSE Append(ledger, [ref |-> ref, amount |-> amount, after |-> after])

(***************************************************************************)
(* Requests                                                                *)
(***************************************************************************)
\* subject: the order, or the reference a charge is made for.
Request(kind, ref, subject, amount) ==
  [kind |-> kind, ref |-> ref, subject |-> subject, amount |-> amount]

IdleOp == Request("idle", NoReference, None, 0)
WorkOp == Request("work", NoReference, None, 0)   \* an AI action under way

\* Rows in the order the statements of a transaction lock them.
RowsOf(o) ==
  CASE o.kind \in {"charge", "signup", "activate"} -> <<"user">>
    [] o.kind = "recharge" -> <<o.subject, "user", "wallet">>
    [] o.kind = "failed" -> <<o.subject>>
    [] o.kind \in {"adjust", "reset"} -> <<"wallet", "user">>
    [] o.kind = "renew" -> <<"user", "wallet">>
    [] OTHER -> <<>>

InTransaction(s) == op[s].kind \in TransactionKinds

Init ==
  /\ balance = TrialCredits
  /\ ledger = <<>>
  /\ wallet = TrialCredits
  /\ orders = [o \in Orders |-> "created"]
  /\ purchases = {}
  /\ nextDue = FirstDue
  /\ today = 0
  /\ captured = {}
  /\ answered = {}
  /\ op = [s \in Sessions |-> IdleOp]
  /\ want = [s \in Sessions |-> <<>>]
  /\ mine = [s \in Sessions |-> {}]
  /\ seen = [s \in Sessions |-> 0]
  /\ requests = 0
  /\ failures = 0
  /\ drawn = [r \in References \cup {None} |-> 0]
  /\ granted = [o \in Orders |-> 0]

Begin(s, request) ==
  /\ request.kind \in Kinds
  /\ op' = [op EXCEPT ![s] = request]
  /\ want' = [want EXCEPT ![s] = RowsOf(request)]
  /\ UNCHANGED <<accountVars, today, captured, answered, mine, seen, failures,
                 historyVars>>

Counted == requests < MaxRequests /\ requests' = requests + 1

\* estimateCreditsFromTokens: the price of the action, or of its tokens.
CreditsFor(a, tokenCredits) == AtLeast(ActionCost[a], tokenCredits)

\* requireAiCredit: a plain read before the work starts.
Passes(a, required) ==
  /\ balance - required >= Limit
  /\ a \in HardGated => balance > Limit

Admit(s, a) ==
  /\ op[s] = IdleOp
  /\ \E t \in 0..MaxTokenCredits : Passes(a, CreditsFor(a, t))
  /\ Counted
  /\ op' = [op EXCEPT ![s] = WorkOp]
  /\ UNCHANGED <<accountVars, today, captured, answered, want, mine, seen, failures,
                 historyVars>>

\* chargeUser, once per reply or per chunk, with the tokens really used; the
\* callers do not wait for it.
StartCharge(s, a, r) ==
  /\ op[s] = WorkOp
  /\ \E t \in 0..MaxTokenCredits :
       Begin(s, Request("charge", IF r = None THEN NoReference ELSE ChargeRef(r),
                        r, CreditsFor(a, t)))
  /\ Counted

Finish(s) ==
  /\ op[s] = WorkOp
  /\ op' = [op EXCEPT ![s] = IdleOp]
  /\ UNCHANGED <<accountVars, today, captured, answered, want, mine, seen, requests,
                 failures, historyVars>>

\* creditSignupTokens runs once per user, when the address is verified.
NeverSignedUp ==
  ~Recorded(SignupRef) /\ \A t \in Sessions : op[t].kind # "signup"

StartCredit(s) ==
  /\ op[s] = IdleOp
  /\ \/ NeverSignedUp /\ Begin(s, Request("signup", SignupRef, None, SignupQuota))
     \/ Begin(s, Request("activate", NoReference, None, PlanQuota))
  /\ Counted

StartAdmin(s) ==
  /\ op[s] = IdleOp
  /\ \/ \E d \in Adjustments \ {0} : Begin(s, Request("adjust", NoReference, None, d))
     \/ Begin(s, Request("reset", NoReference, None, MonthlyCredits))
  /\ Counted

\* renewDueWorkspaceCredits: the advisory lock lets one renewal run at a time.
StartRenewal(s) ==
  /\ op[s] = IdleOp
  /\ nextDue <= today
  /\ \A t \in Sessions : op[t].kind # "renew"
  /\ Begin(s, Request("renew", RenewalRef(today), None, MonthlyCredits))
  /\ Counted


(***************************************************************************)
(* The payment gateway (external) reports a captured payment until it is   *)
(* answered with success, and may report it again after that; it reports   *)
(* attempts that failed at any time, even after one that succeeded.        *)
(***************************************************************************)
Pay(o) ==
  /\ "recharge" \in Kinds
  /\ captured' = captured \cup {o}
  /\ o \notin captured
  /\ UNCHANGED <<accountVars, today, answered, sessionVars, requests, failures,
                 historyVars>>

ReportPaid(s, o) ==
  /\ op[s] = IdleOp
  /\ o \in captured
  /\ Begin(s, Request("recharge", OrderRef(o), o, OrderCredits))
  /\ IF o \in answered THEN Counted ELSE UNCHANGED requests

ReportFailed(s, o) ==
  /\ op[s] = IdleOp
  /\ Begin(s, Request("failed", NoReference, o, 0))
  /\ Counted

(***************************************************************************)
(* Transactions                                                            *)
(***************************************************************************)
\* Faulty variant: SELECT without FOR UPDATE
FreeAlways(row) == TRUE

Free(row) == \A t \in Sessions : row \notin mine[t]

\* markRechargeOrderPaidFromWebhook stops after the order row.
AlreadyPaid(o) == orders[o] = "paid"
Stops(s) == op[s].kind = "recharge" /\ mine[s] # {} /\ AlreadyPaid(op[s].subject)

\* A statement waits until nobody else holds its row.
Lock(s) ==
  /\ InTransaction(s)
  /\ want[s] # <<>>
  /\ ~Stops(s)
  /\ LET row == Head(want[s]) IN
       /\ Free(row)
       /\ mine' = [mine EXCEPT ![s] = @ \cup {row}]
       /\ want' = [want EXCEPT ![s] = Tail(@)]
       /\ seen' = IF row = "user" THEN [seen EXCEPT ![s] = balance] ELSE seen
  /\ UNCHANGED <<accountVars, today, captured, answered, op, requests, failures,
                 historyVars>>

\* COMMIT and ROLLBACK release every row; an AI action goes on with its work.
Release(s) ==
  /\ op' = [op EXCEPT ![s] = IF op[s].kind = "charge" THEN WorkOp ELSE IdleOp]
  /\ want' = [want EXCEPT ![s] = <<>>]
  /\ mine' = [mine EXCEPT ![s] = {}]
  /\ seen' = [seen EXCEPT ![s] = 0]

\* Faulty variant: the route answers 200 even when the handler threw
AnsweredAnyway(s, committed) ==
  IF op[s].kind = "recharge" THEN answered \cup {op[s].subject} ELSE answered

\* The webhook route answers 200 after the transaction, and 500 when it throws.
AnsweredAfter(s, committed) ==
  IF committed /\ op[s].kind = "recharge"
  THEN answered \cup {op[s].subject} ELSE answered

Ready(s, kind) == op[s].kind = kind /\ want[s] = <<>>

Commit(s) ==
  /\ Release(s)
  /\ answered' = AnsweredAfter(s, TRUE)
  /\ UNCHANGED <<today, captured, requests, failures>>

\* The two statements that write the balance and its ledger row.
SetBalance(s, after) ==
  /\ balance' = after
  /\ ledger' = LedgerWith(op[s].ref, op[s].amount, after)

\* Faulty variant: the ledger's ON CONFLICT is the only guard
NeverCharged(ref) == FALSE
\* Faulty variant: the balance is compared before the cost is taken
AffordableNow(bal, cost) == bal >= Limit

AlreadyCharged(ref) == Recorded(ref)
Affordable(bal, cost) == bal - cost >= Limit

\* chargeUser: a charge already made, or one too large, takes nothing.
CommitCharge(s) ==
  /\ Ready(s, "charge")
  /\ Commit(s)
  /\ IF AlreadyCharged(op[s].ref) \/ ~Affordable(seen[s], op[s].amount)
     THEN UNCHANGED <<balance, ledger, historyVars>>
     ELSE LET after == seen[s] - op[s].amount IN
          /\ balance' = after
          /\ ledger' = LedgerWith(op[s].ref, -op[s].amount, after)
          /\ drawn' = [drawn EXCEPT ![op[s].subject] = @ + op[s].amount]
          /\ UNCHANGED granted
  /\ UNCHANGED <<wallet, orders, purchases, nextDue>>

\* creditTokensInternal in its two modes; an amount of 0 does nothing.
CommitCredit(s) ==
  /\ \/ /\ Ready(s, "signup")
        /\ IF op[s].amount = 0 THEN UNCHANGED <<balance, ledger>>
           ELSE SetBalance(s, balance + op[s].amount)
     \/ /\ Ready(s, "activate")
        /\ IF op[s].amount = 0 THEN UNCHANGED <<balance, ledger>>
           ELSE SetBalance(s, op[s].amount)
  /\ Commit(s)
  /\ UNCHANGED <<wallet, orders, purchases, nextDue, historyVars>>

NotNegative(n) == AtLeast(0, n)

\* applyRechargeCreditsInTransaction: a payment already in credit_transactions
\* is not credited again; toNonNegativeInteger forgives a debt.
CommitRecharge(s) ==
  LET o == op[s].subject IN
  /\ Ready(s, "recharge")
  /\ orders' = [orders EXCEPT ![o] = "paid"]
  /\ IF o \in purchases
     THEN UNCHANGED <<balance, ledger, wallet, purchases, historyVars>>
     ELSE /\ purchases' = purchases \cup {o}
          /\ SetBalance(s, NotNegative(seen[s]) + OrderCredits)
          /\ wallet' = wallet + OrderCredits
          /\ granted' = [granted EXCEPT ![o] = @ + 1]
          /\ UNCHANGED drawn
  /\ Commit(s)
  /\ UNCHANGED nextDue

CommitAlreadyPaid(s) ==
  /\ Stops(s)
  /\ Commit(s)
  /\ UNCHANGED <<accountVars, historyVars>>

\* Faulty variant: a late report of a failed attempt wins
FailedAlways(status) == "failed"

\* markRechargeOrderFailedFromWebhook
FailedStatus(status) == IF status = "paid" THEN status ELSE "failed"

CommitFailed(s) ==
  /\ Ready(s, "failed")
  /\ orders' = [orders EXCEPT ![op[s].subject] = FailedStatus(@)]
  /\ Commit(s)
  /\ UNCHANGED <<balance, ledger, wallet, purchases, nextDue, historyVars>>

\* adjustWorkspaceCreditsByAdmin: the balance moves by what the wallet could.
\* Nothing uses credits of the wallet, so its remainder is its total.
\* Faulty variant: no lower bound
AdjustedFreely(delta) == wallet + delta

AdjustedWallet(delta) == NotNegative(wallet + delta)
EffectiveDelta(delta) == AdjustedWallet(delta) - wallet

CommitAdjust(s) ==
  LET delta == EffectiveDelta(op[s].amount)
      after == NotNegative(seen[s] + delta) IN
  /\ Ready(s, "adjust")
  /\ wallet' = AdjustedWallet(op[s].amount)
  /\ balance' = after
  /\ ledger' = LedgerWith(op[s].ref, delta, after)
  /\ Commit(s)
  /\ UNCHANGED <<orders, purchases, nextDue, historyVars>>

\* resetWorkspaceWalletByAdmin and renewDueWorkspaceCredits set both.
CommitReset(s) ==
  /\ \/ Ready(s, "reset") /\ UNCHANGED nextDue
     \/ Ready(s, "renew") /\ nextDue' = nextDue + Month
  /\ wallet' = op[s].amount
  /\ SetBalance(s, op[s].amount)
  /\ Commit(s)
  /\ UNCHANGED <<orders, purchases, historyVars>>

Waits(s, t) ==
  /\ s # t /\ InTransaction(s) /\ ~Stops(s)
  /\ want[s] # <<>> /\ Head(want[s]) \in mine[t]

Rollback(s) ==
  /\ InTransaction(s)
  /\ Release(s)
  /\ answered' = AnsweredAfter(s, FALSE)
  /\ UNCHANGED <<accountVars, today, captured, requests, historyVars>>

\* PostgreSQL aborts a transaction of two that wait for each other ...
Deadlock(s) ==
  /\ \E t \in Sessions : Waits(s, t) /\ Waits(t, s)
  /\ Rollback(s)
  /\ UNCHANGED failures

\* ... and any transaction may fail.
Fail(s) == failures < MaxFailures /\ failures' = failures + 1 /\ Rollback(s)

NextDay ==
  /\ today < MaxDay
  /\ today' = today + 1
  /\ UNCHANGED <<accountVars, captured, answered, sessionVars, requests, failures,
                 historyVars>>

End(s) ==
  \/ CommitCharge(s) \/ CommitCredit(s) \/ CommitRecharge(s) \/ CommitAlreadyPaid(s)
  \/ CommitFailed(s) \/ CommitAdjust(s) \/ CommitReset(s)

\* All requests of the bounded run are done.
Quiet ==
  /\ \A s \in Sessions : op[s] = IdleOp
  /\ UNCHANGED vars

Next ==
  \/ \E s \in Sessions, a \in Actions : Admit(s, a)
  \/ \E s \in Sessions, a \in Actions, r \in References \cup {None} : StartCharge(s, a, r)
  \/ \E s \in Sessions : Finish(s)
  \/ \E s \in Sessions : StartCredit(s)
  \/ \E s \in Sessions : StartAdmin(s)
  \/ \E s \in Sessions : StartRenewal(s)
  \/ \E o \in Orders : Pay(o)
  \/ \E s \in Sessions, o \in Orders : ReportPaid(s, o)
  \/ \E s \in Sessions, o \in Orders : ReportFailed(s, o)
  \/ \E s \in Sessions : Lock(s)
  \/ \E s \in Sessions : End(s)
  \/ \E s \in Sessions : Deadlock(s)
  \/ \E s \in Sessions : Fail(s)
  \/ NextDay
  \/ Quiet

Spec == Init /\ [][Next]_vars

(***************************************************************************)
(* Fairness.  PostgreSQL runs a transaction that can go on, gives a row to *)
(* its waiters in order and ends every deadlock; an AI action ends; the    *)
(* gateway repeats a report that was not answered.                         *)
(***************************************************************************)
Fairness ==
  /\ \A s \in Sessions :
       SF_vars(Lock(s)) /\ WF_vars(End(s)) /\ WF_vars(Deadlock(s)) /\ WF_vars(Finish(s))
  /\ \A o \in Orders :
       WF_vars(o \notin answered /\ \E s \in Sessions : ReportPaid(s, o))

FairSpec == Spec /\ Fairness

(***************************************************************************)
(* Types                                                                   *)
(***************************************************************************)
AllRefs == {NoReference, SignupRef} \cup {ChargeRef(r) : r \in References}
             \cup {OrderRef(o) : o \in Orders} \cup {RenewalRef(d) : d \in 0..MaxDay}
Rows == {"user", "wallet"} \cup Orders
LedgerRows == [ref : AllRefs, amount : Int, after : Int]
Requests ==
  [kind : TransactionKinds \cup {"idle", "work"}, ref : AllRefs,
   subject : Orders \cup References \cup {None}, amount : Int]

\* Every variable keeps its type; credit_wallet and the credits of an account
\* never become negative but for the balance, which charges may overdraw.
TypeOK ==
  /\ balance \in Int
  /\ ledger \in Seq(LedgerRows)
  /\ wallet \in Nat
  /\ orders \in [Orders -> {"created", "paid", "failed"}]
  /\ purchases \subseteq Orders
  /\ nextDue \in Nat /\ today \in 0..MaxDay
  /\ captured \subseteq Orders /\ answered \subseteq Orders
  /\ op \in [Sessions -> Requests]
  /\ want \in [Sessions -> Seq(Rows)]
  /\ mine \in [Sessions -> SUBSET Rows]
  /\ seen \in [Sessions -> Int]
  /\ requests \in Nat /\ failures \in Nat
  /\ drawn \in [References \cup {None} -> Nat]
  /\ granted \in [Orders -> Nat]

(***************************************************************************)
(* Properties                                                              *)
(***************************************************************************)
\* However many charges run at once, none pushes the balance below the grace
\* limit (design principles 2 and 5 of ai-token-service.ts).
BalanceAboveLimit == balance >= Limit

\* What was taken from the balance in the name of a reference is what its one
\* ledger row says: "retried requests cannot double-charge".
ChargedOncePerReference ==
  \A r \in References :
    drawn[r] # 0 =>
      \E i \in DOMAIN ledger :
        ledger[i].ref = ChargeRef(r) /\ ledger[i].amount = -drawn[r]

\* An order that is paid has been credited exactly once, and no other has,
\* whatever reports of the gateway are repeated, overtaken or cut short.
PaidOrderIsCredited ==
  \A o \in Orders : granted[o] = IF AlreadyPaid(o) THEN 1 ELSE 0

\* The latest ledger row shows the balance the user has: "Balance updates and
\* ledger inserts are ALWAYS in the same transaction".
LedgerTellsBalance ==
  ledger # <<>> => ledger[Len(ledger)].after = balance

\* No renewal is a whole period late (the timer of server.ts runs every hour).
RenewalsKeepUp == today < nextDue + Month

\* What makes it so: an order, a signup and a renewal have their ledger row
\* once they are done and not before, so that no row is skipped as a duplicate.
RefIsOwn(s) ==
  /\ op[s].kind = "signup" => op[s].ref = SignupRef /\ ~Recorded(SignupRef)
  /\ op[s].kind \in {"activate", "adjust", "reset"} => op[s].ref = NoReference
  /\ op[s].kind = "recharge" => op[s].ref = OrderRef(op[s].subject)
  /\ op[s].kind = "renew" => \E d \in 0..today : op[s].ref = RenewalRef(d) /\ nextDue <= d
OneAtATime(kind) == \A s, t \in Sessions : op[s].kind = kind /\ op[t].kind = kind => s = t
LedgerInvariant ==
  /\ LedgerTellsBalance
  /\ \A o \in Orders : Recorded(OrderRef(o)) => o \in purchases
  /\ \A d \in 0..MaxDay : Recorded(RenewalRef(d)) => d < nextDue
  /\ \A s \in Sessions : RefIsOwn(s)
  /\ OneAtATime("signup") /\ OneAtATime("renew")

\* The statement-level transactions implement the atomic account.
Account == INSTANCE CreditAccount WITH
  NoReference <- None,
  Costs <- {CreditsFor(a, t) : a \in Actions, t \in 0..MaxTokenCredits}
ImplementsAccount == Account!Spec

\* Whatever fails or is aborted on the way, a payment the gateway captured is
\* credited in the end.
CapturedIsCredited == \A o \in Orders : (o \in captured) ~> (granted[o] = 1)

\* "Hard-gated: creation features blocked at balance <= 0".
HardGateHolds ==
  [][\A s \in Sessions, a \in HardGated : Admit(s, a) => balance > 0]_vars
=============================================================================
