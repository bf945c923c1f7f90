---------------------------- MODULE CreditAccount ----------------------------
(* What the credit services promise about one user's balance, whatever      *)
(* requests are at work at the same time: every change is one atomic step.  *)
(* A charge takes exactly its cost from the balance of that moment, once    *)
(* for a reference, and never goes below the limit.  A paid order adds its  *)
(* credits in full, once, a debt being forgiven.  A grant adds to the       *)
(* balance, and a settlement replaces it by one that is not negative.       *)
EXTENDS Integers

CONSTANTS
  References,    \* what makes a charge repeatable
  NoReference,   \* a charge without it
  Costs,         \* what an action may cost, in credits
  Limit,         \* the lowest balance a charge may leave
  Orders,        \* recharge orders
  OrderCredits   \* what an order buys

VARIABLES
  balance,       \* the user's credits
  drawn,         \* credits taken in the name of each reference
  granted        \* how often each order has been credited

vars == <<balance, drawn, granted>>

NotNegative(n) == IF n < 0 THEN 0 ELSE n

Init ==
  /\ balance \in Nat
  /\ drawn = [r \in References \cup {NoReference} |-> 0]
  /\ granted = [o \in Orders |-> 0]

Charge(r, cost) ==
  /\ r \in References => drawn[r] = 0
  /\ balance - cost >= Limit
  /\ balance' = balance - cost
  /\ drawn' = [drawn EXCEPT ![r] = @ + cost]
  /\ UNCHANGED granted

Purchase(o) ==
  /\ granted[o] = 0
  /\ balance' = NotNegative(balance) + OrderCredits
  /\ granted' = [granted EXCEPT ![o] = 1]
  /\ UNCHANGED drawn

Grant  == balance' >= balance /\ UNCHANGED <<drawn, granted>>
Settle == balance' \in Nat /\ UNCHANGED <<drawn, granted>>

Next ==
  \/ \E r \in References \cup {NoReference}, cost \in Costs : Charge(r, cost)
  \/ \E o \in Orders : Purchase(o)
  \/ Grant
  \/ Settle

Spec == Init /\ [][Next]_vars
=============================================================================
