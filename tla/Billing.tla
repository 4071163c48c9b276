------------------------------ MODULE Billing ------------------------------
(***************************************************************************)
(* backend/billing.py without a database, and its routes: a plan per price *)
(* that is cached, a subscription made at Razorpay, the pending record     *)
(* with the server's price, and the verified payment that activates it.    *)
(***************************************************************************)
EXTENDS Naturals, FiniteSets

CONSTANTS
    Customers,      \* workspaces
    Prices,         \* catalog plans
    Subscriptions,  \* bound: subscriptions Razorpay makes, 1..n
    Checkouts,      \* create-subscription and verify-subscription handlers
    Unset

ASSUME BillingAssumption ==
    /\ IsFiniteSet(Checkouts)
    /\ Unset \notin [w : Customers, price : Prices] \cup [s : Subscriptions, price : Prices]

VARIABLES
    planIds,        \* price -> plans made for it at Razorpay
    planCache,      \* price -> whether its plan id is cached
    made,           \* subscription -> [w, price] at Razorpay, or Unset
    pending,        \* orqis:razorpay:pending:*: [w, price], or Unset
    paid,           \* subscriptions with a payment whose signature is valid
    active,         \* the subscription record of a workspace: [s, price], or Unset
    checkout        \* handler -> [at, w, price, s, read]

billingVars == <<planIds, planCache, made, pending, paid, active, checkout>>

Idle_ == [at |-> "idle", w |-> 0, price |-> 0, s |-> 0, read |-> 0]

BillingInit ==
    /\ planIds = [p \in Prices |-> 0]
    /\ planCache = [p \in Prices |-> FALSE]
    /\ made = [s \in Subscriptions |-> Unset]
    /\ pending = [s \in Subscriptions |-> Unset]
    /\ paid = {}
    /\ active = [w \in Customers |-> Unset]
    /\ checkout = [h \in Checkouts |-> Idle_]

Step(h, where) == checkout[h].at = where
GoOn(h, where) == checkout' = [checkout EXCEPT ![h].at = where]

\* create_subscription(): the amount is the server's, looked up by plan.
Subscribe(h) ==
    /\ Step(h, "idle")
    /\ \E w \in Customers, p \in Prices :
          checkout' = [checkout EXCEPT ![h] = [Idle_ EXCEPT !.at = IF planCache[p] THEN "subscribe" ELSE "plan",
                                                            !.w = w, !.price = p]]
    /\ UNCHANGED <<planIds, planCache, made, pending, paid, active>>

\* _plan_id_for(): a price whose plan is not cached gets one at Razorpay.
MakePlan(h) ==
    LET p == checkout[h].price IN
    /\ Step(h, "plan")
    /\ planIds' = [planIds EXCEPT ![p] = @ + 1]
    /\ planCache' = [planCache EXCEPT ![p] = TRUE]
    /\ GoOn(h, "subscribe")
    /\ UNCHANGED <<made, pending, paid, active>>

MakeSubscription(h) ==
    /\ Step(h, "subscribe")
    /\ \E s \in Subscriptions :
          /\ made[s] = Unset
          /\ made' = [made EXCEPT ![s] = [w |-> checkout[h].w, price |-> checkout[h].price]]
          /\ checkout' = [checkout EXCEPT ![h].at = "pending", ![h].s = s]
    /\ UNCHANGED <<planIds, planCache, pending, paid, active>>

\* create_pending(), with an hour to pay.
CreatePending(h) ==
    LET c == checkout[h] IN
    /\ Step(h, "pending")
    /\ pending' = [pending EXCEPT ![c.s] = [w |-> c.w, price |-> c.price]]
    /\ checkout' = [checkout EXCEPT ![h] = Idle_]
    /\ UNCHANGED <<planIds, planCache, made, paid, active>>

RazorpayFails(h) ==
    /\ checkout[h].at \in {"plan", "subscribe"}
    /\ checkout' = [checkout EXCEPT ![h] = Idle_]
    /\ UNCHANGED <<planIds, planCache, made, pending, paid, active>>

PendingExpires(s) ==
    /\ pending[s] # Unset
    /\ pending' = [pending EXCEPT ![s] = Unset]
    /\ UNCHANGED <<planIds, planCache, made, paid, active, checkout>>

\* The customer pays at Razorpay, whose answer carries the signature.
Pay(s) ==
    /\ made[s] # Unset /\ s \notin paid
    /\ \A h \in Checkouts : checkout[h].s # s
    /\ paid' = paid \cup {s}
    /\ UNCHANGED <<planIds, planCache, made, pending, active, checkout>>

\* verify_subscription(): the signature, then activate() reads the pending record.
Verify(h) ==
    /\ Step(h, "idle")
    /\ \E w \in Customers, s \in paid :
          checkout' = [checkout EXCEPT ![h] = [Idle_ EXCEPT !.at = "read", !.w = w, !.s = s]]
    /\ UNCHANGED <<planIds, planCache, made, pending, paid, active>>

\* Mutant: the workspace of the pending record is not compared.
ReadAnyPending(h) ==
    LET c == checkout[h] IN
    /\ Step(h, "read")
    /\ checkout' = [checkout EXCEPT ![h] = IF pending[c.s] = Unset THEN Idle_
                                           ELSE [c EXCEPT !.at = "activate", !.read = pending[c.s].price]]
    /\ UNCHANGED <<planIds, planCache, made, pending, paid, active>>
ReadPending(h) ==
    LET c == checkout[h] IN
    /\ Step(h, "read")
    /\ checkout' = [checkout EXCEPT ![h] = IF pending[c.s] = Unset \/ pending[c.s].w # c.w THEN Idle_
                                           ELSE [c EXCEPT !.at = "activate", !.read = pending[c.s].price]]
    /\ UNCHANGED <<planIds, planCache, made, pending, paid, active>>

Activate(h) ==
    LET c == checkout[h] IN
    /\ Step(h, "activate")
    /\ active' = [active EXCEPT ![c.w] = [s |-> c.s, price |-> c.read]]
    /\ GoOn(h, "forget")
    /\ UNCHANGED <<planIds, planCache, made, pending, paid>>

ForgetPending(h) ==
    /\ Step(h, "forget")
    /\ pending' = [pending EXCEPT ![checkout[h].s] = Unset]
    /\ checkout' = [checkout EXCEPT ![h] = Idle_]
    /\ UNCHANGED <<planIds, planCache, made, paid, active>>

BillingNext ==
    \/ \E h \in Checkouts :
          \/ Subscribe(h) \/ MakePlan(h) \/ MakeSubscription(h) \/ CreatePending(h) \/ RazorpayFails(h)
          \/ Verify(h) \/ ReadPending(h) \/ Activate(h) \/ ForgetPending(h)
    \/ \E s \in Subscriptions : PendingExpires(s) \/ Pay(s)

BillingSpec == BillingInit /\ [][BillingNext]_billingVars

-----------------------------------------------------------------------------
BillingTypeOK ==
    /\ \A p \in Prices : planIds[p] \in 0..Cardinality(Checkouts)
    /\ planCache \in [Prices -> BOOLEAN]
    /\ paid \subseteq Subscriptions
    /\ \A h \in Checkouts : checkout[h].at \in {"idle", "plan", "subscribe", "pending", "read", "activate", "forget"}

\* What a workspace has is a subscription that was made and paid for it, at the
\* price it was made with: neither overlapping checkouts nor a verification of
\* somebody else's payment change that (billing.py, "the charged plan/amount
\* can never be altered").
ActiveAsPriced ==
    \A w \in Customers : active[w] # Unset =>
        /\ active[w].s \in paid
        /\ made[active[w].s] = [w |-> w, price |-> active[w].price]

=============================================================================
