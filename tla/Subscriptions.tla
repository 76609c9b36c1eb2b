---------------------------- MODULE Subscriptions ----------------------------
(***************************************************************************)
(* Subscriptions and their payment: POST /billing/subscribe commits a row, *)
(* asks PesaPal for a token and for an order, and commits what it got; the *)
(* payer follows the redirect of the answer; PesaPal notifies /billing/ipn,*)
(* maybe more than once, which asks for the status and stores nothing.     *)
(* PesaPal's answer for an order that it took is assumed to carry the      *)
(* order's tracking id, which the code does not check, and notifications   *)
(* are for orders that it has.                                             *)
(***************************************************************************)
EXTENDS Naturals, FiniteSets

CONSTANTS
    Orders,      \* the calls of /subscribe; each has a row and a reference of its own
    MaxNotices   \* bound: notifications per order

ASSUME NoticesAssumption == MaxNotices \in Nat

VARIABLES
    progress,    \* where each call of /subscribe is
    status,      \* the row's status, or "none" while there is no row
    tracking,    \* its pesapal_tracking_id: "none" or "stored"
    provider,    \* what PesaPal has of the order: "none", "open" or "paid"
    notified,    \* how often the order was notified
    answered     \* how often the notification was answered with processed: True

subscriptionVars == <<progress, status, tracking, provider, notified, answered>>

SubscriptionInit ==
    /\ progress = [o \in Orders |-> "idle"]
    /\ status = [o \in Orders |-> "none"] /\ tracking = [o \in Orders |-> "none"]
    /\ provider = [o \in Orders |-> "none"]
    /\ notified = [o \in Orders |-> 0] /\ answered = [o \in Orders |-> 0]

Goes(o, s) == progress' = [progress EXCEPT ![o] = s]

\* A call of PesaPal ends in a 502: a transport error or no JSON object in the answer.
CallFails(o) == Goes(o, "failed")

\* Mutant: the order is submitted before the row is committed.
InsertLater(o) ==
    /\ progress[o] = "idle"
    /\ Goes(o, "inserted")
    /\ UNCHANGED <<status, tracking, provider, notified, answered>>

Insert(o) ==
    /\ progress[o] = "idle"
    /\ status' = [status EXCEPT ![o] = "pending"]
    /\ Goes(o, "inserted")
    /\ UNCHANGED <<tracking, provider, notified, answered>>

\* request_access_token: 503 without credentials, 502 for any failure.
RequestToken(o) ==
    /\ progress[o] = "inserted"
    /\ Goes(o, "authorized") \/ CallFails(o)
    /\ UNCHANGED <<status, tracking, provider, notified, answered>>

\* SubmitOrderRequest, which may also fail after PesaPal took the order, or answer
\* with a body that refuses it.
SubmitOrder(o) ==
    /\ progress[o] = "authorized"
    /\ provider' \in {provider, [provider EXCEPT ![o] = "open"]}
    /\ Goes(o, "submitted") \/ CallFails(o)
    /\ UNCHANGED <<status, tracking, notified, answered>>

StoreTracking(o) ==
    /\ progress[o] = "submitted"
    /\ tracking' = IF provider[o] = "open" THEN [tracking EXCEPT ![o] = "stored"] ELSE tracking
    /\ Goes(o, "answered")
    /\ UNCHANGED <<status, provider, notified, answered>>

Subscribe(o) == Insert(o) \/ RequestToken(o) \/ SubmitOrder(o) \/ StoreTracking(o)

\* The process may die in the middle.
SubscribeDies(o) ==
    /\ progress[o] \in {"inserted", "authorized", "submitted"}
    /\ Goes(o, "failed")
    /\ UNCHANGED <<status, tracking, provider, notified, answered>>

\* External: the redirect is in the answer, so only an answered call is paid.
Pay(o) ==
    /\ progress[o] = "answered" /\ provider[o] = "open"
    /\ provider' = [provider EXCEPT ![o] = "paid"]
    /\ UNCHANGED <<progress, status, tracking, notified, answered>>

\* pesapal_ipn: the status is asked for (502 if that fails) and handed back.
Ipn(o) ==
    /\ provider[o] = "paid" /\ notified[o] < MaxNotices
    /\ notified' = [notified EXCEPT ![o] = @ + 1]
    /\ answered' \in {answered, [answered EXCEPT ![o] = @ + 1]}
    /\ UNCHANGED <<progress, status, tracking, provider>>

SubscriptionNext ==
    \E o \in Orders : Subscribe(o) \/ SubscribeDies(o) \/ Pay(o) \/ Ipn(o)

SubscriptionSpec == SubscriptionInit /\ [][SubscriptionNext]_subscriptionVars

-----------------------------------------------------------------------------
(* Correctness.                                                            *)

\* Every variable keeps its type, and only notifications are answered.
SubscriptionTypeOK ==
    /\ progress \in [Orders ->
         {"idle", "inserted", "authorized", "submitted", "answered", "failed"}]
    /\ status \in [Orders -> {"none", "pending"}]
    /\ tracking \in [Orders -> {"none", "stored"}]
    /\ provider \in [Orders -> {"none", "open", "paid"}]
    /\ notified \in [Orders -> 0..MaxNotices]
    /\ \A o \in Orders : answered[o] \in 0..notified[o]

\* An order that PesaPal holds has its row, and one that is paid can be found by
\* its tracking id; a row without one is of a call that failed or goes on.
OrdersTraceable ==
    \A o \in Orders :
        /\ provider[o] # "none" => status[o] # "none"
        /\ provider[o] = "paid" => tracking[o] = "stored"
        /\ provider[o] = "open" /\ tracking[o] = "none" =>
             progress[o] \in {"submitted", "failed"}

\* Orders keep their types, and the rows of the app and the orders of PesaPal match.
OrdersSound == SubscriptionTypeOK /\ OrdersTraceable

\* A subscription whose payment was acknowledged ("IPN received.", processed) is no
\* longer pending.
PaidIsActive == \A o \in Orders : answered[o] > 0 => status[o] # "pending"
=============================================================================
