---------------------------- MODULE Subscription ----------------------------
(***************************************************************************)
(* The subscription of one company, paid through Razorpay: orders, the     *)
(* verification by the client and the webhooks of the gateway.             *)
(*                                                                         *)
(* Code: app/api/payments.py.                                              *)
(*                                                                         *)
(* The gateway is external.  It sends an event until a webhook request     *)
(* answers it, may send it again after that, and keeps no order; the       *)
(* client's call of verify is one more such event.  payment.captured and   *)
(* order.paid are handled alike, as are refund.created and                 *)
(* refund.processed: one event stands for each pair.                       *)
(*                                                                         *)
(* No handler locks a row.  A request reads the transaction, then the      *)
(* company with its subscription, then writes and commits: three steps.    *)
(* An ORM object writes only the columns whose value differs from the      *)
(* loaded one (Written), except the JSON of hr_settings, which is written  *)
(* as a whole.                                                             *)
(*                                                                         *)
(* Amounts are left out: no handler compares one with what the gateway     *)
(* says was paid.                                                          *)
(***************************************************************************)
EXTENDS Integers, Sequences

CONSTANTS
    Orders,     \* Razorpay orders of the company, each for a plan of its own
    Payments,   \* payment attempts at the gateway
    OrderOf,    \* [Payments -> Orders]
    Requests,   \* requests in progress at one time
    MaxAgain,   \* bound: events sent again after they were answered
    Subscribed, \* whether the company starts with a subscription row
    None        \* NULL

ASSUME PaymentsAssumption ==
    /\ OrderOf \in [Payments -> Orders]
    /\ MaxAgain \in Nat /\ Subscribed \in BOOLEAN
    /\ None \notin Orders \cup Payments

Statuses == {"NONE", "CREATED", "CAPTURED", "FAILED", "REFUNDED"}

PaymentTransaction == [status : Statuses, payment : Payments \cup {None}]

NoTransaction == [status |-> "NONE", payment |-> None]

\* hr_settings["billing"]: the order of the current plan, and how many
\* invoices each order has.
Billing == [plan : Orders \cup {None}, invoices : [Orders -> Nat]]

NoBilling == [plan |-> None, invoices |-> [o \in Orders |-> 0]]

Events == {"verify", "captured", "failed", "refunded"} \X Payments

\* A request, with what it has loaded.
Request == [step : {"idle", "transaction", "company"},
            event : Events \cup {None}, txn : PaymentTransaction,
            subs : Seq(Orders \cup {None}), billing : Billing]

NoRequest == [step |-> "idle", event |-> None, txn |-> NoTransaction,
              subs |-> <<>>, billing |-> NoBilling]

VARIABLES
    txn,      \* [Orders -> PaymentTransaction]
    subs,     \* the subscription rows, by the order that last activated each
    billing,  \* Billing
    payment,  \* [Payments -> state at the gateway]
    answered, \* events a request has answered
    again,    \* how many events were sent again
    req       \* [Requests -> Request]

vars == <<txn, subs, billing, payment, answered, again, req>>

Init ==
    /\ txn = [o \in Orders |-> NoTransaction]
    /\ subs = IF Subscribed THEN <<None>> ELSE <<>>
    /\ billing = NoBilling
    /\ payment = [p \in Payments |-> "none"]
    /\ answered = {}
    /\ again = 0
    /\ req = [r \in Requests |-> NoRequest]

Written(loaded, new, current) == IF new = loaded THEN current ELSE new

-----------------------------------------------------------------------------
\* The gateway.

\* A customer tries to pay an order that is not paid yet.
Pay(p, result) ==
    /\ payment[p] = "none"
    /\ txn[OrderOf[p]].status # "NONE"
    /\ \A q \in Payments : OrderOf[q] = OrderOf[p] => payment[q] \in {"none", "failed"}
    /\ payment' = [payment EXCEPT ![p] = result]
    /\ UNCHANGED <<txn, subs, billing, answered, again, req>>

\* payment_capture = 1: an authorized payment is captured.
Capture(p) ==
    /\ payment[p] = "authorized"
    /\ payment' = [payment EXCEPT ![p] = "captured"]
    /\ UNCHANGED <<txn, subs, billing, answered, again, req>>

Refund(p) ==
    /\ payment[p] = "captured"
    /\ payment' = [payment EXCEPT ![p] = "refunded"]
    /\ UNCHANGED <<txn, subs, billing, answered, again, req>>

\* The events there are about payments in these states.
Sent == {e \in Events :
            payment[e[2]] \in (CASE e[1] = "verify" -> {"authorized", "captured", "refunded"}
                                 [] e[1] = "captured" -> {"captured", "refunded"}
                                 [] e[1] = "failed" -> {"failed"}
                                 [] e[1] = "refunded" -> {"refunded"})}

-----------------------------------------------------------------------------
\* create_order.  The client learns of an order when it is stored, so an order
\* the gateway made for a request that failed is never paid.
CreateOrder(o) ==
    /\ txn[o].status = "NONE"
    /\ txn' = [txn EXCEPT ![o].status = "CREATED"]
    /\ UNCHANGED <<subs, billing, payment, answered, again, req>>

BugNothingToDo(kind, p, t) ==
    CASE kind = "verify"   -> t = [status |-> "CAPTURED", payment |-> p]
      [] kind = "captured" -> t.status # "CREATED"
      [] kind = "failed"   -> t.status = "CAPTURED"
      [] kind = "refunded" -> t.payment # p

\* Whether a request ends when it has read its transaction t.
NothingToDo(kind, p, t) ==
    CASE kind = "verify"   -> t = [status |-> "CAPTURED", payment |-> p]
      [] kind \in {"captured", "failed"} -> t.status = "CAPTURED"
      [] kind = "refunded" -> t.payment # p

\* The request for an event arrives and reads the transaction.
Arrives(r, e) ==
    LET t == txn[OrderOf[e[2]]]
    IN  /\ req[r].step = "idle" /\ e \in Sent
        /\ IF e \in answered THEN again < MaxAgain /\ again' = again + 1
                             ELSE again' = again
        /\ IF NothingToDo(e[1], e[2], t)
           THEN /\ answered' = answered \cup {e}
                /\ UNCHANGED req
           ELSE /\ req' = [req EXCEPT ![r] =
                             [NoRequest EXCEPT !.step = "transaction", !.event = e, !.txn = t]]
                /\ UNCHANGED answered
        /\ UNCHANGED <<txn, subs, billing, payment>>

\* The transaction of request r's event, with a status and a payment written.
Marked(r, status, p) ==
    [txn EXCEPT ![OrderOf[req[r].event[2]]] =
        [status  |-> Written(req[r].txn.status, status, @.status),
         payment |-> Written(req[r].txn.payment, p, @.payment)]]

Answer(r) ==
    /\ answered' = answered \cup {req[r].event}
    /\ req' = [req EXCEPT ![r] = NoRequest]

\* verify_payment, when the signature is not accepted.
Rejected(r) ==
    /\ req[r].step = "transaction" /\ req[r].event[1] = "verify"
    /\ txn' = Marked(r, "FAILED", req[r].txn.payment)
    /\ Answer(r)
    /\ UNCHANGED <<subs, billing, payment, again>>

\* payment.failed.
RecordsFailure(r) ==
    /\ req[r].step = "transaction" /\ req[r].event[1] = "failed"
    /\ txn' = Marked(r, "FAILED", req[r].event[2])
    /\ Answer(r)
    /\ UNCHANGED <<subs, billing, payment, again>>

\* refund.created, refund.processed.
RecordsRefund(r) ==
    /\ req[r].step = "transaction" /\ req[r].event[1] = "refunded"
    /\ txn' = Marked(r, "REFUNDED", req[r].txn.payment)
    /\ Answer(r)
    /\ UNCHANGED <<subs, billing, payment, again>>

BugPays(r) == req[r].event[1] # "refunded"

\* The requests that activate the subscription.
Pays(r) == req[r].event[1] \in {"verify", "captured"}

\* The company and its subscription are read: scalar_one_or_none raises when
\* there are two.
LoadsCompany(r) ==
    /\ req[r].step = "transaction" /\ Pays(r)
    /\ Len(subs) <= 1
    /\ req' = [req EXCEPT ![r].step = "company", ![r].subs = subs,
                          ![r].billing = billing]
    /\ UNCHANGED <<txn, subs, billing, payment, answered, again>>

BugActivated(loaded, o) ==
    IF loaded = <<>> THEN subs ELSE [subs EXCEPT ![1] = Written(loaded[1], o, @)]

\* activate_subscription_for_company: the Subscription model ...
Activated(loaded, o) ==
    IF loaded = <<>> THEN Append(subs, o)
    ELSE [subs EXCEPT ![1] = Written(loaded[1], o, @)]

\* ... and Company.hr_settings, with one invoice more.
Billed(loaded, o) ==
    [plan |-> o, invoices |-> [loaded.invoices EXCEPT ![o] = @ + 1]]

\* verify_payment and the webhook's payment.captured and order.paid.
Activates(r) ==
    LET o == OrderOf[req[r].event[2]]
    IN  /\ req[r].step = "company"
        /\ txn' = Marked(r, "CAPTURED", req[r].event[2])
        /\ subs' = Activated(req[r].subs, o)
        /\ billing' = Billed(req[r].billing, o)
        /\ Answer(r)
        /\ UNCHANGED <<payment, again>>

\* A request fails before its commit: the event stays unanswered.
Fails(r) ==
    /\ req[r].step # "idle"
    /\ req' = [req EXCEPT ![r] = NoRequest]
    /\ UNCHANGED <<txn, subs, billing, payment, answered, again>>

Next ==
    \/ \E o \in Orders : CreateOrder(o)
    \/ \E p \in Payments :
         \/ \E result \in {"authorized", "failed"} : Pay(p, result)
         \/ Capture(p) \/ Refund(p)
    \/ \E r \in Requests :
         \/ \E e \in Events : Arrives(r, e)
         \/ Rejected(r) \/ RecordsFailure(r) \/ RecordsRefund(r)
         \/ LoadsCompany(r) \/ Activates(r) \/ Fails(r)

\* A request ends, and the gateway sends payment.captured until it is answered.
\* Requests may fail, but not every time.
Fairness ==
    /\ \A r \in Requests :
         WF_vars(Rejected(r) \/ RecordsFailure(r) \/ RecordsRefund(r)
                    \/ LoadsCompany(r) \/ Activates(r) \/ Fails(r))
    /\ \A p \in Payments :
         LET e == <<"captured", p>>
         IN  /\ SF_vars(e \notin answered /\ \E r \in Requests : Arrives(r, e))
             /\ SF_vars(\E r \in Requests : req[r].event = e /\ LoadsCompany(r))
             /\ SF_vars(\E r \in Requests : req[r].event = e /\ Activates(r))

Spec == Init /\ [][Next]_vars

FairSpec == Spec /\ Fairness

-----------------------------------------------------------------------------
\* Every row keeps its type.
TypeOK ==
    /\ txn \in [Orders -> PaymentTransaction]
    /\ subs \in Seq(Orders \cup {None})
    /\ billing \in Billing
    /\ payment \in [Payments -> {"none", "authorized", "captured", "failed", "refunded"}]
    /\ answered \subseteq Events
    /\ again \in 0 .. MaxAgain
    /\ req \in [Requests -> Request]

\* A payment for the order was accepted at the gateway, which signs it: it is
\* authorized at least ...
Accepted(o) == \E p \in Payments :
    OrderOf[p] = o /\ payment[p] \in {"authorized", "captured", "refunded"}

\* ... and its money was taken, whether it was given back later or not.
MoneyTaken(o) == \E p \in Payments :
    OrderOf[p] = o /\ payment[p] \in {"captured", "refunded"}

\* The client had a payment of the order verified.
Verified(o) == \E p \in Payments : OrderOf[p] = o /\ <<"verify", p>> \in answered

\* Whatever the order of the events, the plan of the subscription, the current
\* plan of the billing page, every invoice and every captured transaction
\* belong to an order with an accepted payment; and a transaction is CAPTURED
\* before the money was taken only where verify_payment made it so, never by a
\* webhook.  This is less than the docstring and the comment of verify_payment
\* say ("only after signature and amount verification succeed", "to verify
\* capture status and amount"): the handler checks the signature, and uses
\* nothing of the payment it fetches but its method.
NothingIsFree ==
    /\ \A i \in DOMAIN subs : subs[i] # None => Accepted(subs[i])
    /\ billing.plan # None => Accepted(billing.plan)
    /\ \A o \in Orders : billing.invoices[o] > 0 => Accepted(o)
    /\ \A o \in Orders : txn[o].status = "CAPTURED" =>
          Accepted(o) /\ (MoneyTaken(o) \/ Verified(o))

\* A company with a captured transaction has a subscription that a payment
\* activated, however the requests for its events overlapped.
PaidIsActive ==
    (\E o \in Orders : txn[o].status = "CAPTURED") => \E i \in DOMAIN subs : subs[i] # None

\* A company whose payment was captured gets its subscription, whatever failed
\* and in whatever order the events arrived.
CustomerGetsAccess ==
    (\E p \in Payments : payment[p] = "captured") ~> (\E i \in DOMAIN subs : subs[i] # None)

=============================================================================
