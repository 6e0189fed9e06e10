------------------------- MODULE SubscriptionProofs -------------------------
(***************************************************************************)
(* Proofs about Subscription, for any number of orders, of attempts to pay *)
(* them and of overlapping requests, with events sent again any number of  *)
(* times.                                                                  *)
(***************************************************************************)
EXTENDS Subscription, TLAPS

(***************************************************************************)
(* The inductive invariant.  A request writes from what it loaded earlier, *)
(* so the invariant speaks of the requests in progress as well.            *)
(***************************************************************************)

Good  == {"authorized", "captured", "refunded"}
Taken == {"captured", "refunded"}

\* A request that may activate a plan is about a payment the gateway accepted,
\* a webhook that may do so about one whose money was taken.
RequestIsPaid ==
  \A r \in Requests : req[r].step # "idle" =>
    /\ req[r].event \in Events
    /\ req[r].step = "company" => Pays(r)
    /\ Pays(r) => payment[req[r].event[2]] \in Good
    /\ req[r].event[1] = "captured" => payment[req[r].event[2]] \in Taken

\* The invoices a request loaded, and will write back, are of paid orders.
LoadedIsPaid ==
  \A r \in Requests, o \in Orders : req[r].billing.invoices[o] > 0 => Accepted(o)

\* A subscription row that a request loaded is still there, and if a payment
\* had activated it, one still has.
LoadedIsThere ==
  \A r \in Requests : req[r].subs # <<>> =>
    subs # <<>> /\ (req[r].subs[1] # None => subs[1] # None)

Inv == /\ TypeOK /\ RequestIsPaid /\ LoadedIsPaid /\ LoadedIsThere
       /\ NothingIsFree /\ PaidIsActive

\* A request that is over has loaded nothing.
LEMMA NoRequestType == NoRequest \in Request
  BY PaymentsAssumption
  DEF NoRequest, Request, NoTransaction, PaymentTransaction, Statuses, NoBilling, Billing

\* Nothing but requests changes in an answer or a failure.
LEMMA RequestStep ==
  ASSUME TypeOK, NEW r \in Requests, NEW new \in Request, req' = [req EXCEPT ![r] = new]
  PROVE  /\ req' \in [Requests -> Request]
         /\ req'[r] = new
         /\ \A q \in Requests \ {r} : req'[q] = req[q]
  BY DEF TypeOK

\* At the gateway a payment that was accepted is not unmade.
LEMMA PaymentsStay ==
  ASSUME TypeOK, NEW p \in Payments,
         \/ \E result \in {"authorized", "failed"} : Pay(p, result)
         \/ Capture(p) \/ Refund(p)
  PROVE  /\ payment' \in [Payments -> {"none", "authorized", "captured", "failed", "refunded"}]
         /\ \A q \in Payments : payment[q] \in Good => payment'[q] \in Good
         /\ \A q \in Payments : payment[q] \in Taken => payment'[q] \in Taken
         /\ \A o \in Orders : Accepted(o) => Accepted(o)'
         /\ \A o \in Orders : MoneyTaken(o) => MoneyTaken(o)'
         /\ UNCHANGED <<txn, subs, billing, answered, again, req>>
<1>1. /\ payment' \in [Payments -> {"none", "authorized", "captured", "failed", "refunded"}]
      /\ \A q \in Payments : payment[q] \in Good => payment'[q] \in Good
      /\ \A q \in Payments : payment[q] \in Taken => payment'[q] \in Taken
      /\ UNCHANGED <<txn, subs, billing, answered, again, req>>
  BY DEF TypeOK, Pay, Capture, Refund, Good, Taken
<1>2. ASSUME NEW o \in Orders, Accepted(o) PROVE Accepted(o)'
  BY <1>1, <1>2 DEF Accepted, Good
<1>3. ASSUME NEW o \in Orders, MoneyTaken(o) PROVE MoneyTaken(o)'
  BY <1>1, <1>3 DEF MoneyTaken, Taken
<1> QED
  BY <1>1, <1>2, <1>3

LEMMA GatewayKeepsInv ==
  ASSUME Inv, NEW p \in Payments,
         \/ \E result \in {"authorized", "failed"} : Pay(p, result)
         \/ Capture(p) \/ Refund(p)
  PROVE  Inv'
<1> USE DEF Inv
<1>1. /\ payment' \in [Payments -> {"none", "authorized", "captured", "failed", "refunded"}]
      /\ \A q \in Payments : payment[q] \in Good => payment'[q] \in Good
      /\ \A q \in Payments : payment[q] \in Taken => payment'[q] \in Taken
      /\ \A o \in Orders : Accepted(o) => Accepted(o)'
      /\ \A o \in Orders : MoneyTaken(o) => MoneyTaken(o)'
      /\ UNCHANGED <<txn, subs, billing, answered, again, req>>
  BY PaymentsStay
<1>2. TypeOK'
  BY <1>1 DEF TypeOK
<1>3. RequestIsPaid'
  BY <1>1 DEF RequestIsPaid, Pays, Events
<1>4. LoadedIsPaid' /\ LoadedIsThere'
  BY <1>1 DEF LoadedIsPaid, LoadedIsThere
<1>5. NothingIsFree' /\ PaidIsActive'
  <2>1. \A i \in DOMAIN subs : subs[i] \in Orders \cup {None}
    BY DEF TypeOK
  <2>2. billing.plan \in Orders \cup {None}
    BY DEF TypeOK, Billing
  <2> QED
    BY <1>1, <2>1, <2>2 DEF NothingIsFree, PaidIsActive, Verified
<1> QED
  BY <1>2, <1>3, <1>4, <1>5

LEMMA CreateOrderKeepsInv ==
  ASSUME Inv, NEW o \in Orders, CreateOrder(o)
  PROVE  Inv'
<1> USE DEF Inv
<1>1. /\ UNCHANGED <<subs, billing, payment, answered, again, req>>
      /\ txn' = [txn EXCEPT ![o].status = "CREATED"]
  BY DEF CreateOrder
<1>2. txn' \in [Orders -> PaymentTransaction]
  BY <1>1 DEF TypeOK, PaymentTransaction, Statuses
<1>3. \A q \in Orders : txn'[q].status = "CAPTURED" => txn[q].status = "CAPTURED"
  BY <1>1 DEF TypeOK, PaymentTransaction
<1>4. TypeOK'
  BY <1>1, <1>2 DEF TypeOK
<1>5. RequestIsPaid' /\ LoadedIsPaid' /\ LoadedIsThere'
  BY <1>1 DEF RequestIsPaid, Pays, LoadedIsPaid, Accepted, LoadedIsThere
<1>6. NothingIsFree' /\ PaidIsActive'
  BY <1>1, <1>3 DEF NothingIsFree, PaidIsActive, Accepted, MoneyTaken, Verified
<1> QED
  BY <1>4, <1>5, <1>6

\* What a step of a request must see to, when it activates nothing: the new
\* request and the new transaction keep their part of the invariant.
LEMMA QuietStepKeepsInv ==
  ASSUME Inv, NEW r \in Requests, NEW new \in Request,
         req' = [req EXCEPT ![r] = new],
         new.step # "idle" => /\ new.event \in Events
                              /\ new.step = "company" => new.event[1] \in {"verify", "captured"}
                              /\ new.event[1] \in {"verify", "captured"}
                                   => payment[new.event[2]] \in Good
                              /\ new.event[1] = "captured"
                                   => payment[new.event[2]] \in Taken,
         \A o \in Orders : new.billing.invoices[o] > 0 => Accepted(o),
         new.subs # <<>> => subs # <<>> /\ (new.subs[1] # None => subs[1] # None),
         txn' \in [Orders -> PaymentTransaction],
         \A o \in Orders : txn'[o].status = "CAPTURED" => txn[o].status = "CAPTURED",
         answered \subseteq answered', answered' \subseteq Events, again' \in 0 .. MaxAgain,
         UNCHANGED <<subs, billing, payment>>
  PROVE  Inv'
<1> USE DEF Inv
<1>1. /\ req' \in [Requests -> Request]
      /\ req'[r] = new
      /\ \A q \in Requests \ {r} : req'[q] = req[q]
  BY RequestStep
<1>2. TypeOK'
  BY <1>1 DEF TypeOK
<1>3. RequestIsPaid'
  BY <1>1 DEF RequestIsPaid, Pays
<1>4. LoadedIsPaid'
  BY <1>1 DEF LoadedIsPaid, Accepted
<1>5. LoadedIsThere'
  BY <1>1 DEF LoadedIsThere
<1>6. NothingIsFree' /\ PaidIsActive'
  BY DEF NothingIsFree, PaidIsActive, Accepted, MoneyTaken, Verified
<1> QED
  BY <1>2, <1>3, <1>4, <1>5, <1>6

\* A request that has just arrived, or is over, has no invoices and no rows.
LEMMA NothingLoaded ==
  /\ NoRequest.step = "idle" /\ NoRequest.subs = <<>>
  /\ \A o \in Orders : ~(NoRequest.billing.invoices[o] > 0)
  BY DEF NoRequest, NoBilling

LEMMA ArrivesKeepsInv ==
  ASSUME Inv, NEW r \in Requests, NEW e \in Events, Arrives(r, e)
  PROVE  Inv'
<1> USE DEF Inv
<1>0. PICK t : t = txn[OrderOf[e[2]]]
  OBVIOUS
<1>1. t \in PaymentTransaction
  BY <1>0, PaymentsAssumption DEF TypeOK, Events
<1>2. /\ UNCHANGED <<txn, subs, billing, payment>> /\ e \in Sent
      /\ again' \in 0 .. MaxAgain /\ answered \subseteq answered' /\ answered' \subseteq Events
  BY PaymentsAssumption DEF Arrives, TypeOK
<1>3. CASE NothingToDo(e[1], e[2], t)
  <2>1. req' = req
    BY <1>0, <1>3 DEF Arrives
  <2>2. TypeOK'
    BY <1>2, <2>1 DEF TypeOK
  <2> QED
    BY <1>2, <2>1, <2>2 DEF RequestIsPaid, Pays, LoadedIsPaid, LoadedIsThere, NothingIsFree,
                            PaidIsActive, Accepted, MoneyTaken, Verified
<1>4. CASE ~NothingToDo(e[1], e[2], t)
  <2>0. PICK new : new = [NoRequest EXCEPT !.step = "transaction", !.event = e, !.txn = t]
    OBVIOUS
  <2>1. req' = [req EXCEPT ![r] = new]
    BY <1>0, <1>4, <2>0 DEF Arrives
  <2>2. /\ new \in Request /\ new.step = "transaction" /\ new.event = e
        /\ new.billing = NoRequest.billing /\ new.subs = NoRequest.subs
    BY <1>1, <2>0, NoRequestType DEF Request
  <2>3. /\ e[1] \in {"verify", "captured"} => payment[e[2]] \in Good
        /\ e[1] = "captured" => payment[e[2]] \in Taken
    BY <1>2 DEF Sent, Good, Taken
  <2>4. txn' \in [Orders -> PaymentTransaction]
    BY <1>2 DEF TypeOK
  <2> QED
    BY <1>2, <2>1, <2>2, <2>3, <2>4, NothingLoaded, QuietStepKeepsInv
<1> QED
  BY <1>3, <1>4

\* A transaction that is marked with a status holds that status or the one it
\* had.
LEMMA MarkedType ==
  ASSUME Inv, NEW r \in Requests, req[r].step # "idle",
         NEW status \in Statuses, NEW p \in Payments \cup {None}
  PROVE  /\ Marked(r, status, p) \in [Orders -> PaymentTransaction]
         /\ \A o \in Orders : Marked(r, status, p)[o].status \in {status, txn[o].status}
         /\ \A o \in Orders : o # OrderOf[req[r].event[2]] => Marked(r, status, p)[o] = txn[o]
<1>1. req[r].event \in Events /\ OrderOf[req[r].event[2]] \in Orders
  BY PaymentsAssumption DEF Inv, RequestIsPaid, Events
<1>2. txn \in [Orders -> PaymentTransaction]
  BY DEF Inv, TypeOK
<1> QED
  BY <1>1, <1>2 DEF Marked, Written, PaymentTransaction

LEMMA MarksKeepInv ==
  ASSUME Inv, NEW r \in Requests, Rejected(r) \/ RecordsFailure(r) \/ RecordsRefund(r)
  PROVE  Inv'
<1> USE DEF Inv
<1>1. /\ req[r].step # "idle" /\ req[r].event \in Events /\ req[r].event[2] \in Payments
      /\ req[r].txn.payment \in Payments \cup {None}
  BY DEF Rejected, RecordsFailure, RecordsRefund, RequestIsPaid, Events, TypeOK, Request,
         PaymentTransaction
<1>2. PICK status \in {"FAILED", "REFUNDED"}, p \in Payments \cup {None} :
        txn' = Marked(r, status, p)
  BY <1>1 DEF Rejected, RecordsFailure, RecordsRefund
<1>3. /\ txn' \in [Orders -> PaymentTransaction]
      /\ \A o \in Orders : txn'[o].status = "CAPTURED" => txn[o].status = "CAPTURED"
  BY <1>1, <1>2, MarkedType DEF Statuses
<1>4. /\ req' = [req EXCEPT ![r] = NoRequest]
      /\ answered \subseteq answered' /\ answered' \subseteq Events
      /\ UNCHANGED <<subs, billing, payment, again>> /\ again' \in 0 .. MaxAgain
  BY <1>1 DEF Rejected, RecordsFailure, RecordsRefund, Answer, TypeOK
<1> QED
  BY <1>3, <1>4, NoRequestType, NothingLoaded, QuietStepKeepsInv

LEMMA FailsKeepsInv ==
  ASSUME Inv, NEW r \in Requests, Fails(r)
  PROVE  Inv'
<1>1. /\ req' = [req EXCEPT ![r] = NoRequest]
      /\ UNCHANGED <<txn, subs, billing, payment, answered, again>>
  BY DEF Fails
<1>2. /\ txn' \in [Orders -> PaymentTransaction] /\ answered' \subseteq Events
      /\ again' \in 0 .. MaxAgain
  BY <1>1 DEF Inv, TypeOK
<1> QED
  BY <1>1, <1>2, NoRequestType, NothingLoaded, QuietStepKeepsInv

LEMMA LoadsCompanyKeepsInv ==
  ASSUME Inv, NEW r \in Requests, LoadsCompany(r)
  PROVE  Inv'
<1> USE DEF Inv
<1>0. PICK new : new = [req[r] EXCEPT !.step = "company", !.subs = subs, !.billing = billing]
  OBVIOUS
<1>1. req[r] \in Request /\ subs \in Seq(Orders \cup {None}) /\ billing \in Billing
  BY DEF TypeOK
<1>2. /\ new \in Request /\ new.step = "company" /\ new.event = req[r].event
      /\ new.subs = subs /\ new.billing = billing
  BY <1>0, <1>1 DEF Request
<1>3. /\ req' = [req EXCEPT ![r] = new]
      /\ UNCHANGED <<txn, subs, billing, payment, answered, again>>
  BY <1>0, <1>1 DEF LoadsCompany, Request
<1>4. /\ new.event \in Events /\ new.event[1] \in {"verify", "captured"}
      /\ payment[new.event[2]] \in Good
      /\ new.event[1] = "captured" => payment[new.event[2]] \in Taken
  BY <1>2 DEF LoadsCompany, RequestIsPaid, Pays
<1>5. \A o \in Orders : new.billing.invoices[o] > 0 => Accepted(o)
  BY <1>2 DEF NothingIsFree
<1>6. /\ txn' \in [Orders -> PaymentTransaction] /\ answered' \subseteq Events
      /\ again' \in 0 .. MaxAgain
  BY <1>3 DEF TypeOK
<1> QED
  BY <1>2, <1>3, <1>4, <1>5, <1>6, QuietStepKeepsInv

\* An activation leaves rows that were activated by paid orders, at least one,
\* and no row goes back to NULL.
LEMMA ActivatedRows ==
  ASSUME Inv, NEW r \in Requests, NEW o \in Orders, Accepted(o)
  PROVE  LET new == Activated(req[r].subs, o) IN
         /\ new \in Seq(Orders \cup {None}) /\ new # <<>>
         /\ \A i \in DOMAIN new : new[i] # None => Accepted(new[i])
         /\ \E i \in DOMAIN new : new[i] # None
         /\ subs # <<>> /\ subs[1] # None => new[1] # None
<1> DEFINE new == Activated(req[r].subs, o)
<1>1. /\ subs \in Seq(Orders \cup {None}) /\ o # None
      /\ \A i \in DOMAIN subs : subs[i] # None => Accepted(subs[i])
  BY PaymentsAssumption DEF Inv, TypeOK, NothingIsFree
<1>2. CASE req[r].subs = <<>>
  <2>1. /\ new = Append(subs, o) /\ Len(new) = Len(subs) + 1 /\ new[Len(subs) + 1] = o
        /\ new \in Seq(Orders \cup {None}) /\ Len(subs) \in Nat
    BY <1>1, <1>2 DEF Activated
  <2>2. \A i \in 1 .. Len(subs) : new[i] = subs[i]
    BY <1>1, <2>1
  <2>3. DOMAIN new = 1 .. (Len(subs) + 1) /\ DOMAIN subs = 1 .. Len(subs) /\ new # <<>>
    BY <1>1, <2>1
  <2>4. Len(subs) + 1 \in DOMAIN new
    BY <2>1, <2>3
  <2>5. \A i \in DOMAIN new : new[i] # None => Accepted(new[i])
    BY <1>1, <2>1, <2>2, <2>3
  <2>6. subs # <<>> => 1 \in 1 .. Len(subs)
    BY <1>1
  <2> HIDE DEF new
  <2>7. \E i \in DOMAIN new : new[i] # None
    BY <1>1, <2>1, <2>4
  <2>8. subs # <<>> /\ subs[1] # None => new[1] # None
    BY <2>2, <2>6
  <2> QED
    BY <2>1, <2>3, <2>5, <2>7, <2>8 DEF new
<1>3. CASE req[r].subs # <<>>
  <2>0. PICK w : w = Written(req[r].subs[1], o, subs[1])
    OBVIOUS
  <2>1. subs # <<>> /\ (req[r].subs[1] # None => subs[1] # None)
    BY <1>3 DEF Inv, LoadedIsThere
  <2>2. 1 \in DOMAIN subs /\ subs[1] \in Orders \cup {None}
    BY <1>1, <2>1
  <2>3. w \in Orders /\ w # None /\ Accepted(w)
    <3>1. w \in {o, subs[1]} /\ (w # o => req[r].subs[1] = o)
      BY <2>0 DEF Written
    <3> QED
      BY <1>1, <2>1, <2>2, <3>1
  <2>4. new = [subs EXCEPT ![1] = w]
    BY <1>3, <2>0 DEF Activated
  <2>5. new \in Seq(Orders \cup {None}) /\ DOMAIN new = DOMAIN subs
    BY <1>1, <2>2, <2>3, <2>4
  <2>6. new[1] = w /\ \A i \in DOMAIN subs \ {1} : new[i] = subs[i]
    BY <1>1, <2>2, <2>4
  <2>7. new # <<>>
    BY <1>1, <2>1, <2>5
  <2>8. \A i \in DOMAIN new : new[i] # None => Accepted(new[i])
    BY <1>1, <2>3, <2>5, <2>6
  <2> QED
    BY <2>2, <2>3, <2>5, <2>6, <2>7, <2>8
<1> QED
  BY <1>2, <1>3

LEMMA ActivatesKeepsInv ==
  ASSUME Inv, NEW r \in Requests, Activates(r)
  PROVE  Inv'
<1> USE DEF Inv
<1>0. PICK o, p : p = req[r].event[2] /\ o = OrderOf[p]
  OBVIOUS
<1>1. /\ p \in Payments /\ o \in Orders /\ req[r].event \in Events /\ Accepted(o)
      /\ req[r].step # "idle"
  BY <1>0, PaymentsAssumption DEF Activates, RequestIsPaid, Events, Accepted, Good
<1>2. /\ txn' = Marked(r, "CAPTURED", p)
      /\ subs' = Activated(req[r].subs, o)
      /\ billing' = Billed(req[r].billing, o)
      /\ answered' = answered \cup {req[r].event}
      /\ req' = [req EXCEPT ![r] = NoRequest]
      /\ UNCHANGED <<payment, again>>
  BY <1>0 DEF Activates, Answer
<1>3. \A q \in Orders : Accepted(q)' <=> Accepted(q)
  BY <1>2 DEF Accepted
<1>4. /\ txn' \in [Orders -> PaymentTransaction]
      /\ \A q \in Orders : txn'[q].status = "CAPTURED" => q = o \/ txn[q].status = "CAPTURED"
  <2>1. "CAPTURED" \in Statuses /\ p \in Payments \cup {None}
    BY <1>1 DEF Statuses
  <2> QED
    BY <1>0, <1>1, <1>2, <2>1, MarkedType
<1>5. /\ subs' \in Seq(Orders \cup {None}) /\ subs' # <<>>
      /\ \A i \in DOMAIN subs' : subs'[i] # None => Accepted(subs'[i])
      /\ \E i \in DOMAIN subs' : subs'[i] # None
      /\ subs # <<>> /\ subs[1] # None => subs'[1] # None
  BY <1>1, <1>2, ActivatedRows
<1>6. /\ billing' \in Billing /\ billing'.plan = o
      /\ \A q \in Orders : billing'.invoices[q] > 0 => Accepted(q)
  <2>1. req[r].billing \in Billing
    BY DEF TypeOK, Request
  <2>2. billing' \in Billing /\ billing'.plan = o
    BY <1>1, <1>2, <2>1 DEF Billed, Billing
  <2>3. \A q \in Orders \ {o} : billing'.invoices[q] = req[r].billing.invoices[q]
    BY <1>1, <1>2, <2>1 DEF Billed, Billing
  <2> QED
    BY <1>1, <2>2, <2>3 DEF LoadedIsPaid
<1>7. /\ req' \in [Requests -> Request]
      /\ req'[r] = NoRequest
      /\ \A q \in Requests \ {r} : req'[q] = req[q]
  BY <1>2, RequestStep, NoRequestType
<1>8. TypeOK'
  BY <1>1, <1>2, <1>4, <1>5, <1>6, <1>7 DEF TypeOK
<1>9. RequestIsPaid'
  BY <1>2, <1>7, NothingLoaded DEF RequestIsPaid, Pays
<1>10. LoadedIsPaid'
  BY <1>3, <1>7, NothingLoaded DEF LoadedIsPaid
<1>11. LoadedIsThere'
  BY <1>5, <1>7, NothingLoaded DEF LoadedIsThere
<1>12. NothingIsFree'
  <2>1. UNCHANGED payment
    BY <1>2
  <2>2. (\A i \in DOMAIN subs : subs[i] # None => Accepted(subs[i]))'
    BY <1>5, <2>1 DEF Accepted
  <2>3. (billing.plan # None => Accepted(billing.plan))'
    BY <1>1, <1>6, <2>1 DEF Accepted
  <2>4. \A q \in Orders : txn'[q].status = "CAPTURED" => Accepted(q)
    BY <1>1, <1>4 DEF NothingIsFree
  <2>5. \A q \in Orders : (MoneyTaken(q) => MoneyTaken(q)') /\ (Verified(q) => Verified(q)')
    BY <1>2 DEF MoneyTaken, Verified
  <2>6. MoneyTaken(o)' \/ Verified(o)'
    <3>1. CASE req[r].event[1] = "captured"
      BY <1>0, <1>1, <2>1, <3>1 DEF RequestIsPaid, MoneyTaken, Taken
    <3>2. CASE req[r].event[1] = "verify"
      <4>1. req[r].event = <<"verify", p>>
        BY <1>0, <1>1, <3>2 DEF Events
      <4> QED
        BY <1>0, <1>1, <1>2, <4>1 DEF Verified
    <3> QED
      BY <1>1, <3>1, <3>2 DEF Activates, RequestIsPaid, Pays
  <2>7. \A q \in Orders : txn'[q].status = "CAPTURED" => MoneyTaken(q)' \/ Verified(q)'
    BY <1>4, <2>5, <2>6 DEF NothingIsFree
  <2> QED
    BY <1>3, <1>6, <2>2, <2>3, <2>4, <2>7 DEF NothingIsFree
<1>13. PaidIsActive'
  BY <1>5 DEF PaidIsActive
<1> QED
  BY <1>8, <1>9, <1>10, <1>11, <1>12, <1>13

\* However the events of the gateway and the calls of the client are ordered,
\* repeated and overlap, and whichever requests fail, the invariant holds.
THEOREM InvHolds == Spec => []Inv
<1>1. Init => Inv
  <2> SUFFICES ASSUME Init PROVE Inv
    OBVIOUS
  <2>1. NoBilling \in Billing /\ NoTransaction \in PaymentTransaction
    BY DEF NoBilling, Billing, NoTransaction, PaymentTransaction, Statuses
  <2>2. subs \in Seq(Orders \cup {None}) /\ \A i \in DOMAIN subs : subs[i] = None
    <3>1. CASE Subscribed
      <4>1. subs = <<None>> /\ <<None>> \in Seq(Orders \cup {None}) /\ DOMAIN <<None>> = 1 .. 1
        BY <3>1 DEF Init
      <4> QED
        BY <4>1
    <3>2. CASE ~Subscribed
      <4>1. subs = <<>> /\ Len(<<>>) = 0 /\ <<>> \in Seq(Orders \cup {None})
        BY <3>2 DEF Init
      <4> QED
        BY <4>1
    <3> QED
      BY <3>1, <3>2
  <2>3. TypeOK
    BY <2>1, <2>2, NoRequestType, PaymentsAssumption DEF Init, TypeOK
  <2>4. RequestIsPaid /\ LoadedIsPaid /\ LoadedIsThere
    BY NothingLoaded DEF Init, RequestIsPaid, LoadedIsPaid, LoadedIsThere
  <2>5. NothingIsFree /\ PaidIsActive
    BY <2>2 DEF Init, NothingIsFree, PaidIsActive, NoBilling, NoTransaction
  <2> QED
    BY <2>3, <2>4, <2>5 DEF Inv
<1>2. Inv /\ [Next]_vars => Inv'
  <2> SUFFICES ASSUME Inv, [Next]_vars PROVE Inv'
    OBVIOUS
  <2>1. ASSUME NEW o \in Orders, CreateOrder(o) PROVE Inv'
    BY <2>1, CreateOrderKeepsInv
  <2>2. ASSUME NEW p \in Payments,
               \/ \E result \in {"authorized", "failed"} : Pay(p, result)
               \/ Capture(p) \/ Refund(p)
        PROVE  Inv'
    BY <2>2, GatewayKeepsInv
  <2>3. ASSUME NEW r \in Requests, NEW e \in Events, Arrives(r, e) PROVE Inv'
    BY <2>3, ArrivesKeepsInv
  <2>4. ASSUME NEW r \in Requests, Rejected(r) \/ RecordsFailure(r) \/ RecordsRefund(r)
        PROVE  Inv'
    BY <2>4, MarksKeepInv
  <2>5. ASSUME NEW r \in Requests, LoadsCompany(r) \/ Activates(r) \/ Fails(r) PROVE Inv'
    BY <2>5, LoadsCompanyKeepsInv, ActivatesKeepsInv, FailsKeepsInv
  <2>6. CASE UNCHANGED vars
    <3>1. TypeOK' /\ PaidIsActive' /\ LoadedIsThere'
      BY <2>6 DEF vars, Inv, TypeOK, PaidIsActive, LoadedIsThere
    <3>2. RequestIsPaid' /\ LoadedIsPaid'
      BY <2>6 DEF vars, Inv, RequestIsPaid, Pays, LoadedIsPaid, Accepted
    <3>3. NothingIsFree'
      BY <2>6 DEF vars, Inv, NothingIsFree, Accepted, MoneyTaken, Verified
    <3> QED
      BY <3>1, <3>2, <3>3 DEF Inv
  <2> QED
    BY <2>1, <2>2, <2>3, <2>4, <2>5, <2>6 DEF Next
<1> QED
  BY <1>1, <1>2, PTL DEF Spec

\* Every row and every request stays well typed, although requests write whole
\* values that they loaded earlier.
THEOREM SubscriptionTypeCorrect == Spec => []TypeOK
<1>1. Inv => TypeOK
  BY DEF Inv
<1> QED
  BY <1>1, InvHolds, PTL

\* No plan, invoice or captured transaction without a payment that the gateway
\* accepted, and none marked CAPTURED by a webhook before its money was taken,
\* for any number of orders, also when requests of several orders overwrite
\* each other's billing data.  It is what the signature check of verify_payment
\* gives, and no more: neither amount nor capture is checked there.
THEOREM NothingIsEverFree == Spec => []NothingIsFree
<1>1. Inv => NothingIsFree
  BY DEF Inv
<1> QED
  BY <1>1, InvHolds, PTL

\* A captured transaction always has an active subscription beside it:
\* verify_payment and the webhook store both in one commit, and no request
\* that was late takes the subscription away.
THEOREM CapturedIsActive == Spec => []PaidIsActive
<1>1. Inv => PaidIsActive
  BY DEF Inv
<1> QED
  BY <1>1, InvHolds, PTL

=============================================================================
