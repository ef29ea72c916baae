------------------------------ MODULE Payments ------------------------------
(***************************************************************************)
(* Top-ups: an order from checkout to its recharge row.                    *)
(*   checkout   createTopUpCheckoutResponse                                *)
(*              (src/src/app/api/payment/checkout/checkout-handler.ts)     *)
(*   webhook    POST /api/payment/notify       (one-time payments)         *)
(*   callback   GET /api/payment/callback, the browser coming back         *)
(*   handling   handleCheckoutSuccess and updateOrderInTransaction         *)
(*              (src/src/shared/services/payment.ts, .../models/order.ts)  *)
(*                                                                         *)
(* The provider is external.  Its session only moves forward: what it has  *)
(* reported as paid or canceled stays so.  It repeats a notification until *)
(* it is answered with 200, and may repeat it after that.                  *)
(***************************************************************************)
EXTENDS Wallet

CONSTANTS
    Orders,        \* order numbers
    Payer,         \* the user of each order
    OrderAmount,   \* the amount of each order
    Uncredited,    \* orders of a product without a credits amount
    Deliveries,    \* notify and callback requests that may run at once
    MaxFaults      \* bound: failed writes and provider errors

ASSUME PaymentsAssumption ==
    /\ Payer \in [Orders -> Users]
    /\ OrderAmount \in [Orders -> Nat \ {0}]
    /\ Uncredited \subseteq Orders
    /\ MaxFaults \in Nat

VARIABLES
    orderStatus,   \* order.status, "absent" before the INSERT
    checkout,      \* where the checkout request of each order is
    session,       \* the payment session at the provider
    events,        \* notifications the provider still sends
    delivery,      \* what each notify or callback request has read
    faults         \* number of faults so far

paymentVars == <<orderStatus, checkout, session, events, delivery, faults>>

OrderStatuses == {"absent", "pending", "created", "completed", "paid", "failed"}

\* PaymentStatus as the session carries it; FAILED and CANCELED are handled
\* alike.  A SUCCESS is "short" when it reports another currency than the
\* order's, or an amount that with the discount does not cover the order.
Sessions == {"none", "processing", "success", "short", "canceled"}

\*   saved     order inserted, createPayment pending
\*   opened    the provider has a session, the order is not updated yet
\*   shown     the user has the payment page
\*   failing   createPayment or the update threw
CheckoutStates == {"idle", "saved", "opened", "shown", "failing", "failed"}

Events == [order : Orders, outcome : {"processing", "success", "short"}]

NoDelivery == [kind |-> "none"]

\* seen is the status of the order object the request works on; outcome is
\* "unasked" until the callback has fetched the session.
Handling == [kind : {"notify", "callback"}, order : Orders,
             seen : OrderStatuses, outcome : Sessions \cup {"unasked"}]

PaymentsInit ==
    /\ orderStatus = [o \in Orders |-> "absent"]
    /\ checkout = [o \in Orders |-> "idle"]
    /\ session = [o \in Orders |-> "none"]
    /\ events = {}
    /\ delivery = [d \in Deliveries |-> NoDelivery]
    /\ faults = 0

SetOrder(o, s) == orderStatus' = [orderStatus EXCEPT ![o] = s]

Fault == faults < MaxFaults /\ faults' = faults + 1

-----------------------------------------------------------------------------
(* Checkout.                                                               *)

CreateOrder(o) ==
    /\ checkout[o] = "idle"
    /\ SetOrder(o, "pending")
    /\ checkout' = [checkout EXCEPT ![o] = "saved"]
    /\ UNCHANGED <<walletVars, session, events, delivery, faults>>

CreatePayment(o) ==
    /\ checkout[o] = "saved"
    /\ \/ /\ checkout' = [checkout EXCEPT ![o] = "opened"]
          /\ session' = [session EXCEPT ![o] = "processing"]
          /\ UNCHANGED faults
       \/ /\ checkout' = [checkout EXCEPT ![o] = "failing"]
          /\ Fault
          /\ UNCHANGED session
    /\ UNCHANGED <<walletVars, orderStatus, events, delivery>>

\* The update to CREATED names the order only, not the status it expects;
\* the page is shown after it.
ShowCheckout(o) ==
    /\ checkout[o] = "opened"
    /\ \/ /\ SetOrder(o, "created")
          /\ checkout' = [checkout EXCEPT ![o] = "shown"]
          /\ UNCHANGED faults
       \/ /\ checkout' = [checkout EXCEPT ![o] = "failing"]
          /\ Fault
          /\ UNCHANGED orderStatus
    /\ UNCHANGED <<walletVars, session, events, delivery>>

\* The catch block: checkout is over and the user has no payment page.
FailCheckout(o) ==
    /\ checkout[o] = "failing"
    /\ checkout' = [checkout EXCEPT ![o] = "failed"]
    /\ \/ SetOrder(o, "completed") /\ UNCHANGED faults
       \/ Fault /\ UNCHANGED orderStatus
    /\ UNCHANGED <<walletVars, session, events, delivery>>

-----------------------------------------------------------------------------
(* The provider.                                                           *)

Emit(o, outcome) == events' = events \cup {[order |-> o, outcome |-> outcome]}

\* The user has authorised the payment and it is not settled yet.
Authorize(o) ==
    /\ checkout[o] = "shown" /\ session[o] = "processing"
    /\ Emit(o, "processing")
    /\ UNCHANGED <<walletVars, orderStatus, checkout, session, delivery, faults>>

Pay(o) ==
    /\ checkout[o] = "shown" /\ session[o] = "processing"
    /\ \E paid \in {"success", "short"} :
          /\ session' = [session EXCEPT ![o] = paid]
          /\ Emit(o, paid)
    /\ UNCHANGED <<walletVars, orderStatus, checkout, delivery, faults>>

\* An expired or voided session: the handled events do not announce it.
Cancel(o) ==
    /\ session[o] = "processing"
    /\ session' = [session EXCEPT ![o] = "canceled"]
    /\ UNCHANGED <<walletVars, orderStatus, checkout, events, delivery, faults>>

-----------------------------------------------------------------------------
(* Notifications and callbacks.                                            *)

Begin(d, kind, o, outcome) ==
    /\ delivery[d] = NoDelivery
    /\ delivery' = [delivery EXCEPT ![d] =
           [kind |-> kind, order |-> o, seen |-> orderStatus[o],
            outcome |-> outcome]]

\* The notification carries the session as it was when it was sent.
Notify(d, e) ==
    /\ e \in events
    /\ Begin(d, "notify", e.order, e.outcome)
    /\ UNCHANGED <<walletVars, orderStatus, checkout, session, events, faults>>

\* The callback reads the order first and then asks the provider.
Callback(d, o) ==
    /\ checkout[o] = "shown"
    /\ Begin(d, "callback", o, "unasked")
    /\ UNCHANGED <<walletVars, orderStatus, checkout, session, events, faults>>

FetchSession(d) ==
    /\ delivery[d] # NoDelivery /\ delivery[d].outcome = "unasked"
    /\ delivery' = [delivery EXCEPT ![d].outcome = session[delivery[d].order]]
    /\ UNCHANGED <<walletVars, orderStatus, checkout, session, events, faults>>

\* updateOrderInTransaction for a paid order: only the transaction that moves
\* the order from PENDING or CREATED credits the wallet, and both commit
\* together.  An order without credits is updated without a guard, and a
\* recharge row that exists already is not written again.
UpdateOrderInTransaction(o) ==
    IF o \in Uncredited
    THEN SetOrder(o, "paid") /\ UNCHANGED walletVars
    ELSE IF orderStatus[o] \in {"pending", "created"}
    THEN /\ SetOrder(o, "paid")
         /\ IF Recorded("recharge", o)
            THEN UNCHANGED walletVars
            ELSE /\ AppendLedgerEntryInTx(Payer[o], "recharge", OrderAmount[o], o)
                 /\ UNCHANGED frozen
    ELSE UNCHANGED <<walletVars, orderStatus>>

\* assertPaymentSessionMatchesOrder throws: only for an order that would
\* still be handled.
Mismatched(seen, outcome) == seen \in {"pending", "created"} /\ outcome = "short"

\* Any successful session pays the order.
HandleAnyAmount(o, seen, outcome) ==
    CASE seen \notin {"pending", "created"} \/ outcome = "processing" ->
            UNCHANGED <<walletVars, orderStatus>>
      [] seen \in {"pending", "created"} /\ outcome \in {"success", "short"} ->
            UpdateOrderInTransaction(o)
      [] seen \in {"pending", "created"} /\ outcome = "canceled" ->
            SetOrder(o, "failed") /\ UNCHANGED walletVars

\* A session that is still processing puts the order back to CREATED.
HandleBackToCreated(o, seen, outcome) ==
    /\ ~Mismatched(seen, outcome)
    /\ CASE seen \notin {"pending", "created"} ->
               UNCHANGED <<walletVars, orderStatus>>
         [] seen \in {"pending", "created"} /\ outcome = "processing" ->
               SetOrder(o, "created") /\ UNCHANGED walletVars
         [] seen \in {"pending", "created"} /\ outcome = "success" ->
               UpdateOrderInTransaction(o)
         [] seen \in {"pending", "created"} /\ outcome = "canceled" ->
               SetOrder(o, "failed") /\ UNCHANGED walletVars

\* handleCheckoutSuccess on the order object the request has read: an order
\* in any other status than PENDING and CREATED is left alone, and a session
\* that does not match the order is refused (Refuse).
HandleCheckoutSuccess(o, seen, outcome) ==
    /\ ~Mismatched(seen, outcome)
    /\ CASE seen \notin {"pending", "created"} \/ outcome = "processing" ->
               UNCHANGED <<walletVars, orderStatus>>
         [] seen \in {"pending", "created"} /\ outcome = "success" ->
               UpdateOrderInTransaction(o)
         [] seen \in {"pending", "created"} /\ outcome = "canceled" ->
               SetOrder(o, "failed") /\ UNCHANGED walletVars

\* Answered with 200: the provider stops, unless the answer is lost.
Handle(d) ==
    LET h == delivery[d]
    IN  /\ h # NoDelivery /\ h.outcome # "unasked"
        /\ HandleCheckoutSuccess(h.order, h.seen, h.outcome)
        /\ \/ /\ h.kind = "notify"
              /\ events' = events \ {[order |-> h.order, outcome |-> h.outcome]}
           \/ UNCHANGED events
        /\ delivery' = [delivery EXCEPT ![d] = NoDelivery]
        /\ UNCHANGED <<checkout, session, faults>>

\* The exception of a mismatched session: 500, nothing written, and the
\* provider repeats the notification in vain; the callback leads back to the
\* billing page.
Refuse(d) ==
    /\ delivery[d] # NoDelivery
    /\ Mismatched(delivery[d].seen, delivery[d].outcome)
    /\ delivery' = [delivery EXCEPT ![d] = NoDelivery]
    /\ UNCHANGED <<walletVars, orderStatus, checkout, session, events, faults>>

\* The failure is answered with 200.
FailDeliveryAnswered(d) ==
    /\ delivery[d] # NoDelivery
    /\ Fault
    /\ events' = events \ {[order |-> delivery[d].order, outcome |-> delivery[d].outcome]}
    /\ delivery' = [delivery EXCEPT ![d] = NoDelivery]
    /\ UNCHANGED <<walletVars, orderStatus, checkout, session>>

\* An exception (a busy database, the provider out of reach) or a stop of the
\* process: 500 or no answer, nothing committed.
FailDelivery(d) ==
    /\ delivery[d] # NoDelivery
    /\ Fault
    /\ delivery' = [delivery EXCEPT ![d] = NoDelivery]
    /\ UNCHANGED <<walletVars, orderStatus, checkout, session, events>>

-----------------------------------------------------------------------------
PaymentsNext ==
    \/ \E o \in Orders :
          \/ CreateOrder(o) \/ CreatePayment(o) \/ ShowCheckout(o) \/ FailCheckout(o)
          \/ Authorize(o) \/ Pay(o) \/ Cancel(o)
    \/ \E d \in Deliveries :
          \/ \E e \in events : Notify(d, e)
          \/ \E o \in Orders : Callback(d, o)
          \/ FetchSession(d) \/ Handle(d) \/ Refuse(d) \/ FailDelivery(d)

PaymentsTypeOK ==
    /\ orderStatus \in [Orders -> OrderStatuses]
    /\ checkout \in [Orders -> CheckoutStates]
    /\ session \in [Orders -> Sessions]
    /\ events \subseteq Events
    /\ delivery \in [Deliveries -> Handling \cup {NoDelivery}]
    /\ faults \in 0..MaxFaults

\* The rows of the wallet ledger that credit order o.
RechargesOf(o) ==
    {i \in DOMAIN walletLedger[Payer[o]] :
        /\ walletLedger[Payer[o]][i].type = "recharge"
        /\ walletLedger[Payer[o]][i].ref = o}

(***************************************************************************)
(* order(paid) <-> wallet_ledger(recharge): a paid order with credits has  *)
(* exactly one recharge row, of its amount, and no other order has any,    *)
(* with repeated and late notifications, callbacks that work on an order   *)
(* object read earlier, and unguarded status writes on the other paths.    *)
(***************************************************************************)
PaidIffRecharged ==
    \A o \in Orders :
        /\ orderStatus[o] = "paid" /\ o \notin Uncredited
              => \E i \in RechargesOf(o) :
                     walletLedger[Payer[o]][i].amount = OrderAmount[o]
        /\ orderStatus[o] # "paid" \/ o \in Uncredited => RechargesOf(o) = {}
        /\ \A i, j \in RechargesOf(o) : i = j

(***************************************************************************)
(* No wallet is credited, and no order paid, unless the provider took the  *)
(* whole amount in the order's currency: a short payment is refused by     *)
(* every delivery, whatever copy of the order and the session it works on. *)
(***************************************************************************)
OnlyFullPaymentsCredit ==
    \A o \in Orders :
        orderStatus[o] = "paid" \/ RechargesOf(o) # {} => session[o] = "success"

\* Money the provider took and announced ends up in the wallet, if it is the
\* amount of the order in its currency.  A short payment is not promised
\* that: it was taken too, stays announced and is never credited.
AnnouncedIsCredited ==
    \A o \in Orders \ Uncredited :
        [order |-> o, outcome |-> "success"] \in events ~> RechargesOf(o) # {}
=============================================================================
