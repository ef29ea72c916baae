--------------------------- MODULE AccountsProofs ---------------------------
(***************************************************************************)
(* Proofs about the money: top-ups, adjustments, reversals and charges on  *)
(* one pair of wallet tables, for any users, orders, deliveries, calls and *)
(* keys.                                                                   *)
(***************************************************************************)
EXTENDS Accounts, WalletProofs, FiniteSetTheorems

Refs == Orders \cup Keys \cup Charges

\* A call that may still try has an attempt left.
AttemptsLeft ==
    \A c \in Calls : call[c] \in {"idle", "lookup", "trying"} => attempts[c] < MaxAttempts

\* A request that has read the session has read what the provider stands by.
Agreed(o, outcome) ==
    /\ outcome # "none"
    /\ outcome \in {"success", "canceled"} => session[o] = outcome
    /\ outcome = "unasked" => session[o] # "none"

(***************************************************************************)
(* Who knows what of a payment: the order is paid only if the session is,  *)
(* the session is paid only after the page was shown, and notifications    *)
(* and callbacks carry what the provider still says.                       *)
(***************************************************************************)
PaymentOrder ==
    /\ \A o \in Orders :
          /\ orderStatus[o] = "paid" => session[o] = "success"
          /\ session[o] = "success" => checkout[o] = "shown"
          /\ checkout[o] \in {"idle", "saved"} => session[o] = "none"
          /\ checkout[o] \in {"opened", "shown"} => session[o] # "none"
    /\ \A e \in events : Agreed(e.order, e.outcome)
    /\ \A d \in Deliveries : delivery[d] # NoDelivery =>
          Agreed(delivery[d].order, delivery[d].outcome)

TypeInv == AccountsTypeOK /\ AttemptsLeft /\ PaymentOrder

LEMMA MoneyTypeInit == AccountsInit => TypeInv
<1> SUFFICES ASSUME AccountsInit PROVE TypeInv
    OBVIOUS
<1> USE PaymentsAssumption, AdjustAssumption DEF AccountsInit
<1>1. WalletTypeOK(Orders \cup Keys \cup Charges)
    BY DEF WalletInit, WalletTypeOK
<1>2. PaymentsTypeOK
    BY DEF PaymentsInit, PaymentsTypeOK, OrderStatuses, CheckoutStates, Sessions
<1>3. AdjustTypeOK
    BY DEF AdjustInit, AdjustTypeOK, CallStates
<1>4. AttemptsLeft
    BY DEF AdjustInit, AttemptsLeft
<1>5. PaymentOrder
    BY DEF PaymentsInit, PaymentOrder
<1> QED  BY <1>1, <1>2, <1>3, <1>4, <1>5 DEF TypeInv, AccountsTypeOK

-----------------------------------------------------------------------------
(* What the handlers come down to.                                         *)

\* updateOrderInTransaction does nothing, marks the order, or credits it.
LEMMA UpdateEffect ==
    ASSUME NEW o \in Orders, UpdateOrderInTransaction(o)
    PROVE  \/ UNCHANGED <<walletVars, orderStatus>>
           \/ /\ o \in Uncredited
              /\ SetOrder(o, "paid") /\ UNCHANGED walletVars
           \/ /\ o \notin Uncredited /\ orderStatus[o] # "paid"
              /\ Recorded("recharge", o)
              /\ SetOrder(o, "paid") /\ UNCHANGED walletVars
           \/ /\ o \notin Uncredited /\ orderStatus[o] # "paid"
              /\ SetOrder(o, "paid") /\ UNCHANGED frozen
              /\ AppendLedgerEntryInTx(Payer[o], "recharge", OrderAmount[o], o)
<1>1. CASE o \in Uncredited
    BY <1>1 DEF UpdateOrderInTransaction
<1>2. CASE o \notin Uncredited /\ orderStatus[o] \notin {"pending", "created"}
    BY <1>2 DEF UpdateOrderInTransaction
<1>3. CASE o \notin Uncredited /\ orderStatus[o] \in {"pending", "created"}
    <2>1. orderStatus[o] # "paid" /\ SetOrder(o, "paid")
        BY <1>3 DEF UpdateOrderInTransaction
    <2>2. CASE Recorded("recharge", o)
        BY <1>3, <2>1, <2>2 DEF UpdateOrderInTransaction
    <2>3. CASE ~Recorded("recharge", o)
        BY <1>3, <2>1, <2>3 DEF UpdateOrderInTransaction
    <2> QED  BY <2>2, <2>3
<1> QED  BY <1>1, <1>2, <1>3

\* A handler does nothing, handles a paid session, or fails the order.
LEMMA HandleEffect ==
    ASSUME NEW o \in Orders, NEW seen, NEW outcome \in Sessions, outcome # "none",
           HandleCheckoutSuccess(o, seen, outcome)
    PROVE  \/ UNCHANGED <<walletVars, orderStatus>>
           \/ outcome = "success" /\ UpdateOrderInTransaction(o)
           \/ outcome = "canceled" /\ SetOrder(o, "failed") /\ UNCHANGED walletVars
<1>1. CASE seen \notin {"pending", "created"} \/ outcome = "processing"
    BY <1>1 DEF HandleCheckoutSuccess
<1>2. CASE seen \in {"pending", "created"} /\ outcome = "success"
    BY <1>2 DEF HandleCheckoutSuccess
<1>3. CASE seen \in {"pending", "created"} /\ outcome = "canceled"
    BY <1>3 DEF HandleCheckoutSuccess
<1>4. ~(seen \in {"pending", "created"} /\ outcome = "short")
    BY DEF HandleCheckoutSuccess, Mismatched
<1> QED  BY <1>1, <1>2, <1>3, <1>4 DEF Sessions

\* An adjustment writes the row it wants, a reversal the opposite of the row
\* of its charge.
LEMMA WritesOneRow ==
    ASSUME TypeInv, NEW c \in Calls, Apply(c)
    PROVE  \E u \in Users, amount \in Int :
              /\ AppendLedgerEntryInTx(u, "manual_adjustment", amount, KeyOf[c])
              /\ KeyOf[c] \in Keys => u = Wanted[c].user /\ amount = Wanted[c].amount
              /\ KeyOf[c] \notin Keys => \E i \in DOMAIN walletLedger[u] :
                    /\ walletLedger[u][i].type = "request_charge"
                    /\ walletLedger[u][i].ref = KeyOf[c]
                    /\ amount = -walletLedger[u][i].amount
<1> USE AdjustAssumption
<1>1. CASE KeyOf[c] \in Keys
    BY <1>1 DEF Apply, WriteAdjustment
<1>2. CASE KeyOf[c] \notin Keys
    <2>1. PICK u \in Users : \E i \in DOMAIN walletLedger[u] :
             /\ walletLedger[u][i].type = "request_charge"
             /\ walletLedger[u][i].ref = KeyOf[c]
             /\ AppendLedgerEntryInTx(u, "manual_adjustment",
                                      -walletLedger[u][i].amount, KeyOf[c])
        BY <1>2 DEF Apply, WriteAdjustment
    <2>2. PICK i \in DOMAIN walletLedger[u] :
             /\ walletLedger[u][i].type = "request_charge"
             /\ walletLedger[u][i].ref = KeyOf[c]
             /\ AppendLedgerEntryInTx(u, "manual_adjustment",
                                      -walletLedger[u][i].amount, KeyOf[c])
        BY <2>1
    <2>3. WalletTypeOK(Orders \cup Keys \cup Charges)
        BY DEF TypeInv, AccountsTypeOK
    <2>4. walletLedger[u][i].amount \in Int
        BY <2>3, RowType
    <2> DEFINE a == -walletLedger[u][i].amount
    <2>5. a \in Int
        BY <2>4
    <2>6. AppendLedgerEntryInTx(u, "manual_adjustment", a, KeyOf[c])
        BY <2>2
    <2>7. /\ walletLedger[u][i].type = "request_charge"
          /\ walletLedger[u][i].ref = KeyOf[c]
          /\ a = -walletLedger[u][i].amount
        BY <2>2
    <2> HIDE DEF a
    <2> QED  BY <1>2, <2>5, <2>6, <2>7
<1> QED  BY <1>1, <1>2

-----------------------------------------------------------------------------
(* Types, and the order of a payment.                                      *)

\* The steps that leave the wallet alone and write the order, the checkout
\* and the provider's side.
LEMMA CheckoutStepType ==
    ASSUME TypeInv, NEW o \in Orders,
           \/ CreateOrder(o) \/ CreatePayment(o) \/ ShowCheckout(o) \/ FailCheckout(o)
           \/ Authorize(o) \/ Pay(o) \/ Cancel(o)
    PROVE  PaymentsTypeOK' /\ PaymentOrder' /\ UNCHANGED walletVars
<1> USE PaymentsAssumption
<1>0. PaymentsTypeOK /\ PaymentOrder
    BY DEF TypeInv, AccountsTypeOK
<1>1. CASE CreateOrder(o)
    <2>1. PaymentsTypeOK'
        BY <1>0, <1>1 DEF CreateOrder, SetOrder, PaymentsTypeOK, OrderStatuses, CheckoutStates
    <2>2. PaymentOrder'
        BY <1>0, <1>1 DEF CreateOrder, SetOrder, PaymentsTypeOK, PaymentOrder, Agreed
    <2> QED  BY <1>1, <2>1, <2>2 DEF CreateOrder
<1>2. CASE CreatePayment(o)
    <2>1. PaymentsTypeOK'
        BY <1>0, <1>2 DEF CreatePayment, Fault, PaymentsTypeOK, CheckoutStates, Sessions
    <2>2. PaymentOrder'
        <3>1. CASE session' = [session EXCEPT ![o] = "processing"]
            <4>1. checkout[o] = "saved" /\ session[o] = "none"
                BY <1>0, <1>2 DEF CreatePayment, PaymentOrder
            <4>2. checkout' = [checkout EXCEPT ![o] = "opened"]
                BY <1>0, <1>2, <3>1, <4>1 DEF CreatePayment, PaymentsTypeOK
            <4>3. \A e \in events' : Agreed(e.order, e.outcome)'
                BY <1>0, <1>2, <3>1, <4>1 DEF CreatePayment, PaymentsTypeOK, PaymentOrder,
                                              Agreed, Events
            <4>4. \A d \in Deliveries : delivery'[d] # NoDelivery =>
                     Agreed(delivery[d].order, delivery[d].outcome)'
                BY <1>0, <1>2, <3>1, <4>1 DEF CreatePayment, PaymentsTypeOK, PaymentOrder,
                                              Agreed, Handling
            <4> QED  BY <1>0, <1>2, <3>1, <4>1, <4>2, <4>3, <4>4
                        DEF CreatePayment, PaymentsTypeOK, PaymentOrder
        <3>2. CASE UNCHANGED session
            BY <1>0, <1>2, <3>2 DEF CreatePayment, PaymentsTypeOK, PaymentOrder, Agreed
        <3> QED  BY <1>2, <3>1, <3>2 DEF CreatePayment
    <2> QED  BY <1>2, <2>1, <2>2 DEF CreatePayment
<1>3. CASE ShowCheckout(o)
    <2>1. PaymentsTypeOK'
        BY <1>0, <1>3 DEF ShowCheckout, SetOrder, Fault, PaymentsTypeOK, OrderStatuses,
                          CheckoutStates
    <2>2. PaymentOrder'
        BY <1>0, <1>3 DEF ShowCheckout, SetOrder, PaymentsTypeOK, PaymentOrder, Agreed
    <2> QED  BY <1>3, <2>1, <2>2 DEF ShowCheckout
<1>4. CASE FailCheckout(o)
    <2>1. PaymentsTypeOK'
        BY <1>0, <1>4 DEF FailCheckout, SetOrder, Fault, PaymentsTypeOK, OrderStatuses,
                          CheckoutStates
    <2>2. PaymentOrder'
        BY <1>0, <1>4 DEF FailCheckout, SetOrder, PaymentsTypeOK, PaymentOrder, Agreed
    <2> QED  BY <1>4, <2>1, <2>2 DEF FailCheckout
<1>5. CASE Authorize(o)
    <2>1. PaymentsTypeOK'
        BY <1>0, <1>5 DEF Authorize, Emit, PaymentsTypeOK, Events
    <2>2. PaymentOrder'
        BY <1>0, <1>5 DEF Authorize, Emit, PaymentsTypeOK, PaymentOrder, Agreed
    <2> QED  BY <1>5, <2>1, <2>2 DEF Authorize
<1>6. CASE Pay(o)
    <2>1. PaymentsTypeOK'
        BY <1>0, <1>6 DEF Pay, Emit, PaymentsTypeOK, Events, Sessions
    <2>2. PaymentOrder'
        BY <1>0, <1>6 DEF Pay, Emit, PaymentsTypeOK, PaymentOrder, Agreed
    <2> QED  BY <1>6, <2>1, <2>2 DEF Pay
<1>7. CASE Cancel(o)
    <2>1. PaymentsTypeOK'
        BY <1>0, <1>7 DEF Cancel, PaymentsTypeOK, Sessions
    <2>2. PaymentOrder'
        BY <1>0, <1>7 DEF Cancel, PaymentsTypeOK, PaymentOrder, Agreed
    <2> QED  BY <1>7, <2>1, <2>2 DEF Cancel
<1> QED  BY <1>1, <1>2, <1>3, <1>4, <1>5, <1>6, <1>7

\* The steps of a notification or a callback short of its transaction.
LEMMA DeliveryStepType ==
    ASSUME TypeInv, NEW d \in Deliveries,
           \/ \E e \in events : Notify(d, e)
           \/ \E o \in Orders : Callback(d, o)
           \/ FetchSession(d)
           \/ Refuse(d)
           \/ FailDelivery(d)
    PROVE  PaymentsTypeOK' /\ PaymentOrder' /\ UNCHANGED walletVars
<1> USE PaymentsAssumption
<1>0. PaymentsTypeOK /\ PaymentOrder
    BY DEF TypeInv, AccountsTypeOK
<1>1. ASSUME NEW e \in events, Notify(d, e)
      PROVE  PaymentsTypeOK' /\ PaymentOrder' /\ UNCHANGED walletVars
    <2>0. e.order \in Orders /\ e.outcome \in Sessions
        BY <1>0 DEF PaymentsTypeOK, Events, Sessions
    <2>1. PaymentsTypeOK'
        BY <1>0, <1>1, <2>0 DEF Notify, Begin, PaymentsTypeOK, Handling
    <2>2. PaymentOrder'
        BY <1>0, <1>1, <2>0 DEF Notify, Begin, PaymentsTypeOK, PaymentOrder, Agreed
    <2> QED  BY <1>1, <2>1, <2>2 DEF Notify
<1>2. ASSUME NEW o \in Orders, Callback(d, o)
      PROVE  PaymentsTypeOK' /\ PaymentOrder' /\ UNCHANGED walletVars
    <2>1. PaymentsTypeOK'
        BY <1>0, <1>2 DEF Callback, Begin, PaymentsTypeOK, Handling
    <2>2. PaymentOrder'
        BY <1>0, <1>2 DEF Callback, Begin, PaymentsTypeOK, PaymentOrder, Agreed
    <2> QED  BY <1>2, <2>1, <2>2 DEF Callback
<1>3. CASE FetchSession(d)
    <2>0. delivery[d] \in Handling
        BY <1>0, <1>3 DEF FetchSession, PaymentsTypeOK
    <2>1. PaymentsTypeOK'
        BY <1>0, <1>3, <2>0 DEF FetchSession, PaymentsTypeOK, Handling
    <2>2. PaymentOrder'
        BY <1>0, <1>3, <2>0 DEF FetchSession, PaymentsTypeOK, PaymentOrder, Agreed, Handling,
                                Sessions
    <2> QED  BY <1>3, <2>1, <2>2 DEF FetchSession
<1>4. CASE FailDelivery(d)
    <2>1. PaymentsTypeOK'
        BY <1>0, <1>4 DEF FailDelivery, Fault, PaymentsTypeOK
    <2>2. PaymentOrder'
        BY <1>0, <1>4 DEF FailDelivery, PaymentsTypeOK, PaymentOrder, Agreed
    <2> QED  BY <1>4, <2>1, <2>2 DEF FailDelivery
<1>5. CASE Refuse(d)
    <2>1. PaymentsTypeOK'
        BY <1>0, <1>5 DEF Refuse, PaymentsTypeOK
    <2>2. PaymentOrder'
        BY <1>0, <1>5 DEF Refuse, PaymentsTypeOK, PaymentOrder, Agreed
    <2> QED  BY <1>5, <2>1, <2>2 DEF Refuse
<1> QED  BY <1>1, <1>2, <1>3, <1>4, <1>5

\* The transaction of a notification or a callback.
LEMMA HandleStepType ==
    ASSUME TypeInv, NEW d \in Deliveries, Handle(d)
    PROVE  PaymentsTypeOK' /\ PaymentOrder' /\ WalletTypeOK(Refs)'
<1> USE PaymentsAssumption
<1> DEFINE h == delivery[d]
<1>0. PaymentsTypeOK /\ PaymentOrder /\ WalletTypeOK(Refs)
    BY DEF TypeInv, AccountsTypeOK, Refs
<1>1. /\ h \in Handling /\ h.outcome # "unasked"
      /\ delivery' = [delivery EXCEPT ![d] = NoDelivery]
      /\ events' \subseteq events
      /\ UNCHANGED <<checkout, session, faults>>
    BY <1>0 DEF Handle, PaymentsTypeOK
<1>2. /\ h.order \in Orders /\ h.outcome \in Sessions
      /\ Agreed(h.order, h.outcome)
    BY <1>0, <1>1 DEF Handle, Handling, PaymentOrder
<1>3. h.outcome # "none"
    BY <1>2 DEF Agreed
<1>4. \/ UNCHANGED <<walletVars, orderStatus>>
      \/ h.outcome = "success" /\ UpdateOrderInTransaction(h.order)
      \/ h.outcome = "canceled" /\ SetOrder(h.order, "failed") /\ UNCHANGED walletVars
    BY <1>2, <1>3, HandleEffect DEF Handle
<1>5. \A e \in events' : Agreed(e.order, e.outcome)'
    BY <1>0, <1>1 DEF PaymentOrder, Agreed
<1>6. \A c \in Deliveries : delivery'[c] # NoDelivery =>
         Agreed(delivery[c].order, delivery[c].outcome)'
    BY <1>0, <1>1 DEF PaymentsTypeOK, PaymentOrder, Agreed
<1>7. delivery' \in [Deliveries -> Handling \cup {NoDelivery}] /\ events' \subseteq Events
    BY <1>0, <1>1 DEF PaymentsTypeOK
<1> HIDE DEF h
<1>8. ASSUME orderStatus' = orderStatus
                \/ (SetOrder(h.order, "paid") /\ session[h.order] = "success")
                \/ SetOrder(h.order, "failed")
      PROVE  PaymentsTypeOK' /\ PaymentOrder'
    <2>1. orderStatus' \in [Orders -> OrderStatuses]
        BY <1>0, <1>2, <1>8 DEF SetOrder, PaymentsTypeOK, OrderStatuses
    <2>2. \A o \in Orders : orderStatus'[o] = "paid" => session'[o] = "success"
        BY <1>0, <1>1, <1>2, <1>8 DEF SetOrder, PaymentsTypeOK, PaymentOrder
    <2>3. PaymentsTypeOK'
        BY <1>0, <1>1, <1>7, <2>1 DEF PaymentsTypeOK
    <2> QED  BY <1>0, <1>1, <1>5, <1>6, <2>2, <2>3 DEF PaymentOrder
<1>9. CASE UNCHANGED <<walletVars, orderStatus>>
    BY <1>0, <1>8, <1>9 DEF WalletTypeOK, walletVars
<1>10. CASE h.outcome = "canceled" /\ SetOrder(h.order, "failed") /\ UNCHANGED walletVars
    BY <1>0, <1>8, <1>10 DEF WalletTypeOK, walletVars
<1>11. CASE h.outcome = "success" /\ UpdateOrderInTransaction(h.order)
    <2>1. session[h.order] = "success"
        BY <1>2, <1>11 DEF Agreed
    <2>2. CASE UNCHANGED <<walletVars, orderStatus>>
        BY <1>9, <2>2
    <2>3. CASE SetOrder(h.order, "paid") /\ UNCHANGED walletVars
        BY <1>0, <1>8, <2>1, <2>3 DEF WalletTypeOK, walletVars
    <2>4. CASE /\ SetOrder(h.order, "paid") /\ UNCHANGED frozen
               /\ AppendLedgerEntryInTx(Payer[h.order], "recharge",
                                        OrderAmount[h.order], h.order)
        <3>1. /\ Payer[h.order] \in Users /\ OrderAmount[h.order] \in Int
              /\ "recharge" \in EntryTypes /\ h.order \in Refs
            BY <1>2 DEF EntryTypes, Refs
        <3>2. /\ balance' \in [Users -> Int]
              /\ walletLedger' \in [Users -> Seq(EntriesOf(Refs))]
            BY <1>0, <2>4, <3>1, AppendType
        <3>3. WalletTypeOK(Refs)'
            BY <1>0, <2>4, <3>2 DEF WalletTypeOK
        <3> QED  BY <1>8, <2>1, <2>4, <3>3
    <2> QED  BY <1>2, <1>11, <2>2, <2>3, <2>4, UpdateEffect
<1> QED  BY <1>4, <1>9, <1>10, <1>11

\* The steps of the calls of administrators.
LEMMA CallStepType ==
    ASSUME TypeInv, NEW c \in Calls, Start(c) \/ CallStep(c)
    PROVE  AdjustTypeOK' /\ AttemptsLeft' /\ WalletTypeOK(Refs)'
<1> USE AdjustAssumption
<1>0. AdjustTypeOK /\ AttemptsLeft /\ WalletTypeOK(Refs)
    BY DEF TypeInv, AccountsTypeOK, Refs
<1>1. ASSUME UNCHANGED walletVars PROVE WalletTypeOK(Refs)'
    BY <1>0, <1>1 DEF WalletTypeOK, walletVars
<1>2. ASSUME NEW state \in CallStates \ {"trying"}, call[c] \in {"idle", "lookup", "failed"},
             state = "lookup" => call[c] = "idle",
             state # "idle", Goto(c, state), UNCHANGED <<attempts, busy, operatorOf>>
      PROVE  AdjustTypeOK' /\ AttemptsLeft'
    BY <1>0, <1>2 DEF Goto, AdjustTypeOK, AttemptsLeft
<1>3. ASSUME attempts[c] < MaxAttempts, Goto(c, "trying"),
             UNCHANGED <<attempts, busy, operatorOf>>
      PROVE  AdjustTypeOK' /\ AttemptsLeft'
    BY <1>0, <1>3 DEF Goto, AdjustTypeOK, AttemptsLeft, CallStates
<1>4. CASE Start(c)
    <2>1. CASE Goto(c, "lookup")
        BY <1>1, <1>2, <1>4, <2>1 DEF Start, CallStates
    <2>2. CASE Goto(c, "error")
        BY <1>1, <1>2, <1>4, <2>2 DEF Start, CallStates, Answers
    <2> QED  BY <1>4, <2>1, <2>2 DEF Start
<1>5. CASE Lookup(c)
    <2>1. CASE Goto(c, "trying")
        BY <1>0, <1>1, <1>3, <1>5, <2>1 DEF Lookup, AttemptsLeft
    <2>2. CASE Goto(c, "alreadyApplied")
        BY <1>1, <1>2, <1>5, <2>2 DEF Lookup, CallStates, Answers
    <2>3. CASE Goto(c, "conflict")
        BY <1>1, <1>2, <1>5, <2>3 DEF Lookup, CallStates, Answers
    <2> QED  BY <1>5, <2>1, <2>2, <2>3 DEF Lookup
<1>6. CASE Recover(c)
    <2>1. CASE Goto(c, "trying") /\ attempts[c] < MaxAttempts
        BY <1>1, <1>3, <1>6, <2>1 DEF Recover
    <2>2. CASE Goto(c, "alreadyApplied")
        BY <1>1, <1>2, <1>6, <2>2 DEF Recover, CallStates, Answers
    <2>3. CASE Goto(c, "conflict")
        BY <1>1, <1>2, <1>6, <2>3 DEF Recover, CallStates, Answers
    <2>4. CASE Goto(c, "error")
        BY <1>1, <1>2, <1>6, <2>4 DEF Recover, CallStates, Answers
    <2> QED  BY <1>6, <2>1, <2>2, <2>3, <2>4 DEF Recover
<1>7. CASE Fail(c)
    <2>1. attempts[c] < MaxAttempts /\ attempts[c] \in 0..MaxAttempts
        BY <1>0, <1>7 DEF Fail, AttemptsLeft, AdjustTypeOK
    <2>2. attempts[c] + 1 \in 0..MaxAttempts
        BY <2>1
    <2>3. AdjustTypeOK'
        BY <1>0, <1>7, <2>2 DEF Fail, Goto, AdjustTypeOK, CallStates
    <2>4. AttemptsLeft'
        BY <1>0, <1>7 DEF Fail, Goto, AdjustTypeOK, AttemptsLeft
    <2> QED  BY <1>1, <1>7, <2>3, <2>4 DEF Fail
<1>8. CASE Apply(c)
    <2>1. AdjustTypeOK' /\ AttemptsLeft'
        BY <1>0, <1>8 DEF Apply, WriteAdjustment, Goto, AdjustTypeOK, AttemptsLeft,
                          CallStates, Answers
    <2>2. PICK u \in Users, amount \in Int :
             AppendLedgerEntryInTx(u, "manual_adjustment", amount, KeyOf[c])
        BY <1>8, WritesOneRow
    <2>3. "manual_adjustment" \in EntryTypes /\ KeyOf[c] \in Refs
        BY DEF EntryTypes, Refs
    <2>4. /\ balance' \in [Users -> Int]
          /\ walletLedger' \in [Users -> Seq(EntriesOf(Refs))]
        BY <1>0, <2>2, <2>3, AppendType
    <2> QED  BY <1>0, <1>8, <2>1, <2>4 DEF Apply, WalletTypeOK
<1> QED  BY <1>4, <1>5, <1>6, <1>7, <1>8 DEF CallStep

LEMMA MoneyTypeStep == TypeInv /\ [AccountsNext]_accountsVars => TypeInv'
<1> SUFFICES ASSUME TypeInv, [AccountsNext]_accountsVars
             PROVE  TypeInv'
    OBVIOUS
<1> USE AccountsAssumption
<1>0. /\ WalletTypeOK(Refs) /\ PaymentsTypeOK /\ AdjustTypeOK
      /\ AttemptsLeft /\ PaymentOrder
    BY DEF TypeInv, AccountsTypeOK, Refs
<1>1. SUFFICES /\ WalletTypeOK(Refs)' /\ PaymentsTypeOK' /\ AdjustTypeOK'
               /\ AttemptsLeft' /\ PaymentOrder'
    BY DEF TypeInv, AccountsTypeOK, Refs
<1>2. ASSUME UNCHANGED walletVars PROVE WalletTypeOK(Refs)'
    BY <1>0, <1>2 DEF WalletTypeOK, walletVars
<1>3. ASSUME UNCHANGED paymentVars PROVE PaymentsTypeOK' /\ PaymentOrder'
    <2>1. PaymentsTypeOK'
        BY <1>0, <1>3 DEF PaymentsTypeOK, paymentVars
    <2>2. PaymentOrder'
        BY <1>0, <1>3 DEF PaymentOrder, Agreed, paymentVars
    <2> QED  BY <2>1, <2>2
<1>4. ASSUME UNCHANGED adjustVars PROVE AdjustTypeOK' /\ AttemptsLeft'
    BY <1>0, <1>4 DEF AdjustTypeOK, AttemptsLeft, adjustVars
<1>5. CASE PaymentsNext /\ UNCHANGED adjustVars
    <2>1. PaymentsTypeOK' /\ PaymentOrder' /\ WalletTypeOK(Refs)'
        <3>1. ASSUME NEW o \in Orders,
                     \/ CreateOrder(o) \/ CreatePayment(o) \/ ShowCheckout(o)
                     \/ FailCheckout(o) \/ Authorize(o) \/ Pay(o) \/ Cancel(o)
              PROVE  PaymentsTypeOK' /\ PaymentOrder' /\ WalletTypeOK(Refs)'
            BY <1>2, <3>1, CheckoutStepType
        <3>2. ASSUME NEW d \in Deliveries,
                     \/ \E e \in events : Notify(d, e)
                     \/ \E o \in Orders : Callback(d, o)
                     \/ FetchSession(d) \/ Refuse(d) \/ FailDelivery(d)
              PROVE  PaymentsTypeOK' /\ PaymentOrder' /\ WalletTypeOK(Refs)'
            BY <1>2, <3>2, DeliveryStepType
        <3>3. ASSUME NEW d \in Deliveries, Handle(d)
              PROVE  PaymentsTypeOK' /\ PaymentOrder' /\ WalletTypeOK(Refs)'
            BY <3>3, HandleStepType
        <3> QED  BY <1>5, <3>1, <3>2, <3>3 DEF PaymentsNext
    <2> QED  BY <1>4, <1>5, <2>1
<1>6. CASE AdjustNext /\ UNCHANGED paymentVars
    BY <1>3, <1>6, CallStepType DEF AdjustNext
<1>7. ASSUME NEW r \in Charges, ChargeRequest(r)
      PROVE  /\ WalletTypeOK(Refs)' /\ PaymentsTypeOK' /\ AdjustTypeOK'
             /\ AttemptsLeft' /\ PaymentOrder'
    <2>1. /\ ChargedUser[r] \in Users /\ -ChargeAmount[r] \in Int
          /\ "request_charge" \in EntryTypes /\ r \in Refs
        BY DEF EntryTypes, Refs
    <2>2. /\ balance' \in [Users -> Int]
          /\ walletLedger' \in [Users -> Seq(EntriesOf(Refs))]
        BY <1>0, <1>7, <2>1, AppendType DEF ChargeRequest
    <2>3. frozen' \in [Users -> FreezeReasons \cup {"none"}]
        BY <1>0, <1>7, <2>1, FreezeType DEF ChargeRequest, WalletTypeOK
    <2>4. WalletTypeOK(Refs)'
        BY <2>2, <2>3 DEF WalletTypeOK
    <2> QED  BY <1>3, <1>4, <1>7, <2>4 DEF ChargeRequest
<1>8. CASE UNCHANGED accountsVars
    BY <1>2, <1>3, <1>4, <1>8 DEF accountsVars
<1> QED  BY <1>5, <1>6, <1>7, <1>8 DEF AccountsNext

LEMMA MoneyType == AccountsSafetySpec => []TypeInv
BY MoneyTypeInit, MoneyTypeStep, PTL DEF AccountsSafetySpec

(***************************************************************************)
(* Every variable of the wallets, the top-ups and the adjustments keeps    *)
(* its type; the retries of an adjustment stay within MaxAttempts.         *)
(***************************************************************************)
THEOREM AccountsTypeCorrect == AccountsSafetySpec => []AccountsTypeOK
<1>1. TypeInv => AccountsTypeOK
    BY DEF TypeInv
<1> QED  BY <1>1, MoneyType, PTL

-----------------------------------------------------------------------------
(* What a step does to the ledger and to the orders.                       *)

Credit(o) ==
    /\ SetOrder(o, "paid")
    /\ AppendLedgerEntryInTx(Payer[o], "recharge", OrderAmount[o], o)

\* A payment step keeps the ledger and moves no paid order, marks an order
\* paid that has its row or needs none, or credits one.
LEMMA PaymentEffect ==
    ASSUME TypeInv, PaymentsNext
    PROVE  \/ UNCHANGED <<balance, walletLedger, orderStatus>>
           \/ /\ UNCHANGED <<balance, walletLedger>>
              /\ \E o \in Orders, s \in OrderStatuses :
                    orderStatus[o] # "paid" /\ s # "paid" /\ SetOrder(o, s)
           \/ /\ UNCHANGED <<balance, walletLedger>>
              /\ \E o \in Orders : (o \in Uncredited \/ Recorded("recharge", o))
                                      /\ SetOrder(o, "paid")
           \/ \E o \in Orders \ Uncredited : Credit(o)
<1>0. PaymentsTypeOK /\ PaymentOrder
    BY DEF TypeInv, AccountsTypeOK
<1>1. ASSUME NEW o \in Orders,
             CreateOrder(o) \/ ShowCheckout(o) \/ FailCheckout(o)
      PROVE  /\ UNCHANGED <<balance, walletLedger>>
             /\ orderStatus[o] # "paid"
             /\ UNCHANGED orderStatus \/ SetOrder(o, "pending")
                   \/ SetOrder(o, "created") \/ SetOrder(o, "completed")
    BY <1>0, <1>1 DEF CreateOrder, ShowCheckout, FailCheckout, PaymentOrder, walletVars
<1>2. ASSUME NEW o \in Orders, CreatePayment(o) \/ Authorize(o) \/ Pay(o) \/ Cancel(o)
      PROVE  UNCHANGED <<balance, walletLedger, orderStatus>>
    BY <1>2 DEF CreatePayment, Authorize, Pay, Cancel, walletVars
<1>3. ASSUME NEW d \in Deliveries,
             \/ \E e \in events : Notify(d, e)
             \/ \E o \in Orders : Callback(d, o)
             \/ FetchSession(d) \/ Refuse(d) \/ FailDelivery(d)
      PROVE  UNCHANGED <<balance, walletLedger, orderStatus>>
    BY <1>3 DEF Notify, Callback, FetchSession, Refuse, FailDelivery, walletVars
<1>4. ASSUME NEW d \in Deliveries, Handle(d)
      PROVE  \/ UNCHANGED <<balance, walletLedger, orderStatus>>
             \/ /\ UNCHANGED <<balance, walletLedger>>
                /\ \E o \in Orders : orderStatus[o] # "paid" /\ SetOrder(o, "failed")
             \/ /\ UNCHANGED <<balance, walletLedger>>
                /\ \E o \in Orders : (o \in Uncredited \/ Recorded("recharge", o))
                                        /\ SetOrder(o, "paid")
             \/ \E o \in Orders \ Uncredited : Credit(o)
    <2> DEFINE h == delivery[d]
    <2>1. h # NoDelivery /\ h.outcome # "unasked"
        BY <1>4 DEF Handle
    <2>2. /\ h.order \in Orders /\ h.outcome \in Sessions
          /\ Agreed(h.order, h.outcome) /\ h.outcome # "none"
        BY <1>0, <2>1 DEF PaymentsTypeOK, PaymentOrder, Handling, Agreed
    <2>3. \/ UNCHANGED <<walletVars, orderStatus>>
          \/ h.outcome = "success" /\ UpdateOrderInTransaction(h.order)
          \/ h.outcome = "canceled" /\ SetOrder(h.order, "failed") /\ UNCHANGED walletVars
        BY <1>4, <2>2, HandleEffect DEF Handle
    <2> HIDE DEF h
    <2>4. CASE UNCHANGED <<walletVars, orderStatus>>
        BY <2>4 DEF walletVars
    <2>5. CASE h.outcome = "canceled" /\ SetOrder(h.order, "failed") /\ UNCHANGED walletVars
        <3>1. session[h.order] = "canceled"
            BY <2>2, <2>5 DEF Agreed
        <3>2. orderStatus[h.order] # "paid"
            BY <1>0, <2>2, <3>1 DEF PaymentOrder
        <3> QED  BY <2>2, <2>5, <3>2 DEF walletVars
    <2>6. CASE UpdateOrderInTransaction(h.order)
        BY <2>2, <2>6, UpdateEffect DEF walletVars, Credit
    <2> QED  BY <2>3, <2>4, <2>5, <2>6
<1>5. {"pending", "created", "completed", "failed"} \subseteq OrderStatuses
    BY DEF OrderStatuses
<1> QED  BY <1>1, <1>2, <1>3, <1>4, <1>5 DEF PaymentsNext

-----------------------------------------------------------------------------
(* Conservation and the unique indexes.                                    *)

LEMMA AccountsLedgerInit == AccountsInit => WalletConserved /\ UniqueRows
<1> SUFFICES ASSUME AccountsInit PROVE WalletConserved /\ UniqueRows
    OBVIOUS
<1>1. \A u \in Users : balance[u] = 0 /\ walletLedger[u] = <<>>
    BY DEF AccountsInit, WalletInit
<1>2. \A u \in Users : Len(walletLedger[u]) = 0
    BY <1>1
<1>3. WalletConserved
    BY <1>1, <1>2 DEF WalletConserved, BalanceAfter
<1>4. UniqueRows
    BY <1>1 DEF UniqueRows
<1> QED  BY <1>3, <1>4

LEMMA AccountsLedgerStep ==
    ASSUME TypeInv, WalletConserved, UniqueRows, [AccountsNext]_accountsVars
    PROVE  WalletConserved' /\ UniqueRows'
<1> USE AccountsAssumption, PaymentsAssumption, AdjustAssumption
<1>0. WalletTypeOK(Refs)
    BY DEF TypeInv, AccountsTypeOK, Refs
<1>1. CASE UNCHANGED <<balance, walletLedger>>
    BY <1>1 DEF WalletConserved, UniqueRows
<1>2. ASSUME NEW u \in Users, NEW type \in EntryTypes, NEW amount \in Int,
             NEW ref \in Refs, AppendLedgerEntryInTx(u, type, amount, ref)
      PROVE  WalletConserved' /\ UniqueRows'
    BY <1>0, <1>2, AppendConserves, AppendUnique
<1>3. {"recharge", "request_charge", "manual_adjustment"} \subseteq EntryTypes
    BY DEF EntryTypes
<1>4. CASE PaymentsNext
    <2>1. ASSUME NEW o \in Orders \ Uncredited, Credit(o)
          PROVE  WalletConserved' /\ UniqueRows'
        <3>1. Payer[o] \in Users /\ OrderAmount[o] \in Int /\ o \in Refs
            BY DEF Refs
        <3> QED  BY <1>2, <1>3, <2>1, <3>1 DEF Credit
    <2> QED  BY <1>1, <1>4, <2>1, PaymentEffect
<1>5. CASE AdjustNext
    <2>1. ASSUME NEW c \in Calls, Apply(c)
          PROVE  WalletConserved' /\ UniqueRows'
        <3>1. PICK u \in Users, amount \in Int :
                 AppendLedgerEntryInTx(u, "manual_adjustment", amount, KeyOf[c])
            BY <2>1, WritesOneRow
        <3>2. KeyOf[c] \in Refs
            BY DEF Refs
        <3> QED  BY <1>2, <1>3, <3>1, <3>2
    <2> QED  BY <1>1, <1>5, <2>1 DEF AdjustNext, CallStep, Start, Lookup, Fail, Recover,
                                     walletVars
<1>6. ASSUME NEW r \in Charges, ChargeRequest(r)
      PROVE  WalletConserved' /\ UniqueRows'
    <2>1. ChargedUser[r] \in Users /\ -ChargeAmount[r] \in Int /\ r \in Refs
        BY DEF Refs
    <2> QED  BY <1>2, <1>3, <1>6, <2>1 DEF ChargeRequest
<1> QED  BY <1>1, <1>4, <1>5, <1>6 DEF AccountsNext, accountsVars, walletVars

(***************************************************************************)
(* Whatever recharges, adjustments, reversals and charges commit, in any   *)
(* order, every balance is the sum of its user's rows.                     *)
(***************************************************************************)
THEOREM MoneyIsConserved == AccountsSafetySpec => []WalletConserved
<1>1. WalletConserved /\ UniqueRows /\ TypeInv /\ [AccountsNext]_accountsVars
         => WalletConserved' /\ UniqueRows'
    BY AccountsLedgerStep
<1> QED  BY <1>1, AccountsLedgerInit, MoneyType, PTL DEF AccountsSafetySpec

-----------------------------------------------------------------------------
(* Orders and recharges.                                                   *)

(***************************************************************************)
(* The two sides of order(paid) <-> wallet_ledger(recharge): a recharge    *)
(* row is that of a paid order and the payer's, and a paid order has one.  *)
(***************************************************************************)
RechargesArePaid ==
    \A u \in Users : \A i \in DOMAIN walletLedger[u] :
        walletLedger[u][i].type = "recharge" =>
            LET o == walletLedger[u][i].ref
            IN  /\ o \in Orders \ Uncredited /\ u = Payer[o]
                /\ walletLedger[u][i].amount = OrderAmount[o]
                /\ orderStatus[o] = "paid"

PaidAreRecharged ==
    \A o \in Orders \ Uncredited : orderStatus[o] = "paid" => Recorded("recharge", o)

RechargeInv == RechargesArePaid /\ PaidAreRecharged

LEMMA RechargeInit == AccountsInit => RechargeInv
BY DEF AccountsInit, WalletInit, PaymentsInit, RechargeInv, RechargesArePaid,
       PaidAreRecharged

\* An entry that is no recharge changes nothing for the orders.
LEMMA OtherEntriesKeepRecharges ==
    ASSUME TypeInv, RechargeInv, UNCHANGED orderStatus,
           NEW u \in Users, NEW type \in EntryTypes \ {"recharge"}, NEW amount \in Int,
           NEW ref \in Refs, AppendLedgerEntryInTx(u, type, amount, ref)
    PROVE  RechargeInv'
<1>0. WalletTypeOK(Refs)
    BY DEF TypeInv, AccountsTypeOK, Refs
<1> DEFINE n == Len(walletLedger[u]) + 1
<1>1. /\ walletLedger'[u][n].type = type
      /\ \A v \in Users : \A i \in DOMAIN walletLedger[v] :
            i \in DOMAIN walletLedger'[v] /\ walletLedger'[v][i] = walletLedger[v][i]
      /\ \A v \in Users : \A i \in DOMAIN walletLedger'[v] :
            i \in DOMAIN walletLedger[v] \/ (v = u /\ i = n)
    BY <1>0, AppendRows
<1> HIDE DEF n
<1>2. RechargesArePaid'
    BY <1>1 DEF RechargeInv, RechargesArePaid
<1>3. PaidAreRecharged'
    BY <1>1 DEF RechargeInv, PaidAreRecharged, Recorded
<1> QED  BY <1>2, <1>3 DEF RechargeInv

LEMMA RechargeStep ==
    ASSUME TypeInv, RechargeInv, [AccountsNext]_accountsVars
    PROVE  RechargeInv'
<1> USE AccountsAssumption, PaymentsAssumption, AdjustAssumption
<1>0. WalletTypeOK(Refs) /\ PaymentsTypeOK
    BY DEF TypeInv, AccountsTypeOK, Refs
<1>1. CASE UNCHANGED <<walletLedger, orderStatus>>
    BY <1>1 DEF RechargeInv, RechargesArePaid, PaidAreRecharged, Recorded
<1>2. ASSUME NEW o \in Orders, NEW s \in OrderStatuses, UNCHANGED walletLedger,
             SetOrder(o, s),
             \/ orderStatus[o] # "paid" /\ s # "paid"
             \/ s = "paid" /\ (o \in Uncredited \/ Recorded("recharge", o))
      PROVE  RechargeInv'
    <2>1. RechargesArePaid'
        BY <1>0, <1>2 DEF SetOrder, PaymentsTypeOK, RechargeInv, RechargesArePaid
    <2>2. PaidAreRecharged'
        BY <1>0, <1>2 DEF SetOrder, PaymentsTypeOK, RechargeInv, PaidAreRecharged, Recorded
    <2> QED  BY <2>1, <2>2 DEF RechargeInv
<1>3. ASSUME NEW o \in Orders \ Uncredited, Credit(o)
      PROVE  RechargeInv'
    <2> DEFINE u == Payer[o]
               n == Len(walletLedger[u]) + 1
    <2>1. /\ u \in Users /\ OrderAmount[o] \in Int
          /\ "recharge" \in EntryTypes /\ o \in Refs
        BY DEF EntryTypes, Refs
    <2>2. /\ n \in DOMAIN walletLedger'[u]
          /\ walletLedger'[u][n].type = "recharge"
          /\ walletLedger'[u][n].ref = o
          /\ walletLedger'[u][n].amount = OrderAmount[o]
          /\ \A v \in Users : \A i \in DOMAIN walletLedger[v] :
                i \in DOMAIN walletLedger'[v] /\ walletLedger'[v][i] = walletLedger[v][i]
          /\ \A v \in Users : \A i \in DOMAIN walletLedger'[v] :
                i \in DOMAIN walletLedger[v] \/ (v = u /\ i = n)
        BY <1>0, <1>3, <2>1, AppendRows DEF Credit
    <2> HIDE DEF n
    <2>3. RechargesArePaid'
        BY <1>0, <1>3, <2>2 DEF Credit, SetOrder, PaymentsTypeOK, RechargeInv,
                                RechargesArePaid
    <2>4. PaidAreRecharged'
        BY <1>0, <1>3, <2>1, <2>2 DEF Credit, SetOrder, PaymentsTypeOK, RechargeInv,
                                PaidAreRecharged, Recorded
    <2> QED  BY <2>3, <2>4 DEF RechargeInv
<1>4. CASE PaymentsNext
    BY <1>1, <1>2, <1>3, <1>4, PaymentEffect DEF OrderStatuses
<1>5. CASE AdjustNext /\ UNCHANGED paymentVars
    <2>1. ASSUME NEW c \in Calls, Apply(c), UNCHANGED orderStatus
          PROVE  RechargeInv'
        <3>1. PICK u \in Users, amount \in Int :
                 AppendLedgerEntryInTx(u, "manual_adjustment", amount, KeyOf[c])
            BY <2>1, WritesOneRow
        <3>2. KeyOf[c] \in Refs /\ "manual_adjustment" \in EntryTypes \ {"recharge"}
            BY DEF Refs, EntryTypes
        <3> QED  BY <2>1, <3>1, <3>2, OtherEntriesKeepRecharges
    <2> QED  BY <1>1, <1>5, <2>1 DEF AdjustNext, CallStep, Start, Lookup, Fail, Recover,
                                     walletVars, paymentVars
<1>6. ASSUME NEW r \in Charges, ChargeRequest(r)
      PROVE  RechargeInv'
    <2>1. /\ ChargedUser[r] \in Users /\ -ChargeAmount[r] \in Int /\ r \in Refs
          /\ "request_charge" \in EntryTypes \ {"recharge"}
        BY DEF Refs, EntryTypes
    <2> QED  BY <1>6, <2>1, OtherEntriesKeepRecharges DEF ChargeRequest, paymentVars
<1> QED  BY <1>1, <1>4, <1>5, <1>6 DEF AccountsNext, accountsVars, walletVars, paymentVars

(***************************************************************************)
(* order(paid) <-> wallet_ledger(recharge), for any number of orders and   *)
(* of notifications and callbacks, repeated, late and racing.              *)
(***************************************************************************)
THEOREM PaidOrdersAreCredited == AccountsSafetySpec => []PaidIffRecharged
<1> USE PaymentsAssumption
<1>1. ASSUME RechargeInv, UniqueRows PROVE PaidIffRecharged
    <2> SUFFICES ASSUME NEW o \in Orders
                 PROVE  /\ orderStatus[o] = "paid" /\ o \notin Uncredited
                              => \E i \in RechargesOf(o) :
                                    walletLedger[Payer[o]][i].amount = OrderAmount[o]
                        /\ orderStatus[o] # "paid" \/ o \in Uncredited => RechargesOf(o) = {}
                        /\ \A i, j \in RechargesOf(o) : i = j
        BY DEF PaidIffRecharged
    <2>1. ASSUME NEW i \in RechargesOf(o)
          PROVE  /\ Payer[o] \in Users /\ i \in DOMAIN walletLedger[Payer[o]]
                 /\ walletLedger[Payer[o]][i].type = "recharge"
                 /\ walletLedger[Payer[o]][i].ref = o
                 /\ o \notin Uncredited /\ orderStatus[o] = "paid"
        BY <1>1, <2>1 DEF RechargesOf, RechargeInv, RechargesArePaid
    <2>2. \A i, j \in RechargesOf(o) : i = j
        BY <1>1, <2>1 DEF UniqueRows
    <2>3. ASSUME orderStatus[o] = "paid", o \notin Uncredited
          PROVE  \E i \in RechargesOf(o) : walletLedger[Payer[o]][i].amount = OrderAmount[o]
        <3>1. PICK u \in Users : \E i \in DOMAIN walletLedger[u] :
                 walletLedger[u][i].type = "recharge" /\ walletLedger[u][i].ref = o
            BY <1>1, <2>3 DEF RechargeInv, PaidAreRecharged, Recorded
        <3>2. PICK i \in DOMAIN walletLedger[u] :
                 walletLedger[u][i].type = "recharge" /\ walletLedger[u][i].ref = o
            BY <3>1
        <3>3. u = Payer[o] /\ walletLedger[u][i].amount = OrderAmount[o]
            BY <1>1, <3>2 DEF RechargeInv, RechargesArePaid
        <3> QED  BY <3>2, <3>3 DEF RechargesOf
    <2> QED  BY <2>1, <2>2, <2>3
<1>2. RechargeInv /\ TypeInv /\ [AccountsNext]_accountsVars => RechargeInv'
    BY RechargeStep
<1>3. WalletConserved /\ UniqueRows /\ TypeInv /\ [AccountsNext]_accountsVars
         => WalletConserved' /\ UniqueRows'
    BY AccountsLedgerStep
<1>4. RechargeInv /\ UniqueRows => PaidIffRecharged
    BY <1>1
<1> QED  BY <1>2, <1>3, <1>4, AccountsLedgerInit, RechargeInit, MoneyType, PTL
         DEF AccountsSafetySpec

(***************************************************************************)
(* Nothing is credited and no order paid that the provider did not take in *)
(* full: an order is paid only with its session, and a recharge row is one *)
(* of a paid order.                                                        *)
(***************************************************************************)
THEOREM OnlyFullPayments == AccountsSafetySpec => []OnlyFullPaymentsCredit
<1>1. ASSUME TypeInv, RechargeInv PROVE OnlyFullPaymentsCredit
    <2> SUFFICES ASSUME NEW o \in Orders,
                        orderStatus[o] = "paid" \/ RechargesOf(o) # {}
                 PROVE  session[o] = "success"
        BY DEF OnlyFullPaymentsCredit
    <2>1. ASSUME NEW i \in RechargesOf(o)
          PROVE  orderStatus[o] = "paid"
        BY <1>1, <2>1, PaymentsAssumption DEF RechargesOf, RechargeInv, RechargesArePaid
    <2> QED  BY <1>1, <2>1 DEF TypeInv, PaymentOrder
<1>2. RechargeInv /\ TypeInv /\ [AccountsNext]_accountsVars => RechargeInv'
    BY RechargeStep
<1>3. TypeInv /\ RechargeInv => OnlyFullPaymentsCredit
    BY <1>1
<1> QED  BY <1>2, <1>3, RechargeInit, MoneyType, PTL DEF AccountsSafetySpec

-----------------------------------------------------------------------------
(* Answers and reversals.                                                  *)

(***************************************************************************)
(* A row under a key of an adjustment or a reversal; a reversal row stands *)
(* in the wallet of its charge, for the opposite amount.                   *)
(***************************************************************************)
ReversalsMatch ==
    \A u \in Users : \A i \in DOMAIN walletLedger[u] :
        walletLedger[u][i].type = "manual_adjustment" =>
            LET k == walletLedger[u][i].ref
            IN  /\ k \in Keys \cup Charges
                /\ k \in Charges =>
                      HasEntry(u, "request_charge", k, -walletLedger[u][i].amount)

\* Whoever finds the payload finds the key.
LEMMA MatchesUsed ==
    ASSUME NEW c \in Calls, PayloadMatches(c)
    PROVE  KeyUsed(KeyOf[c])
<1> USE AdjustAssumption
<1>1. CASE KeyOf[c] \in Keys
    BY <1>1 DEF PayloadMatches, HasEntry, KeyUsed, Recorded
<1>2. CASE KeyOf[c] \notin Keys
    BY <1>2 DEF PayloadMatches, HasEntry, KeyUsed, Recorded
<1> QED  BY <1>1, <1>2

\* What is found under a key that is used does not change any more: its row
\* is unique, and so is the row of the charge it reverses.
LEMMA UsedKeyIsStable ==
    ASSUME TypeInv, ReversalsMatch,
           NEW u \in Users, NEW type \in EntryTypes, NEW amount \in Int,
           NEW ref \in Refs, AppendLedgerEntryInTx(u, type, amount, ref),
           NEW c \in Calls, KeyUsed(KeyOf[c]), operatorOf'[KeyOf[c]] = operatorOf[KeyOf[c]]
    PROVE  KeyUsed(KeyOf[c])' /\ (PayloadMatches(c)' <=> PayloadMatches(c))
<1> USE AdjustAssumption
<1>0. WalletTypeOK(Refs)
    BY DEF TypeInv, AccountsTypeOK, Refs
<1> DEFINE n == Len(walletLedger[u]) + 1
           k == KeyOf[c]
<1>1. /\ n \in DOMAIN walletLedger'[u]
      /\ walletLedger'[u][n].type = type
      /\ walletLedger'[u][n].ref = ref
      /\ \A v \in Users : \A i \in DOMAIN walletLedger[v] :
            i \in DOMAIN walletLedger'[v] /\ walletLedger'[v][i] = walletLedger[v][i]
      /\ \A v \in Users : \A i \in DOMAIN walletLedger'[v] :
            i \in DOMAIN walletLedger[v] \/ (v = u /\ i = n)
    BY <1>0, AppendRows
<1>2. ~Recorded(type, ref)
    BY DEF AppendLedgerEntryInTx
<1> HIDE DEF n
<1>3. k \in Keys \cup Charges
    OBVIOUS
<1>4. PICK w \in Users : \E j \in DOMAIN walletLedger[w] :
         walletLedger[w][j].type = "manual_adjustment" /\ walletLedger[w][j].ref = k
    BY DEF KeyUsed, Recorded
<1>5. ~(type = "manual_adjustment" /\ ref = k)
    BY <1>2 DEF KeyUsed
<1>6. k \in Charges => ~(type = "request_charge" /\ ref = k)
    <2>1. ASSUME k \in Charges PROVE Recorded("request_charge", k)
        BY <1>4, <2>1 DEF ReversalsMatch, HasEntry, Recorded
    <2> QED  BY <1>2, <2>1
<1> HIDE DEF k
<1>7. KeyUsed(k)'
    BY <1>1, <1>4 DEF KeyUsed, Recorded
<1>8. \A v \in Users, a \in Int :
         HasEntry(v, "manual_adjustment", k, a)' <=> HasEntry(v, "manual_adjustment", k, a)
    BY <1>1, <1>5 DEF HasEntry
<1>9. CASE k \in Keys
    <2>1. Wanted[c].user \in Users /\ Wanted[c].amount \in Int
        BY <1>9 DEF k
    <2>2. HasEntry(Wanted[c].user, "manual_adjustment", k, Wanted[c].amount)'
             <=> HasEntry(Wanted[c].user, "manual_adjustment", k, Wanted[c].amount)
        BY <1>8, <2>1
    <2>3. PayloadMatches(c)' <=> PayloadMatches(c)
        BY <1>9, <2>2 DEF PayloadMatches, k
    <2> QED  BY <1>7, <2>3 DEF k
<1>10. CASE k \notin Keys
    <2>1. \A v \in Users : \A i \in DOMAIN walletLedger[v] : walletLedger[v][i].amount \in Int
        BY <1>0, RowType
    <2>2. \A v \in Users : \A i \in DOMAIN walletLedger'[v] :
             walletLedger'[v][i].type = "request_charge" /\ walletLedger'[v][i].ref = k
                => i \in DOMAIN walletLedger[v] /\ walletLedger'[v][i] = walletLedger[v][i]
        BY <1>1, <1>3, <1>6, <1>10
    <2> DEFINE Found(v) == \E i \in DOMAIN walletLedger[v] :
                   /\ walletLedger[v][i].type = "request_charge"
                   /\ walletLedger[v][i].ref = k
                   /\ HasEntry(v, "manual_adjustment", k, -walletLedger[v][i].amount)
    <2>3. ASSUME NEW v \in Users PROVE Found(v)' <=> Found(v)
        <3>1. ASSUME NEW i \in DOMAIN walletLedger[v],
                     walletLedger[v][i].type = "request_charge", walletLedger[v][i].ref = k,
                     HasEntry(v, "manual_adjustment", k, -walletLedger[v][i].amount)
              PROVE  Found(v)'
            <4>1. -walletLedger[v][i].amount \in Int
                BY <2>1
            <4>2. HasEntry(v, "manual_adjustment", k, -walletLedger[v][i].amount)
                BY <3>1
            <4>3. \E j \in DOMAIN walletLedger'[v] :
                     /\ walletLedger'[v][j].type = "manual_adjustment"
                     /\ walletLedger'[v][j].ref = k
                     /\ walletLedger'[v][j].amount = -walletLedger[v][i].amount
                BY <1>1, <4>2 DEF HasEntry
            <4>4. i \in DOMAIN walletLedger'[v] /\ walletLedger'[v][i] = walletLedger[v][i]
                BY <1>1
            <4> QED  BY <3>1, <4>3, <4>4 DEF HasEntry
        <3>2. ASSUME NEW i \in DOMAIN walletLedger'[v],
                     walletLedger'[v][i].type = "request_charge", walletLedger'[v][i].ref = k,
                     \E j \in DOMAIN walletLedger'[v] :
                        /\ walletLedger'[v][j].type = "manual_adjustment"
                        /\ walletLedger'[v][j].ref = k
                        /\ walletLedger'[v][j].amount = -walletLedger'[v][i].amount
              PROVE  Found(v)
            <4>1. i \in DOMAIN walletLedger[v] /\ walletLedger'[v][i] = walletLedger[v][i]
                BY <2>2, <3>2
            <4>2. \E j \in DOMAIN walletLedger[v] :
                     /\ walletLedger[v][j].type = "manual_adjustment"
                     /\ walletLedger[v][j].ref = k
                     /\ walletLedger[v][j].amount = -walletLedger[v][i].amount
                BY <1>1, <1>5, <3>2, <4>1
            <4> QED  BY <3>2, <4>1, <4>2 DEF HasEntry
        <3> QED  BY <3>1, <3>2 DEF HasEntry
    <2> HIDE DEF Found
    <2>4. PayloadMatches(c) <=> operatorOf[k] = Operator[c] /\ \E v \in Users : Found(v)
        BY <1>10 DEF PayloadMatches, k, Found
    <2>5. PayloadMatches(c)' <=> operatorOf'[k] = Operator[c] /\ \E v \in Users : Found(v)'
        BY <1>10 DEF PayloadMatches, k, Found
    <2>6. PayloadMatches(c)' <=> PayloadMatches(c)
        BY <2>3, <2>4, <2>5 DEF k
    <2> QED  BY <1>7, <2>6 DEF k
<1> QED  BY <1>9, <1>10

LEMMA AdjustmentsInit == AccountsInit => ReversalsMatch /\ AnswersAreTrue
BY DEF AccountsInit, WalletInit, AdjustInit, ReversalsMatch, AnswersAreTrue

\* A row of a reversal keeps its match whatever is appended, if the new row
\* has one.
LEMMA AppendKeepsMatches ==
    ASSUME TypeInv, ReversalsMatch,
           NEW u \in Users, NEW type \in EntryTypes, NEW amount \in Int,
           NEW ref \in Refs, AppendLedgerEntryInTx(u, type, amount, ref),
           type = "manual_adjustment" =>
              /\ ref \in Keys \cup Charges
              /\ ref \in Charges => \E i \in DOMAIN walletLedger[u] :
                    /\ walletLedger[u][i].type = "request_charge"
                    /\ walletLedger[u][i].ref = ref
                    /\ amount = -walletLedger[u][i].amount
    PROVE  ReversalsMatch'
<1>0. WalletTypeOK(Refs)
    BY DEF TypeInv, AccountsTypeOK, Refs
<1> DEFINE n == Len(walletLedger[u]) + 1
<1>1. /\ walletLedger'[u][n].type = type
      /\ walletLedger'[u][n].ref = ref
      /\ walletLedger'[u][n].amount = amount
      /\ \A v \in Users : \A i \in DOMAIN walletLedger[v] :
            /\ i \in DOMAIN walletLedger'[v]
            /\ walletLedger'[v][i] = walletLedger[v][i]
            /\ walletLedger[v][i].amount \in Int
      /\ \A v \in Users : \A i \in DOMAIN walletLedger'[v] :
            i \in DOMAIN walletLedger[v] \/ (v = u /\ i = n)
    BY <1>0, AppendRows, RowType
<1> HIDE DEF n
<1> SUFFICES ASSUME NEW v \in Users, NEW i \in DOMAIN walletLedger'[v],
                    walletLedger'[v][i].type = "manual_adjustment"
             PROVE  /\ walletLedger'[v][i].ref \in Keys \cup Charges
                    /\ walletLedger'[v][i].ref \in Charges =>
                          \E j \in DOMAIN walletLedger'[v] :
                             /\ walletLedger'[v][j].type = "request_charge"
                             /\ walletLedger'[v][j].ref = walletLedger'[v][i].ref
                             /\ walletLedger'[v][j].amount = -walletLedger'[v][i].amount
    BY DEF ReversalsMatch, HasEntry
<1>2. CASE i \in DOMAIN walletLedger[v]
    <2>1. walletLedger'[v][i] = walletLedger[v][i]
        BY <1>1, <1>2
    <2>2. walletLedger[v][i].ref \in Keys \cup Charges
        BY <1>2, <2>1 DEF ReversalsMatch
    <2>3. ASSUME walletLedger[v][i].ref \in Charges
          PROVE  \E j \in DOMAIN walletLedger[v] :
                    /\ walletLedger[v][j].type = "request_charge"
                    /\ walletLedger[v][j].ref = walletLedger[v][i].ref
                    /\ walletLedger[v][j].amount = -walletLedger[v][i].amount
        BY <1>2, <2>1, <2>3 DEF ReversalsMatch, HasEntry
    <2> QED  BY <1>1, <2>1, <2>2, <2>3
<1>3. CASE v = u /\ i = n
    <2>1. ref \in Keys \cup Charges
        BY <1>1, <1>3
    <2>2. ASSUME ref \in Charges
          PROVE  \E j \in DOMAIN walletLedger'[u] :
                    /\ walletLedger'[u][j].type = "request_charge"
                    /\ walletLedger'[u][j].ref = ref
                    /\ walletLedger'[u][j].amount = -amount
        <3>1. PICK j \in DOMAIN walletLedger[u] :
                 /\ walletLedger[u][j].type = "request_charge"
                 /\ walletLedger[u][j].ref = ref
                 /\ amount = -walletLedger[u][j].amount
            BY <1>1, <1>3, <2>2
        <3>2. walletLedger[u][j].amount \in Int
            BY <1>1, <3>1
        <3>3. walletLedger[u][j].amount = -amount
            BY <3>1, <3>2
        <3> QED  BY <1>1, <3>1, <3>3
    <2> QED  BY <1>1, <1>3, <2>1, <2>2
<1> QED  BY <1>1, <1>2, <1>3

\* A transaction that commits leaves the call its own payload to find.
LEMMA AppliedMatches ==
    ASSUME TypeInv, NEW c \in Calls, Apply(c)
    PROVE  PayloadMatches(c)'
<1> USE AdjustAssumption
<1>0. WalletTypeOK(Refs) /\ AdjustTypeOK
    BY DEF TypeInv, AccountsTypeOK, Refs
<1>1. PICK u \in Users, amount \in Int :
         /\ AppendLedgerEntryInTx(u, "manual_adjustment", amount, KeyOf[c])
         /\ KeyOf[c] \in Keys => u = Wanted[c].user /\ amount = Wanted[c].amount
         /\ KeyOf[c] \notin Keys => \E i \in DOMAIN walletLedger[u] :
               /\ walletLedger[u][i].type = "request_charge"
               /\ walletLedger[u][i].ref = KeyOf[c]
               /\ amount = -walletLedger[u][i].amount
    BY WritesOneRow
<1> DEFINE n == Len(walletLedger[u]) + 1
<1>2. "manual_adjustment" \in EntryTypes /\ KeyOf[c] \in Refs
    BY DEF EntryTypes, Refs
<1>3. /\ n \in DOMAIN walletLedger'[u]
      /\ walletLedger'[u][n].type = "manual_adjustment"
      /\ walletLedger'[u][n].ref = KeyOf[c]
      /\ walletLedger'[u][n].amount = amount
      /\ \A i \in DOMAIN walletLedger[u] :
            i \in DOMAIN walletLedger'[u] /\ walletLedger'[u][i] = walletLedger[u][i]
    BY <1>0, <1>1, <1>2, AppendRows
<1> HIDE DEF n
<1>4. operatorOf'[KeyOf[c]] = Operator[c]
    BY <1>0 DEF Apply, WriteAdjustment, AdjustTypeOK
<1>5. CASE KeyOf[c] \in Keys
    BY <1>1, <1>3, <1>4, <1>5 DEF PayloadMatches, HasEntry
<1>6. CASE KeyOf[c] \notin Keys
    <2>1. PICK i \in DOMAIN walletLedger[u] :
             /\ walletLedger[u][i].type = "request_charge"
             /\ walletLedger[u][i].ref = KeyOf[c]
             /\ amount = -walletLedger[u][i].amount
        BY <1>1, <1>6
    <2>2. \E j \in DOMAIN walletLedger'[u] :
             /\ walletLedger'[u][j].type = "manual_adjustment"
             /\ walletLedger'[u][j].ref = KeyOf[c]
             /\ walletLedger'[u][j].amount = -walletLedger'[u][i].amount
        BY <1>3, <2>1
    <2>3. \E j \in DOMAIN walletLedger'[u] :
             /\ walletLedger'[u][j].type = "request_charge"
             /\ walletLedger'[u][j].ref = KeyOf[c]
             /\ HasEntry(u, "manual_adjustment", KeyOf[c], -walletLedger[u][j].amount)'
        BY <1>3, <2>1, <2>2 DEF HasEntry
    <2> QED  BY <1>4, <1>6, <2>3 DEF PayloadMatches
<1> QED  BY <1>5, <1>6

\* AnswersAreTrue, one call at a time.
Truthful(c) ==
    /\ call[c] \in {"applied", "alreadyApplied"} => PayloadMatches(c)
    /\ call[c] = "conflict" => KeyUsed(KeyOf[c]) /\ ~PayloadMatches(c)

AppliedOnce ==
    \A c, e \in Calls :
        call[c] = "applied" /\ call[e] = "applied" /\ KeyOf[c] = KeyOf[e] => c = e

LEMMA AnswersByCall == AnswersAreTrue <=> (\A c \in Calls : Truthful(c)) /\ AppliedOnce
BY DEF AnswersAreTrue, Truthful, AppliedOnce

LEMMA AnswersStep ==
    ASSUME TypeInv, ReversalsMatch, \A c \in Calls : Truthful(c), AppliedOnce,
           [AccountsNext]_accountsVars
    PROVE  ReversalsMatch' /\ (\A c \in Calls : Truthful(c)') /\ AppliedOnce'
<1> USE AccountsAssumption, PaymentsAssumption, AdjustAssumption
<1>0. WalletTypeOK(Refs) /\ PaymentsTypeOK /\ AdjustTypeOK
    BY DEF TypeInv, AccountsTypeOK, Refs
<1>1. ASSUME UNCHANGED walletLedger PROVE ReversalsMatch'
    BY <1>1 DEF ReversalsMatch, HasEntry
<1>2. ASSUME UNCHANGED <<walletLedger, operatorOf>>
      PROVE  \A c \in Calls : /\ PayloadMatches(c)' <=> PayloadMatches(c)
                              /\ KeyUsed(KeyOf[c])' <=> KeyUsed(KeyOf[c])
    BY <1>2 DEF PayloadMatches, KeyUsed, HasEntry, Recorded
<1>3. CASE UNCHANGED <<walletLedger, operatorOf, call>>
    BY <1>1, <1>2, <1>3 DEF Truthful, AppliedOnce
\* A charge or a recharge.
<1>4. ASSUME NEW u \in Users, NEW type \in EntryTypes \ {"manual_adjustment"},
             NEW amount \in Int, NEW ref \in Refs, UNCHANGED adjustVars,
             AppendLedgerEntryInTx(u, type, amount, ref)
      PROVE  ReversalsMatch' /\ (\A c \in Calls : Truthful(c)') /\ AppliedOnce'
    <2>1. ReversalsMatch'
        BY <1>4, AppendKeepsMatches
    <2>2. ASSUME NEW c \in Calls PROVE Truthful(c)'
        <3>1. CASE KeyUsed(KeyOf[c])
            <4>1. KeyUsed(KeyOf[c])' /\ (PayloadMatches(c)' <=> PayloadMatches(c))
                BY <1>4, <3>1, UsedKeyIsStable DEF adjustVars
            <4> QED  BY <1>4, <4>1 DEF Truthful, adjustVars
        <3>2. CASE ~KeyUsed(KeyOf[c])
            BY <1>4, <3>2, MatchesUsed DEF Truthful, adjustVars
        <3> QED  BY <3>1, <3>2
    <2>3. AppliedOnce'
        BY <1>4 DEF AppliedOnce, adjustVars
    <2> QED  BY <2>1, <2>2, <2>3
<1>5. ASSUME NEW c \in Calls, Apply(c)
      PROVE  ReversalsMatch' /\ (\A e \in Calls : Truthful(e)') /\ AppliedOnce'
    <2>1. PICK u \in Users, amount \in Int :
             /\ AppendLedgerEntryInTx(u, "manual_adjustment", amount, KeyOf[c])
             /\ KeyOf[c] \notin Keys => \E i \in DOMAIN walletLedger[u] :
                   /\ walletLedger[u][i].type = "request_charge"
                   /\ walletLedger[u][i].ref = KeyOf[c]
                   /\ amount = -walletLedger[u][i].amount
        BY <1>5, WritesOneRow
    <2>2. "manual_adjustment" \in EntryTypes /\ KeyOf[c] \in Refs
        BY DEF EntryTypes, Refs
    <2>3. ReversalsMatch'
        BY <2>1, <2>2, AppendKeepsMatches
    <2>4. ~KeyUsed(KeyOf[c])
        BY <2>1 DEF AppendLedgerEntryInTx, KeyUsed
    <2>5. /\ call'[c] = "applied"
          /\ \A e \in Calls \ {c} : call'[e] = call[e]
          /\ \A k \in (Keys \cup Charges) \ {KeyOf[c]} : operatorOf'[k] = operatorOf[k]
        BY <1>0, <1>5 DEF Apply, WriteAdjustment, Goto, AdjustTypeOK
    <2>6. ASSUME NEW e \in Calls, e # c PROVE Truthful(e)'
        <3>1. CASE KeyUsed(KeyOf[e])
            <4>1. operatorOf'[KeyOf[e]] = operatorOf[KeyOf[e]]
                BY <2>4, <2>5, <3>1
            <4>2. KeyUsed(KeyOf[e])' /\ (PayloadMatches(e)' <=> PayloadMatches(e))
                BY <2>1, <2>2, <3>1, <4>1, UsedKeyIsStable
            <4> QED  BY <2>5, <2>6, <4>2 DEF Truthful
        <3>2. CASE ~KeyUsed(KeyOf[e])
            <4>1. call[e] \notin {"applied", "alreadyApplied", "conflict"}
                BY <3>2, MatchesUsed DEF Truthful
            <4> QED  BY <2>5, <2>6, <4>1 DEF Truthful
        <3> QED  BY <3>1, <3>2
    <2>7. Truthful(c)'
        BY <1>5, <2>5, AppliedMatches DEF Truthful
    <2>8. \A e \in Calls : call[e] = "applied" => KeyOf[e] # KeyOf[c]
        BY <2>4, MatchesUsed DEF Truthful
    <2>9. AppliedOnce'
        BY <2>5, <2>8 DEF AppliedOnce
    <2> QED  BY <2>3, <2>6, <2>7, <2>9
<1>6. ASSUME NEW c \in Calls, Start(c) \/ Lookup(c) \/ Fail(c) \/ Recover(c)
      PROVE  ReversalsMatch' /\ (\A e \in Calls : Truthful(e)') /\ AppliedOnce'
    <2>1. UNCHANGED <<walletLedger, operatorOf>>
        BY <1>6 DEF Start, Lookup, Fail, Recover, walletVars
    <2>2. /\ \A e \in Calls \ {c} : call'[e] = call[e]
          /\ call'[c] # "applied"
          /\ call'[c] = "alreadyApplied" => PayloadMatches(c)
          /\ call'[c] = "conflict" => KeyUsed(KeyOf[c]) /\ ~PayloadMatches(c)
        <3>1. CASE Start(c)
            BY <1>0, <3>1 DEF Start, Goto, AdjustTypeOK
        <3>2. CASE Lookup(c)
            BY <1>0, <3>2 DEF Lookup, Goto, AdjustTypeOK
        <3>3. CASE Fail(c)
            BY <1>0, <3>3 DEF Fail, Goto, AdjustTypeOK
        <3>4. CASE Recover(c)
            BY <1>0, <3>4 DEF Recover, Goto, AdjustTypeOK
        <3> QED  BY <1>6, <3>1, <3>2, <3>3, <3>4
    <2>3. \A e \in Calls : Truthful(e)'
        BY <1>2, <2>1, <2>2 DEF Truthful
    <2>4. AppliedOnce'
        BY <2>2 DEF AppliedOnce
    <2> QED  BY <1>1, <2>1, <2>3, <2>4
<1>7. CASE PaymentsNext /\ UNCHANGED adjustVars
    <2>1. ASSUME NEW o \in Orders \ Uncredited, Credit(o)
          PROVE  ReversalsMatch' /\ (\A c \in Calls : Truthful(c)') /\ AppliedOnce'
        <3>1. /\ Payer[o] \in Users /\ OrderAmount[o] \in Int /\ o \in Refs
              /\ "recharge" \in EntryTypes \ {"manual_adjustment"}
            BY DEF Refs, EntryTypes
        <3> QED  BY <1>4, <1>7, <2>1, <3>1 DEF Credit
    <2> QED  BY <1>3, <1>7, <2>1, PaymentEffect DEF adjustVars
<1>8. ASSUME NEW r \in Charges, ChargeRequest(r)
      PROVE  ReversalsMatch' /\ (\A c \in Calls : Truthful(c)') /\ AppliedOnce'
    <2>1. /\ ChargedUser[r] \in Users /\ -ChargeAmount[r] \in Int /\ r \in Refs
          /\ "request_charge" \in EntryTypes \ {"manual_adjustment"}
        BY DEF Refs, EntryTypes
    <2>2. AppendLedgerEntryInTx(ChargedUser[r], "request_charge", -ChargeAmount[r], r)
             /\ UNCHANGED adjustVars
        BY <1>8 DEF ChargeRequest
    <2> QED  BY <1>4, <2>1, <2>2
<1> QED  BY <1>3, <1>5, <1>6, <1>7, <1>8
         DEF AccountsNext, AdjustNext, CallStep, accountsVars, walletVars, adjustVars

LEMMA AdjustmentsHold == AccountsSafetySpec => [](ReversalsMatch /\ AnswersAreTrue)
<1>1. /\ ReversalsMatch /\ AnswersAreTrue /\ TypeInv /\ [AccountsNext]_accountsVars
      => ReversalsMatch' /\ AnswersAreTrue'
    <2> SUFFICES ASSUME ReversalsMatch, AnswersAreTrue, TypeInv,
                        [AccountsNext]_accountsVars
                 PROVE  ReversalsMatch' /\ AnswersAreTrue'
        OBVIOUS
    <2>1. (\A c \in Calls : Truthful(c)) /\ AppliedOnce
        BY AnswersByCall
    <2>2. ReversalsMatch' /\ (\A c \in Calls : Truthful(c)') /\ AppliedOnce'
        BY <2>1, AnswersStep
    <2> QED  BY <2>2 DEF AnswersAreTrue, Truthful, AppliedOnce
<1> QED  BY <1>1, AdjustmentsInit, MoneyType, PTL DEF AccountsSafetySpec

(***************************************************************************)
(* Every answer given to an administrator is true of the ledger and stays  *)
(* true, and one call per idempotency key applies it: for any number of    *)
(* calls under any keys, with every interleaving of their attempts.        *)
(***************************************************************************)
THEOREM AdjustmentsAnswerTruly == AccountsSafetySpec => []AnswersAreTrue
BY AdjustmentsHold, PTL

(***************************************************************************)
(* A charge is given back at most once, in full, into the wallet it was    *)
(* taken from.                                                             *)
(***************************************************************************)
THEOREM ReversalsAreUnique == AccountsSafetySpec => []ReversedOnce
<1>1. ASSUME ReversalsMatch, UniqueRows PROVE ReversedOnce
    <2> SUFFICES ASSUME NEW r \in Charges
                 PROVE  /\ \A u \in Users : \A i \in DOMAIN walletLedger[u] :
                              walletLedger[u][i].type = "manual_adjustment"
                                 /\ walletLedger[u][i].ref = r
                              => HasEntry(u, "request_charge", r, -walletLedger[u][i].amount)
                        /\ Cardinality(ReversalsOf(r)) <= 1
        BY DEF ReversedOnce
    <2>1. \A u \in Users : \A i \in DOMAIN walletLedger[u] :
             walletLedger[u][i].type = "manual_adjustment" /\ walletLedger[u][i].ref = r
                => HasEntry(u, "request_charge", r, -walletLedger[u][i].amount)
        BY <1>1 DEF ReversalsMatch
    <2>2. \A p \in ReversalsOf(r) : \E u \in Users : \E i \in DOMAIN walletLedger[u] :
             /\ p = <<u, i>>
             /\ walletLedger[u][i].type = "manual_adjustment"
             /\ walletLedger[u][i].ref = r
        BY DEF ReversalsOf, RowPlaces
    <2>3. \A p, q \in ReversalsOf(r) : p = q
        <3> SUFFICES ASSUME NEW p \in ReversalsOf(r), NEW q \in ReversalsOf(r) PROVE p = q
            OBVIOUS
        <3>1. PICK u \in Users : \E i \in DOMAIN walletLedger[u] :
                 /\ p = <<u, i>>
                 /\ walletLedger[u][i].type = "manual_adjustment"
                 /\ walletLedger[u][i].ref = r
            BY <2>2
        <3>2. PICK i \in DOMAIN walletLedger[u] :
                 /\ p = <<u, i>>
                 /\ walletLedger[u][i].type = "manual_adjustment"
                 /\ walletLedger[u][i].ref = r
            BY <3>1
        <3>3. PICK v \in Users : \E j \in DOMAIN walletLedger[v] :
                 /\ q = <<v, j>>
                 /\ walletLedger[v][j].type = "manual_adjustment"
                 /\ walletLedger[v][j].ref = r
            BY <2>2
        <3>4. PICK j \in DOMAIN walletLedger[v] :
                 /\ q = <<v, j>>
                 /\ walletLedger[v][j].type = "manual_adjustment"
                 /\ walletLedger[v][j].ref = r
            BY <3>3
        <3> QED  BY <1>1, <3>2, <3>4 DEF UniqueRows
    <2>4. Cardinality(ReversalsOf(r)) <= 1
        <3>1. CASE ReversalsOf(r) = {}
            <4>1. Cardinality({}) = 0
                BY FS_EmptySet
            <4> QED  BY <3>1, <4>1
        <3>2. CASE ReversalsOf(r) # {}
            <4>1. PICK p : p \in ReversalsOf(r)
                BY <3>2
            <4>2. ReversalsOf(r) = {p}
                BY <2>3, <4>1
            <4>3. Cardinality({p}) = 1
                BY FS_Singleton
            <4> QED  BY <4>2, <4>3
        <3> QED  BY <3>1, <3>2
    <2> QED  BY <2>1, <2>4
<1>2. WalletConserved /\ UniqueRows /\ TypeInv /\ [AccountsNext]_accountsVars
         => WalletConserved' /\ UniqueRows'
    BY AccountsLedgerStep
<1>3. ReversalsMatch /\ UniqueRows => ReversedOnce
    BY <1>1
<1> QED  BY <1>2, <1>3, AccountsLedgerInit, AdjustmentsHold, MoneyType, PTL
         DEF AccountsSafetySpec
=============================================================================
