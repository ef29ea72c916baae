------------------------------ MODULE Accounts ------------------------------
(***************************************************************************)
(* Everything that moves money, on one pair of wallet tables: top-ups      *)
(* (Payments), adjustments and reversals by administrators (WalletAdjust)  *)
(* and the charges of the gateway, which appear here as the wallet half of *)
(* settleRow's transaction; Gateway models the rest of it.                 *)
(***************************************************************************)
EXTENDS Payments, WalletAdjust

CONSTANTS
    ChargedUser,   \* the owner of each charge
    ChargeAmount   \* its amount

ASSUME AccountsAssumption ==
    /\ ChargedUser \in [Charges -> Users]
    /\ ChargeAmount \in [Charges -> Nat \ {0}]
    /\ Orders \cap (Keys \cup Charges) = {}

accountsVars == <<walletVars, paymentVars, adjustVars>>

AccountsInit == WalletInit /\ PaymentsInit /\ AdjustInit

\* A settlement of the gateway.
ChargeRequest(r) ==
    /\ AppendLedgerEntryInTx(ChargedUser[r], "request_charge", -ChargeAmount[r], r)
    /\ AutoFreeze(ChargedUser[r])
    /\ UNCHANGED <<paymentVars, adjustVars>>

AccountsNext ==
    \/ PaymentsNext /\ UNCHANGED adjustVars
    \/ AdjustNext /\ UNCHANGED paymentVars
    \/ \E r \in Charges : ChargeRequest(r)

(***************************************************************************)
(* The provider keeps announcing a payment until it is answered and every  *)
(* notification has a request handler of its own, which the bound on       *)
(* Deliveries only delays (strong fairness); handlers that have begun go  *)
(* on.  Nothing is assumed of buyers, administrators, callbacks or charges.*)
(***************************************************************************)
AccountsFairness ==
    /\ \A o \in Orders : SF_accountsVars(
          /\ \E d \in Deliveries, paid \in {"success", "short"} :
                Notify(d, [order |-> o, outcome |-> paid])
          /\ UNCHANGED adjustVars)
    /\ \A d \in Deliveries : WF_accountsVars(
          (FetchSession(d) \/ Handle(d) \/ Refuse(d)) /\ UNCHANGED adjustVars)

AccountsSafetySpec == AccountsInit /\ [][AccountsNext]_accountsVars

AccountsSpec == AccountsSafetySpec /\ AccountsFairness

AccountsTypeOK ==
    /\ WalletTypeOK(Orders \cup Keys \cup Charges)
    /\ PaymentsTypeOK
    /\ AdjustTypeOK
=============================================================================
