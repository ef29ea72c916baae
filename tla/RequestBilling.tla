--------------------------- MODULE RequestBilling ---------------------------
(***************************************************************************)
(* What the gateway promises about money, with all of its machinery        *)
(* hidden: a request it accepts is, in the end, either charged once, in    *)
(* one step that moves its status and the wallet together, or waived for   *)
(* good.  paid[r] is what the wallet ledger says was taken for r.          *)
(*                                                                         *)
(* Gateway and ImageTasks implement this module.                           *)
(***************************************************************************)
EXTENDS Integers

CONSTANTS Requests, MaxCharge

VARIABLES bill, paid

billingVars == <<bill, paid>>

BillingInit ==
    /\ bill \in [Requests -> {"none", "accepted"}]
    /\ paid = [r \in Requests |-> 0]

Accept(r) ==
    /\ bill[r] = "none"
    /\ bill' = [bill EXCEPT ![r] = "accepted"]
    /\ UNCHANGED paid

Charge(r) ==
    /\ bill[r] = "accepted"
    /\ bill' = [bill EXCEPT ![r] = "charged"]
    /\ \E c \in 1..MaxCharge : paid' = [paid EXCEPT ![r] = c]

Waive(r) ==
    /\ bill[r] = "accepted"
    /\ bill' = [bill EXCEPT ![r] = "waived"]
    /\ UNCHANGED paid

BillingNext == \E r \in Requests : Accept(r) \/ Charge(r) \/ Waive(r)

\* Nothing is promised about how fast, only that no accepted request stays
\* unresolved for ever.
BillingFairness == \A r \in Requests : WF_billingVars(Charge(r) \/ Waive(r))

BillingSafety == BillingInit /\ [][BillingNext]_billingVars

BillingSpec == BillingSafety /\ BillingFairness
=============================================================================
