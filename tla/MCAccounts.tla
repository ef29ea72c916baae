----------------------------- MODULE MCAccounts -----------------------------
(***************************************************************************)
(* Instances of Accounts for TLC.  Top-ups and adjustments meet in the     *)
(* wallet only, whose every write is one transaction, so that a run looks  *)
(* at one of the two at a time, and at the charges with the second.        *)
(***************************************************************************)
EXTENDS Accounts, TLC

CONSTANTS u1, o1, o2, c1, c2, c3, c4, k1, q1, root, staff

VARIABLE scene

PaidByOne == [o \in Orders |-> u1]
AmountOne == [o \in Orders |-> 2]

\* c1 and c2 adjust a wallet under one key, on behalf of two operators; c3 and
\* c4 reverse the charge of q1, twice on behalf of the same one.
KeyOfCall == [c \in Calls |-> IF c \in {c1, c2} THEN k1 ELSE q1]
WantedBy == [c \in Calls |-> [user |-> u1, amount |-> 1]]
OperatorOfCall == [c \in Calls |-> IF c = c2 THEN staff ELSE root]

ChargedToOne == [r \in Charges |-> u1]
ChargeOne == [r \in Charges |-> 1]

MCInit == AccountsInit /\ scene \in {"top-ups", "adjustments"}

MCNext ==
    /\ UNCHANGED scene
    /\ \/ scene = "top-ups" /\ PaymentsNext /\ UNCHANGED adjustVars
       \/ /\ scene = "adjustments"
          /\ \/ AdjustNext /\ UNCHANGED paymentVars
             \/ \E r \in Charges : ChargeRequest(r)

MCSpec == MCInit /\ [][MCNext]_<<accountsVars, scene>> /\ AccountsFairness
=============================================================================
