----------------------------- MODULE MCGateway ------------------------------
(***************************************************************************)
(* Instances of Gateway for TLC.                                           *)
(***************************************************************************)
EXTENDS Gateway

CONSTANTS u1, r1, r2, r3, o1

\* One user owns every request: the requests compete for its slots.
OneOwner == [r \in Requests |-> u1]

PaidByFirst == [o \in Orders |-> u1]

\* An administrator takes more than was recharged.
OneDebit == {-2}
=============================================================================
