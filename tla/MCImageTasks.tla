---------------------------- MODULE MCImageTasks ----------------------------
(***************************************************************************)
(* Instances of ImageTasks for TLC.                                        *)
(***************************************************************************)
EXTENDS ImageTasks

CONSTANTS u1, r1, r2, o1, p1, p2

OneOwner == [r \in Requests |-> u1]
PaidByFirst == [o \in Orders |-> u1]

\* An administrator takes the recharge back.
OneDebit == {-1}
=============================================================================
