---------------------------- MODULE MCReconcile -----------------------------
(***************************************************************************)
(* Instances of Reconcile for TLC.                                         *)
(***************************************************************************)
EXTENDS Reconcile

CONSTANTS w1, w2, r1, r2, u1, u2

\* Each call is of a user of its own.
\* r1 is anything; r2 is an entry of somebody else that is already there.
MixesOfCalls ==
    {[r \in Requests |-> IF r = r1 THEN k ELSE "external"] : k \in Kinds \ {"external"}}
OldEntry == <<[call |-> r2, time |-> 0]>>

\* Both calls were made in the same moment, by users of other programs.
OthersOnly == {[r \in Requests |-> "external"]}
OldEntries == <<[call |-> r1, time |-> 0], [call |-> r2, time |-> 0]>>

OwnerOfCall == [r \in Requests |-> IF r = r1 THEN u1 ELSE u2]
=============================================================================
