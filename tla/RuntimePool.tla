---------------------------- MODULE RuntimePool -----------------------------
(***************************************************************************)
(* The quota New API keeps for one user's runtime credentials              *)
(* (src/src/features/gateway/server/runtime-pool.ts). Calls use it up; it  *)
(* is set to Target once, by whichever pass of the job loop finds it low   *)
(* first (ensureRuntimePoolProvisioned), and later only by a script that   *)
(* an operator runs, beside the loop and without its lock                  *)
(* (runRuntimePoolMonitorOnce). An administrator of New API may credit the *)
(* same quota at any time. The binding of the user has a working access    *)
(* token; a call that fails stands for one that has not.                   *)
(*                                                                         *)
(* The lock around an override is one process's own, and the quota is      *)
(* measured before it is taken: it has no part here.                       *)
(***************************************************************************)
EXTENDS Integers

CONSTANTS
    Passes,     \* passes over the binding that may run at once
    LowMark,    \* usdToQuota(runtimePoolLowWatermarkUsd)
    Target,     \* usdToQuota(runtimePoolTargetUsd)
    MaxPool     \* bound: what the user may have had before, or be credited up to

ASSUME RuntimePoolAssumption ==
    LowMark \in Nat /\ Target \in Nat /\ MaxPool \in Nat /\ 0 < LowMark /\ LowMark < Target

VARIABLES
    poolQuota,   \* the user's quota at New API
    poolRow,     \* the columns runtime_pool_* of the binding
    poolPass,    \* what each pass is for, where it is, what it has found
    overriding,  \* passes whose override is on its way to New API
    credited,    \* passes that have not measured the quota since it was credited
    provisions   \* audit entries newapi.runtime_pool.provision

poolVars == <<poolQuota, poolRow, poolPass, overriding, credited, provisions>>

\*   worker     processCredential, before it looks for a token
\*   monitor    the hourly pass of the job loop
\*   check, apply    the script, without and with --apply
PoolTasks == {"worker", "monitor", "check", "apply"}

\*   scan     about to read the bindings
\*   read     ensureRuntimePoolProvisioned is about to read the row
\*   measure  about to ask New API for the quota
\*   write    about to override it
\*   sent     the override has been sent
\*   confirm  New API has answered it
\*   save     the columns are written next
\*   failed   the error is written next
PoolStages == {"idle", "scan", "read", "measure", "write", "sent", "confirm", "save", "failed"}

PoolStatuses == {"uninitialized", "ready", "low", "depleted", "error"}

NoPass == [for |-> "worker", at |-> "idle", first |-> FALSE, found |-> "ready"]

ClassifyQuota(quota) ==
    CASE quota <= 0                     -> "depleted"
      [] quota > 0 /\ quota < LowMark   -> "low"
      [] quota >= LowMark               -> "ready"

PoolInit ==
    /\ poolQuota \in 0..MaxPool
    /\ poolRow = [provisioned |-> FALSE, status |-> "uninitialized"]
    /\ poolPass = [p \in Passes |-> NoPass]
    /\ overriding = {} /\ credited = {}
    /\ provisions = 0

PoolAt(p, stage) == poolPass[p].at = stage
PoolGoes(p, stage) == poolPass' = [poolPass EXCEPT ![p].at = stage]
PoolEnds(p) == poolPass' = [poolPass EXCEPT ![p] = NoPass]

StartPass(p) ==
    /\ PoolAt(p, "idle")
    /\ \E for \in PoolTasks :
          poolPass' = [poolPass EXCEPT ![p].for = for,
                          ![p].at = IF for = "worker" THEN "read" ELSE "scan"]
    /\ UNCHANGED <<poolQuota, poolRow, overriding, credited, provisions>>

\* Only the job loop provisions what it finds unprovisioned.
ScanBinding(p) ==
    /\ PoolAt(p, "scan")
    /\ \/ poolRow.provisioned /\ PoolGoes(p, "measure")
       \/ ~poolRow.provisioned /\ poolPass[p].for = "monitor" /\ PoolGoes(p, "read")
       \/ ~poolRow.provisioned /\ poolPass[p].for # "monitor" /\ PoolEnds(p)
    /\ UNCHANGED <<poolQuota, poolRow, overriding, credited, provisions>>

ReadPool(p) ==
    /\ PoolAt(p, "read")
    /\ IF poolRow.provisioned
       THEN PoolEnds(p)
       ELSE poolPass' = [poolPass EXCEPT ![p].at = "measure", ![p].first = TRUE]
    /\ UNCHANGED <<poolQuota, poolRow, overriding, credited, provisions>>

\* Whether the pass may write: to provision, or by hand.
MayOverride(p) == poolPass[p].first \/ poolPass[p].for = "apply"

\* The pass goes by the status that the last one has left.
MeasureByStatus(p) ==
    /\ PoolAt(p, "measure") /\ poolQuota >= 0
    /\ poolPass' = [poolPass EXCEPT ![p].found = ClassifyQuota(poolQuota),
                       ![p].at = IF MayOverride(p) /\ poolRow.status # "ready"
                                 THEN "write" ELSE "save"]
    /\ credited' = credited \ ({p} \ overriding)
    /\ UNCHANGED <<poolQuota, poolRow, overriding, provisions>>

\* A negative quota is refused as an illegal one.
MeasureQuota(p) ==
    /\ PoolAt(p, "measure") /\ poolQuota >= 0
    /\ poolPass' = [poolPass EXCEPT ![p].found = ClassifyQuota(poolQuota),
                       ![p].at = IF MayOverride(p) /\ poolQuota < LowMark
                                 THEN "write" ELSE "save"]
    /\ credited' = credited \ ({p} \ overriding)
    /\ UNCHANGED <<poolQuota, poolRow, overriding, provisions>>

SendOverride(p) ==
    /\ PoolAt(p, "write") /\ p \notin overriding
    /\ overriding' = overriding \cup {p}
    /\ PoolGoes(p, "sent")
    /\ UNCHANGED <<poolQuota, poolRow, credited, provisions>>

\* The override is absolute: it is lost, or the quota is Target, and New API
\* answers if anybody still waits.
ArriveOverride(p) ==
    /\ p \in overriding
    /\ overriding' = overriding \ {p}
    /\ \/ UNCHANGED <<poolQuota, poolPass>>
       \/ /\ poolQuota' = Target
          /\ IF PoolAt(p, "sent") THEN PoolGoes(p, "confirm") ELSE UNCHANGED poolPass
    /\ UNCHANGED <<poolRow, credited, provisions>>

\* A quota that is not Target any more counts as a failure.
ConfirmOverride(p) ==
    /\ PoolAt(p, "confirm")
    /\ IF poolQuota = Target
       THEN poolPass' = [poolPass EXCEPT ![p].at = "save", ![p].found = ClassifyQuota(Target)]
       ELSE PoolGoes(p, "failed")
    /\ UNCHANGED <<poolQuota, poolRow, overriding, credited, provisions>>

\* The mark and its audit entry are set once, in one transaction.
SavePool(p) ==
    /\ PoolAt(p, "save")
    /\ IF poolPass[p].first
       THEN IF poolRow.provisioned
            THEN UNCHANGED <<poolRow, provisions>>
            ELSE /\ poolRow' = [provisioned |-> TRUE, status |-> poolPass[p].found]
                 /\ provisions' = provisions + 1
       ELSE /\ poolRow' = [poolRow EXCEPT !.status = poolPass[p].found]
            /\ UNCHANGED provisions
    /\ PoolEnds(p)
    /\ UNCHANGED <<poolQuota, overriding, credited>>

\* New API or the database fails at any step; the worker reads the row before
\* its error would be written.
PoolFails(p) ==
    /\ \/ poolPass[p].at \in {"measure", "write", "sent", "confirm", "save"}
       \/ PoolAt(p, "read") /\ poolPass[p].for = "monitor"
    /\ PoolGoes(p, "failed")
    /\ UNCHANGED <<poolQuota, poolRow, overriding, credited, provisions>>

\* The worker's error is not written over a mark; a monitor's is.
SavePoolError(p) ==
    /\ PoolAt(p, "failed")
    /\ poolRow' = IF poolPass[p].for = "worker" /\ poolRow.provisioned
                  THEN poolRow ELSE [poolRow EXCEPT !.status = "error"]
    /\ PoolEnds(p)
    /\ UNCHANGED <<poolQuota, overriding, credited, provisions>>

\* The process stops, or the error cannot be written either.
PoolStops(p) ==
    /\ ~PoolAt(p, "idle")
    /\ PoolEnds(p)
    /\ UNCHANGED <<poolQuota, poolRow, overriding, credited, provisions>>

\* A call of the user, the last of which may cost more than is left.
UseQuota ==
    /\ poolQuota > 0
    /\ poolQuota' \in {poolQuota - 1, poolQuota - 2}
    /\ UNCHANGED <<poolRow, poolPass, overriding, credited, provisions>>

\* An administrator of New API credits the user.
CreditQuota ==
    /\ poolQuota' \in (poolQuota + 1)..MaxPool
    /\ credited' = Passes
    /\ UNCHANGED <<poolRow, poolPass, overriding, provisions>>

PoolStep(p) ==
    \/ StartPass(p) \/ ScanBinding(p) \/ ReadPool(p) \/ MeasureQuota(p)
    \/ SendOverride(p) \/ ArriveOverride(p) \/ ConfirmOverride(p) \/ SavePool(p)
    \/ PoolFails(p) \/ SavePoolError(p) \/ PoolStops(p)

PoolNext == UseQuota \/ CreditQuota \/ \E p \in Passes : PoolStep(p)

-----------------------------------------------------------------------------
(***************************************************************************)
(* However passes race, stop, are repeated or have their overrides arrive  *)
(* late: an override on its way takes nothing away, unless from a credit   *)
(* that its pass has not seen, and the pool was provisioned, with its      *)
(* audit entry, exactly if it is marked, and once.  "Retrying with the     *)
(* same target does not stack up" (client.ts:1161).                        *)
(***************************************************************************)
PoolOnlyRaised ==
    /\ \A p \in overriding : poolQuota <= Target \/ p \in credited
    /\ provisions = (IF poolRow.provisioned THEN 1 ELSE 0)
=============================================================================
