---------------------------- MODULE UserBinding -----------------------------
(***************************************************************************)
(* The binding of one portal user to its New API user                      *)
(* (src/src/features/newapi-bridge/server/portal.ts): the row of           *)
(* newapi_user_binding, the calls that provision it, bring its user name   *)
(* up to date, disable, restore and confirm it, and New API's side of the  *)
(* access token.  Every statement names one user's row, so one user is all *)
(* there is to model.                                                      *)
(*                                                                         *)
(* A call stands where its last await left it.  New API issues a new       *)
(* access token on every provisioning and the one before stops working     *)
(* (docs/04-newapi-contract.md, step 5): a token is "valid" or "stale".    *)
(***************************************************************************)
EXTENDS Naturals

CONSTANTS
    Calls,        \* calls of the bridge's functions that may run at once
    MaxDisables,  \* bound: times an administrator disables the user
    MaxFaults     \* bound: failed remote calls and statements, crashes

ASSUME UserBindingAssumption == MaxDisables \in Nat /\ MaxFaults \in Nat

VARIABLES
    binding,      \* newapi_user_binding.status, "none" without a row
    access,       \* the stored access token
    named,        \* newapi_username is the user's e-mail address
    hasEmail,     \* the user has an e-mail address; nothing here changes it
    candidate,    \* conflict_newapi_user_id: the user's own id or another's
    call,         \* where each call stands and the access token it holds
    disables,     \* number of disables so far
    restores,     \* number of restores that claimed the row
    faults        \* number of faults so far

bindingVars == <<binding, access, named, hasEmail, candidate, disables, restores>>
bridgeVars  == <<bindingVars, call, faults>>

BindingStatuses ==
    {"none", "provisioning", "active", "username_sync_pending",
     "username_sync_failed", "conflict_requires_review", "disabled"}

AccessTokens == {"none", "valid", "stale"}

\*   read          ensurePortalUserBinding is about to read the row
\*   block         without an e-mail address, it read a row
\*   block_new     without an e-mail address, it read no row
\*   sync          it read an active row with another user name
\*   syncing       updateUserProfile at New API
\*   insert        it read no row
\*   provision     it read any other row
\*   provisioning  provisionUser at New API
\*   provisioned   provisionUser has returned with the new access token
\*   bound         ensurePortalUserBinding returns the binding
\*   refused       it throws
\*   disabling     the binding is disabled, the credentials are not yet
\*   confirming_*  getUserProfile at New API for the candidate
CallStages ==
    {"idle", "read", "block", "block_new", "sync", "syncing", "insert", "provision",
     "provisioning", "provisioned", "bound", "refused", "disabling", "confirming_own",
     "confirming_other"}

CallRecords == [stage : CallStages, token : AccessTokens]

NoCall == [stage |-> "idle", token |-> "none"]

BindingInit ==
    /\ \/ binding = "none" /\ access = "none" /\ named = FALSE
       \/ binding = "active" /\ access = "valid" /\ named \in BOOLEAN
    /\ hasEmail \in BOOLEAN
    /\ candidate = "none"
    /\ call = [c \in Calls |-> NoCall]
    /\ disables = 0
    /\ restores = 0
    /\ faults = 0

Fault == faults < MaxFaults /\ faults' = faults + 1

Goto(c, stage) == call' = [call EXCEPT ![c].stage = stage]
Finish(c, stage, token) == call' = [call EXCEPT ![c] = [stage |-> stage, token |-> token]]

\* A step that writes the status and what goes with it, without a fault.
Write(status, who) ==
    /\ binding' = status
    /\ candidate' = who
    /\ UNCHANGED <<disables, restores>>

-----------------------------------------------------------------------------
(* ensurePortalUserBinding.                                                *)

\* Any page or function that needs the binding.
Ensure(c) ==
    /\ call[c].stage = "idle"
    /\ Goto(c, "read")
    /\ UNCHANGED <<bindingVars, faults>>

EnsureRead(c) ==
    /\ call[c].stage = "read"
    /\ \/ binding = "disabled" /\ Goto(c, "refused")
       \/ /\ binding # "disabled" /\ ~hasEmail
          /\ Goto(c, IF binding = "none" THEN "block_new" ELSE "block")
       \/ binding = "none" /\ hasEmail /\ Goto(c, "insert")
       \/ /\ binding = "active" /\ access # "none" /\ hasEmail
          /\ IF named THEN Finish(c, "bound", access) ELSE Goto(c, "sync")
       \/ /\ binding \notin {"disabled", "none"} /\ hasEmail
          /\ ~(binding = "active" /\ access # "none")
          /\ Goto(c, "provision")
    /\ UNCHANGED <<bindingVars, faults>>

\* recordUsernameSyncBlocked: it reads the row again and writes it by its id,
\* whatever it has become.  A second insert breaks the unique index.
Block(c) ==
    /\ call[c].stage \in {"block", "block_new"}
    /\ \/ Write("username_sync_failed", candidate)
       \/ /\ call[c].stage = "block_new" /\ binding # "none"
          /\ UNCHANGED <<binding, candidate, disables, restores>>
    /\ Goto(c, "refused")
    /\ UNCHANGED <<access, named, faults>>

SyncStart(c) ==
    /\ call[c].stage = "sync"
    /\ Write("username_sync_pending", candidate)
    /\ Goto(c, "syncing")
    /\ UNCHANGED <<access, named, faults>>

SyncDone(c) ==
    /\ call[c].stage = "syncing"
    /\ Write("active", "none")
    /\ named' = TRUE
    /\ Finish(c, "bound", access)
    /\ UNCHANGED <<access, faults>>

\* The new name may belong to another New API user, or the audit row fails
\* after the name was stored.
SyncFail(c) ==
    /\ call[c].stage = "syncing"
    /\ Fault
    /\ \/ Write("username_sync_failed", "none") /\ (UNCHANGED named \/ named' = TRUE)
       \/ Write("conflict_requires_review", "other") /\ UNCHANGED named
    /\ Goto(c, "refused")
    /\ UNCHANGED access

\* The row is written before New API is called.  A second insert breaks the
\* unique index on the portal user.
ProvisionStart(c) ==
    /\ \/ /\ \/ call[c].stage = "provision"
             \/ call[c].stage = "insert" /\ binding = "none"
          /\ Write("provisioning", candidate)
          /\ named' = TRUE
          /\ Goto(c, "provisioning")
       \/ /\ call[c].stage = "insert" /\ binding # "none"
          /\ Goto(c, "refused")
          /\ UNCHANGED <<binding, named, candidate, disables, restores>>
    /\ UNCHANGED <<access, faults>>

Outdated(token) == IF token = "valid" THEN "stale" ELSE token

\* New API's part of provisionUser: a new access token, in place of all others.
IssueAccessToken(c) ==
    /\ call[c].stage = "provisioning"
    /\ call' = [d \in Calls |->
                  IF d = c THEN [stage |-> "provisioned", token |-> "valid"]
                           ELSE [call[d] EXCEPT !.token = Outdated(@)]]
    /\ access' = Outdated(access)
    /\ UNCHANGED <<binding, named, candidate, disables, restores, faults>>

\* The WHERE clause leaves a disabled row alone, and the call throws.
ProvisionDone(c) ==
    /\ call[c].stage = "provisioned"
    /\ \/ /\ binding # "disabled"
          /\ Write("active", "none")
          /\ access' = call[c].token
          /\ named' = TRUE
          /\ Goto(c, "bound")
       \/ /\ binding = "disabled"
          /\ Goto(c, "refused")
          /\ UNCHANGED bindingVars
    /\ UNCHANGED faults

\* New API refuses, knows the name with another password, or does not answer,
\* or the audit row fails after the access token was stored; the write gives
\* way to a disabled row too.
ProvisionFail(c) ==
    /\ call[c].stage \in {"provisioning", "provisioned"}
    /\ Fault
    /\ \/ /\ binding # "disabled"
          /\ Write("username_sync_failed", "none")
          /\ \/ UNCHANGED access
             \/ call[c].stage = "provisioned" /\ access' = call[c].token
       \/ /\ binding # "disabled"
          /\ call[c].stage = "provisioning"
          /\ \E who \in {"own", "other"} : Write("conflict_requires_review", who)
          /\ UNCHANGED access
       \/ /\ binding = "disabled"
          /\ UNCHANGED <<binding, access, candidate, disables, restores>>
    /\ Goto(c, "refused")
    /\ UNCHANGED named

EnsureStep(c) ==
    /\ UNCHANGED hasEmail
    /\ \/ EnsureRead(c) \/ Block(c)
       \/ SyncStart(c) \/ SyncDone(c) \/ SyncFail(c)
       \/ ProvisionStart(c) \/ IssueAccessToken(c) \/ ProvisionDone(c) \/ ProvisionFail(c)

-----------------------------------------------------------------------------
(* Administrators.                                                         *)

\* disableNewapiUserBindingForAdmin up to the credentials.
Disable(c) ==
    /\ call[c].stage = "idle"
    /\ binding # "none"
    /\ disables < MaxDisables
    /\ binding' = "disabled"
    /\ disables' = disables + 1
    /\ Goto(c, "disabling")
    /\ UNCHANGED <<access, named, candidate, restores, faults>>

\* restoreNewapiUserBindingForAdmin: the claim; the retry is an ensure.
Restore(c) ==
    /\ call[c].stage = "idle"
    /\ binding = "disabled"
    /\ binding' = "provisioning"
    /\ restores' = restores + 1
    /\ Goto(c, "read")
    /\ UNCHANGED <<access, named, candidate, disables, faults>>

\* confirmNewapiUserConflictForAdmin.
ConfirmRead(c) ==
    /\ call[c].stage = "idle"
    /\ binding = "conflict_requires_review"
    /\ Goto(c, IF candidate = "own" THEN "confirming_own" ELSE "confirming_other")
    /\ UNCHANGED <<bindingVars, faults>>

\* The row gets the candidate's id and keeps its access token, which New API
\* does not accept for another user.
ConfirmDone(c) ==
    /\ call[c].stage \in {"confirming_own", "confirming_other"}
    /\ Write("active", "none")
    /\ named' = TRUE
    /\ access' = IF call[c].stage = "confirming_own" THEN access ELSE Outdated(access)
    /\ Goto(c, "idle")
    /\ UNCHANGED faults

\* New API does not confirm the candidate.
ConfirmFail(c) ==
    /\ call[c].stage \in {"confirming_own", "confirming_other"}
    /\ Goto(c, "idle")
    /\ UNCHANGED <<bindingVars, faults>>

\* A call that is not part of another component's step returns.
Return(c) ==
    /\ call[c].stage \in {"bound", "refused"}
    /\ Finish(c, "idle", "none")
    /\ UNCHANGED <<bindingVars, faults>>

BindingStep(c) ==
    /\ UNCHANGED hasEmail
    /\ \/ Ensure(c) \/ EnsureStep(c) \/ Return(c)
       \/ Disable(c) \/ Restore(c)
       \/ ConfirmRead(c) \/ ConfirmDone(c) \/ ConfirmFail(c)

-----------------------------------------------------------------------------
BindingTypeOK ==
    /\ binding \in BindingStatuses
    /\ access \in AccessTokens
    /\ named \in BOOLEAN
    /\ hasEmail \in BOOLEAN
    /\ candidate \in {"none", "own", "other"}
    /\ call \in [Calls -> CallRecords]
    /\ disables \in 0..MaxDisables
    /\ restores \in Nat
    /\ faults \in 0..MaxFaults

(***************************************************************************)
(* Each disable is lifted at most once: of the administrators that restore *)
(* a user at the same time one succeeds, and a later disable is not lifted *)
(* by a restore meant for an earlier one.                                  *)
(***************************************************************************)
EachDisableRestoredOnce == restores <= disables

-----------------------------------------------------------------------------

(***************************************************************************)
(* docs/04-newapi-contract.md: once the portal has stored the access token *)
(* the interface must not be called again, or the stored token is void: an *)
(* active binding that no call is working on holds the token New API       *)
(* accepts.                                                                *)
(***************************************************************************)
ActiveBindingWorks ==
    binding = "active" /\ (\A c \in Calls : call[c].stage = "idle")
        => access # "stale"
=============================================================================
