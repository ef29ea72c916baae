------------------------- MODULE CredentialsProofs --------------------------
(***************************************************************************)
(* Theorems about Credentials, for any number of groups, calls and tokens: *)
(* type correctness; no retired token is in use; the worker never brings a *)
(* disabled credential back; each disable is restored at most once.        *)
(***************************************************************************)
EXTENDS Credentials, TLAPS

-----------------------------------------------------------------------------
(* Types.                                                                  *)

\* Moving a call keeps the calls well typed.
LEMMA GotoType ==
    ASSUME call \in [Calls -> CallRecords], NEW c \in Calls,
           NEW stage \in CallStages, Goto(c, stage)
    PROVE  call' \in [Calls -> CallRecords]
BY DEF Goto, CallRecords

LEMMA FinishType ==
    ASSUME call \in [Calls -> CallRecords], NEW c \in Calls,
           NEW stage \in CallStages, NEW token \in AccessTokens,
           Finish(c, stage, token)
    PROVE  call' \in [Calls -> CallRecords]
BY DEF Finish, CallRecords

\* A binding is well typed after every step of a call of the bridge.
LEMMA BindingTypeStep ==
    ASSUME BindingTypeOK, NEW c \in Calls, BindingStep(c)
    PROVE  BindingTypeOK'
<1> USE UserBindingAssumption
<1>0. UNCHANGED hasEmail
  BY DEF BindingStep
<1> USE <1>0
<1>1. CASE Ensure(c)
  <2>1. call' \in [Calls -> CallRecords]
    BY <1>1, GotoType DEF Ensure, BindingTypeOK, CallStages
  <2> QED BY <1>1, <2>1 DEF Ensure, BindingTypeOK, bindingVars
<1>2. CASE EnsureRead(c)
  <2>1. call' \in [Calls -> CallRecords]
    BY <1>2, GotoType, FinishType DEF EnsureRead, BindingTypeOK, CallStages
  <2> QED BY <1>2, <2>1 DEF EnsureRead, BindingTypeOK, bindingVars
<1>3. CASE SyncStart(c)
  <2>1. call' \in [Calls -> CallRecords]
    BY <1>3, GotoType DEF SyncStart, BindingTypeOK, CallStages
  <2> QED BY <1>3, <2>1 DEF SyncStart, Write, BindingTypeOK, BindingStatuses
<1>4. CASE SyncDone(c)
  <2>1. call' \in [Calls -> CallRecords]
    BY <1>4, FinishType DEF SyncDone, BindingTypeOK, CallStages
  <2> QED BY <1>4, <2>1 DEF SyncDone, Write, BindingTypeOK, BindingStatuses
<1>5. CASE SyncFail(c)
  <2>1. call' \in [Calls -> CallRecords]
    BY <1>5, GotoType DEF SyncFail, BindingTypeOK, CallStages
  <2>2. /\ Fault /\ UNCHANGED access
        /\ \/ Write("username_sync_failed", "none")
           \/ Write("conflict_requires_review", "other")
    BY <1>5 DEF SyncFail
  <2>3. named' \in BOOLEAN
    BY <1>5, Zenon DEF SyncFail, BindingTypeOK
  <2> QED BY <2>1, <2>2, <2>3 DEF Fault, Write, BindingTypeOK, BindingStatuses
<1>6. CASE ProvisionStart(c)
  <2>1. call' \in [Calls -> CallRecords]
    BY <1>6, GotoType DEF ProvisionStart, BindingTypeOK, CallStages
  <2> QED BY <1>6, <2>1 DEF ProvisionStart, Write, BindingTypeOK, BindingStatuses
<1>7. CASE IssueAccessToken(c)
  <2>1. \A t \in AccessTokens : Outdated(t) \in AccessTokens
    BY DEF Outdated, AccessTokens
  <2>2. call' \in [Calls -> CallRecords]
    BY <1>7, <2>1 DEF IssueAccessToken, BindingTypeOK, CallRecords, CallStages, AccessTokens
  <2> QED BY <1>7, <2>1, <2>2 DEF IssueAccessToken, BindingTypeOK
<1>8. CASE ProvisionDone(c)
  <2>1. call' \in [Calls -> CallRecords]
    BY <1>8, GotoType DEF ProvisionDone, BindingTypeOK, CallStages
  <2> QED BY <1>8, <2>1 DEF ProvisionDone, Write, BindingTypeOK, BindingStatuses,
                            bindingVars, CallRecords
<1>9. CASE ProvisionFail(c)
  <2>1. call' \in [Calls -> CallRecords]
    BY <1>9, GotoType DEF ProvisionFail, BindingTypeOK, CallStages
  <2> QED BY <1>9, <2>1 DEF ProvisionFail, Fault, Write, BindingTypeOK, BindingStatuses,
                            CallRecords
<1>10. CASE Return(c)
  <2>1. call' \in [Calls -> CallRecords]
    BY <1>10, FinishType DEF Return, BindingTypeOK, CallStages, AccessTokens
  <2> QED BY <1>10, <2>1 DEF Return, BindingTypeOK, bindingVars
<1>11. CASE Disable(c)
  <2>1. call' \in [Calls -> CallRecords]
    BY <1>11, GotoType DEF Disable, BindingTypeOK, CallStages
  <2> QED BY <1>11, <2>1 DEF Disable, BindingTypeOK, BindingStatuses
<1>12. CASE Restore(c)
  <2>1. call' \in [Calls -> CallRecords]
    BY <1>12, GotoType DEF Restore, BindingTypeOK, CallStages
  <2> QED BY <1>12, <2>1 DEF Restore, BindingTypeOK, BindingStatuses
<1>13. CASE ConfirmRead(c)
  <2>1. call' \in [Calls -> CallRecords]
    BY <1>13, GotoType DEF ConfirmRead, BindingTypeOK, CallStages
  <2> QED BY <1>13, <2>1 DEF ConfirmRead, BindingTypeOK, bindingVars
<1>14. CASE ConfirmDone(c)
  <2>1. call' \in [Calls -> CallRecords]
    BY <1>14, GotoType DEF ConfirmDone, BindingTypeOK, CallStages
  <2> QED BY <1>14, <2>1 DEF ConfirmDone, Write, Outdated, BindingTypeOK,
                             BindingStatuses, AccessTokens
<1>15. CASE ConfirmFail(c)
  <2>1. call' \in [Calls -> CallRecords]
    BY <1>15, GotoType DEF ConfirmFail, BindingTypeOK, CallStages
  <2> QED BY <1>15, <2>1 DEF ConfirmFail, BindingTypeOK, bindingVars
<1>16. CASE Block(c)
  <2>1. call' \in [Calls -> CallRecords]
    BY <1>16, GotoType DEF Block, BindingTypeOK, CallStages
  <2> QED BY <1>16, <2>1 DEF Block, Write, BindingTypeOK, BindingStatuses
<1> QED
  BY <1>1, <1>2, <1>3, <1>4, <1>5, <1>6, <1>7, <1>8, <1>9, <1>10, <1>11, <1>12,
     <1>13, <1>14, <1>15, <1>16 DEF BindingStep, EnsureStep

\* The credentials' own variables.
TablesTypeOK ==
    /\ cred \in [Groups -> CredentialRecords]
    /\ retired \in [Groups -> SUBSET Tokens]
    /\ retiredDone \in [Groups -> SUBSET Tokens]
    /\ created \in 0..MaxTokens
    /\ enabled \in [Groups -> SUBSET Tokens]
    /\ regrouped \subseteq Tokens
    /\ reviving \subseteq Groups
    /\ upsets \in 0..MaxUpsets

WorkerTypeOK ==
    /\ worker \in WorkRecords
    /\ worker.stage \notin {"idle", "retire", "rows"} => worker.group \in Groups
    /\ worker.stage = "retiring" => worker.token \in Tokens

\* Requests, administrators and New API keep the tables well typed.
LEMMA RequestTypeStep ==
    ASSUME TablesTypeOK, NEW g \in Groups,
           EnsureRuntimeCredential(g) \/ Revive(g) \/ Regroup(g)
              \/ MarkCredentialInvalid(g) \/ RotateRuntimeCredential(g)
    PROVE  TablesTypeOK'
<1> USE CredentialsAssumption DEF TablesTypeOK, tableVars, remoteVars
<1>1. CASE EnsureRuntimeCredential(g)
  <2>1. cred' \in [Groups -> CredentialRecords]
    <3>1. SetCred(g, "pending", NoToken) \/ UNCHANGED cred
      BY <1>1 DEF EnsureRuntimeCredential
    <3>2. [status |-> "pending", token |-> NoToken, mismatched |-> FALSE]
             \in CredentialRecords
      BY DEF CredentialRecords, CredentialStatuses
    <3> QED BY <3>1, <3>2 DEF SetCred
  <2> QED BY <1>1, <2>1 DEF EnsureRuntimeCredential
<1>2. CASE Revive(g)
  BY <1>2 DEF Revive, CredentialRecords, CredentialStatuses
<1>3. CASE Regroup(g)
  BY <1>3 DEF Regroup, Upset
<1>4. CASE MarkCredentialInvalid(g)
  <2>1. cred' \in [Groups -> CredentialRecords]
    BY <1>4 DEF MarkCredentialInvalid, CredentialRecords, CredentialStatuses
  <2> QED BY <1>4, <2>1 DEF MarkCredentialInvalid, Upset
<1>5. CASE RotateRuntimeCredential(g)
  BY <1>5 DEF RotateRuntimeCredential, Upset, EnqueueRetirement, SetCred,
              CredentialRecords, CredentialStatuses
<1> QED BY <1>1, <1>2, <1>3, <1>4, <1>5


\* The catch block of the worker's loop writes "pending" or nothing.
LEMMA CaughtType ==
    ASSUME NEW row \in CredentialRecords
    PROVE  /\ Caught(row) \in CredentialRecords
           /\ Caught(row).token = row.token
           /\ Caught(row).status \in {row.status, "pending"}
           /\ row.status \notin {"pending", "invalid"} => Caught(row) = row
BY DEF Caught, CredentialRecords, CredentialStatuses

\* So does the worker, in each of its steps.
LEMMA WorkerTypeStep ==
    ASSUME TablesTypeOK, WorkerTypeOK, WorkerStep
    PROVE  TablesTypeOK' /\ WorkerTypeOK'
<1> USE CredentialsAssumption DEF NoWork, NoToken, tableVars, remoteVars, WorkerAt
<1>a. /\ worker.todo \in SUBSET (Groups \X Tokens)
      /\ worker.rows \in SUBSET Snapshots
      /\ worker.token \in Tokens \cup {NoToken}
      /\ worker.black \in SUBSET Tokens
      /\ worker.group \in Groups \cup {"none"}
      /\ worker.stage \notin {"idle", "retire", "rows"} => worker.group \in Groups
      /\ DOMAIN worker = {"stage", "todo", "rows", "group", "token", "black"}
  BY DEF WorkerTypeOK, WorkRecords
<1>b. ASSUME NEW stage \in WorkerStages, NEW todo \in SUBSET (Groups \X Tokens),
             NEW rows \in SUBSET Snapshots, NEW group \in Groups \cup {"none"},
             NEW token \in Tokens \cup {NoToken}, NEW black \in SUBSET Tokens,
             stage \notin {"idle", "retire", "rows"} => group \in Groups,
             stage = "retiring" => token \in Tokens,
             worker' = [stage |-> stage, todo |-> todo, rows |-> rows, group |-> group,
                        token |-> token, black |-> black]
      PROVE  WorkerTypeOK'
  BY <1>b DEF WorkerTypeOK, WorkRecords
<1>c. cred \in [Groups -> CredentialRecords] /\ retired \in [Groups -> SUBSET Tokens]
  BY DEF TablesTypeOK
<1>1. CASE WorkerStart
  BY <1>1 DEF WorkerStart, TablesTypeOK, WorkerTypeOK, WorkRecords, WorkerStages
<1>2. CASE RetireNext
  <2>1. PICK w \in worker.todo :
          worker' = [worker EXCEPT !.stage = "retiring", !.todo = @ \ {w},
                                   !.group = w[1], !.token = w[2]]
    BY <1>2 DEF RetireNext
  <2>2. w[1] \in Groups /\ w[2] \in Tokens
    BY <1>a, <2>1
  <2>3. WorkerTypeOK'
    BY <2>1, <2>2 DEF WorkerTypeOK, WorkRecords, WorkerStages
  <2> QED BY <1>2, <2>3 DEF RetireNext, TablesTypeOK
<1>3. CASE DisableKey
  BY <1>3 DEF DisableKey, TablesTypeOK, WorkerTypeOK, WorkRecords, WorkerStages
<1>4. CASE RetireFail
  <2>1. WorkerTypeOK'
    BY <1>4 DEF RetireFail, WorkerTypeOK, WorkRecords, WorkerStages
  <2>2. enabled' \in [Groups -> SUBSET Tokens]
    BY <1>4 DEF RetireFail, TablesTypeOK
  <2> QED BY <1>4, <2>1, <2>2 DEF RetireFail, TablesTypeOK
<1>5. CASE RowsStart
  <2> DEFINE Waiting == {h \in Groups : cred[h].status \in {"pending", "invalid"}}
             Rows == {[group |-> g, status |-> cred[g].status, token |-> cred[g].token] :
                        g \in Waiting}
  <2>1. Rows \in SUBSET Snapshots
    BY <1>c DEF Snapshots, CredentialRecords
  <2>2. worker' = [stage |-> "rows", todo |-> {}, rows |-> Rows, group |-> "none",
                   token |-> NoToken, black |-> {}]
    BY <1>5 DEF RowsStart
  <2> HIDE DEF Rows
  <2>3. WorkerTypeOK'
    BY <1>b, <2>1, <2>2 DEF WorkerStages
  <2> QED BY <1>5, <2>3 DEF RowsStart, TablesTypeOK
<1>6. CASE RowNext
  <2>1. PICK r \in worker.rows :
          \/ /\ \E stage \in {"binding", "reset"} :
                   worker' = [worker EXCEPT !.stage = stage, !.rows = @ \ {r},
                                            !.group = r.group, !.token = r.token]
             /\ UNCHANGED cred
             /\ UNCHANGED retired \/ EnqueueRetirement(r.group, r.token)
          \/ /\ worker' = [worker EXCEPT !.rows = @ \ {r}]
             /\ cred' = [cred EXCEPT ![r.group] = Caught(@)]
             /\ UNCHANGED retired
    BY <1>6 DEF RowNext
  <2>2. r.group \in Groups /\ r.token \in Tokens \cup {NoToken}
    BY <1>a, <2>1 DEF Snapshots
  <2>3. WorkerTypeOK'
    BY <2>1, <2>2 DEF WorkerTypeOK, WorkRecords, WorkerStages
  <2>4. cred' \in [Groups -> CredentialRecords]
    BY <1>c, <2>1, <2>2, CaughtType
  <2>5. retired' \in [Groups -> SUBSET Tokens]
    BY <1>c, <2>1, <2>2 DEF EnqueueRetirement
  <2> QED BY <1>6, <2>3, <2>4, <2>5 DEF RowNext, TablesTypeOK
<1>d. WorkerAt("idle") \/ WorkerAt("retire") \/ WorkerAt("rows") \/ worker.group \in Groups
  BY <1>a
<1>e. ASSUME NEW g \in Groups, RowError(g)
      PROVE  WorkerTypeOK' /\ cred' \in [Groups -> CredentialRecords]
  <2>1. WorkerTypeOK'
    BY <1>e DEF RowError, NextRow, WorkerTypeOK, WorkRecords, WorkerStages
  <2>2. cred' \in [Groups -> CredentialRecords]
    BY <1>c, <1>e, CaughtType DEF RowError
  <2> QED BY <2>1, <2>2
<1>7. CASE ResetInvalid
  <2> DEFINE g == worker.group
  <2>1. g \in Groups
    BY <1>7, <1>d DEF ResetInvalid
  <2>2. CASE /\ cred' = [cred EXCEPT ![g].status = "pending", ![g].token = NoToken]
             /\ worker' = [worker EXCEPT !.stage = "binding"]
    <3>1. WorkerTypeOK'
      <4>1. worker'.group = g /\ worker'.stage = "binding" /\ worker' \in WorkRecords
        BY <2>2 DEF WorkerTypeOK, WorkRecords, WorkerStages
      <4> QED BY <2>1, <4>1 DEF WorkerTypeOK
    <3>2. cred' \in [Groups -> CredentialRecords]
      BY <1>c, <2>1, <2>2 DEF CredentialRecords, CredentialStatuses
    <3> QED BY <1>7, <3>1, <3>2 DEF ResetInvalid, TablesTypeOK
  <2>3. CASE RowError(g)
    BY <1>7, <1>e, <2>1, <2>3 DEF ResetInvalid, TablesTypeOK
  <2>4. CASE UNCHANGED cred /\ worker' = NextRow("rows")
    BY <1>7, <2>4 DEF ResetInvalid, NextRow, TablesTypeOK, WorkerTypeOK, WorkRecords,
                      WorkerStages
  <2> QED BY <1>7, <2>2, <2>3, <2>4 DEF ResetInvalid
<1>8. CASE LoadRetirementBlacklist
  BY <1>8, <1>d DEF LoadRetirementBlacklist, TablesTypeOK, WorkerTypeOK, WorkRecords,
                    WorkerStages
<1>9. CASE TryAdopt
  BY <1>9, <1>d DEF TryAdopt, Matches, TablesTypeOK, WorkerTypeOK, WorkRecords, WorkerStages
<1>10. CASE CreateTokenRaw
  BY <1>10, <1>d DEF CreateTokenRaw, NewToken, Tokens, TablesTypeOK, WorkerTypeOK,
                     WorkRecords, WorkerStages
<1>11. CASE Activate
  BY <1>11, <1>d DEF Activate, SetCred, NextRow, CredentialRecords, CredentialStatuses,
                     TablesTypeOK, WorkerTypeOK, WorkRecords, WorkerStages
<1>12. CASE RowFail
  <2>1. worker.group \in Groups /\ RowError(worker.group)
    BY <1>12, <1>d DEF RowFail
  <2>2. created' \in 0..MaxTokens /\ enabled' \in [Groups -> SUBSET Tokens]
    BY <1>12, <2>1 DEF RowFail, NewToken, Tokens, TablesTypeOK
  <2> QED BY <1>12, <1>e, <2>1, <2>2 DEF RowFail, TablesTypeOK
<1>13. CASE RowsDone
  BY <1>13 DEF RowsDone, TablesTypeOK, WorkerTypeOK, WorkRecords, WorkerStages
<1>14. CASE TellMismatch
  BY <1>14, <1>c, <1>d DEF TellMismatch, NextRow, CredentialRecords, TablesTypeOK,
                           WorkerTypeOK, WorkRecords, WorkerStages
<1> QED
  BY <1>1, <1>2, <1>3, <1>4, <1>5, <1>6, <1>7, <1>8, <1>9, <1>10, <1>11, <1>12, <1>13,
     <1>14
  DEF WorkerStep

\* Of a binding the worker moves its own call only.
LEMMA WorkerCallStep ==
    ASSUME BindingTypeOK, WorkerStep
    PROVE  BindingTypeOK' /\ UNCHANGED bindingVars
<1> USE UserBindingAssumption, CredentialsAssumption
    DEF BindingTypeOK, bridgeVars, bindingVars, CallIdle, WaitForBinding, Fault
<1>1. CallIdle => call' \in [Calls -> CallRecords]
  BY FinishType DEF CallStages, AccessTokens
<1>2. WaitForBinding => call' \in [Calls -> CallRecords]
  BY GotoType DEF Goto, CallStages
<1>3. CASE WorkerStart \/ RowsStart \/ LoadRetirementBlacklist \/ TryAdopt \/ CreateTokenRaw
           \/ RowsDone
  BY <1>3 DEF WorkerStart, RowsStart, LoadRetirementBlacklist, TryAdopt, CreateTokenRaw,
              RowsDone
<1>4. CASE RetireNext
  BY <1>2, <1>4 DEF RetireNext
<1>5. CASE DisableKey \/ Activate \/ TellMismatch
  BY <1>1, <1>5 DEF DisableKey, Activate, TellMismatch
<1>6. CASE RetireFail
  BY <1>1, <1>6 DEF RetireFail
<1>7. CASE RowNext
  BY <1>2, <1>7 DEF RowNext
<1>8. CASE ResetInvalid
  BY <1>2, <1>8 DEF ResetInvalid
<1>9. CASE RowFail
  BY <1>1, <1>9 DEF RowFail
<1> QED
  BY <1>3, <1>4, <1>5, <1>6, <1>7, <1>8, <1>9 DEF WorkerStep

LEMMA InitType == CredentialsInit => CredentialsTypeOK
<1> SUFFICES ASSUME CredentialsInit PROVE CredentialsTypeOK
  OBVIOUS
<1>1. BindingTypeOK
  <2>1. call \in [Calls -> CallRecords]
    BY DEF CredentialsInit, BindingInit, CallRecords, CallStages, AccessTokens, NoCall
  <2>2. /\ binding \in BindingStatuses /\ access \in AccessTokens /\ named \in BOOLEAN
      /\ hasEmail \in BOOLEAN
    BY DEF CredentialsInit, BindingInit, BindingStatuses, AccessTokens
  <2> QED BY <2>1, <2>2, UserBindingAssumption DEF CredentialsInit, BindingInit, BindingTypeOK
<1>2. TablesTypeOK
  BY CredentialsAssumption DEF CredentialsInit, TablesTypeOK, CredentialRecords,
     CredentialStatuses
<1>3. WorkerTypeOK
  BY DEF CredentialsInit, WorkerTypeOK, WorkRecords, WorkerStages, NoWork
<1> QED BY <1>1, <1>2, <1>3 DEF CredentialsTypeOK, TablesTypeOK, WorkerTypeOK

LEMMA EnsureIsBinding ==
    ASSUME NEW c \in Calls, EnsureStep(c)
    PROVE  BindingStep(c)
BY DEF BindingStep, EnsureStep

LEMMA NextType ==
    ASSUME CredentialsTypeOK, [CredentialsNext]_vars
    PROVE  CredentialsTypeOK'
<1> USE UserBindingAssumption, CredentialsAssumption
<1>1. BindingTypeOK /\ TablesTypeOK /\ WorkerTypeOK
  BY DEF CredentialsTypeOK, TablesTypeOK, WorkerTypeOK
<1>p. BindingTypeOK' /\ TablesTypeOK' /\ WorkerTypeOK' => CredentialsTypeOK'
  BY DEF CredentialsTypeOK, TablesTypeOK, WorkerTypeOK
<1>u. UNCHANGED <<bindingVars, call, faults>> => BindingTypeOK'
  BY <1>1 DEF bindingVars, BindingTypeOK
<1>v. UNCHANGED <<tableVars, remoteVars, reviving, upsets>> => TablesTypeOK'
  BY <1>1 DEF tableVars, remoteVars, TablesTypeOK
<1>w. UNCHANGED worker => WorkerTypeOK'
  BY <1>1 DEF WorkerTypeOK
<1>2. CASE UNCHANGED credVars /\ \E c \in Calls : BindingStep(c)
  <2>1. BindingTypeOK'
    BY <1>1, <1>2, BindingTypeStep
  <2> QED BY <1>2, <1>p, <1>v, <1>w, <2>1 DEF credVars
<1>3. ASSUME NEW g \in Groups,
             EnsureRuntimeCredential(g) \/ Revive(g) \/ Regroup(g)
                \/ MarkCredentialInvalid(g) \/ RotateRuntimeCredential(g)
      PROVE  CredentialsTypeOK'
  <2>1. TablesTypeOK'
    BY <1>1, <1>3, RequestTypeStep
  <2>2. UNCHANGED <<bridgeVars, worker>>
    BY <1>3 DEF EnsureRuntimeCredential, Revive, Regroup, MarkCredentialInvalid,
                RotateRuntimeCredential
  <2> QED BY <1>p, <1>u, <1>w, <2>1, <2>2 DEF bridgeVars
<1>4. ASSUME NEW c \in Calls, DisableRuntimeCredentialsForUser(c)
      PROVE  CredentialsTypeOK'
  <2>1. call' \in [Calls -> CallRecords]
    BY <1>1, <1>4, FinishType DEF DisableRuntimeCredentialsForUser, BindingTypeOK, CallStages,
                                AccessTokens
  <2>2. TablesTypeOK'
    BY <1>1, <1>4 DEF DisableRuntimeCredentialsForUser, TablesTypeOK, remoteVars,
                      CredentialRecords, CredentialStatuses
  <2>3. BindingTypeOK'
    BY <1>1, <1>4, <2>1 DEF DisableRuntimeCredentialsForUser, bindingVars, BindingTypeOK
  <2> QED BY <1>4, <1>p, <1>w, <2>2, <2>3 DEF DisableRuntimeCredentialsForUser
<1>5. CASE WorkerStep
  BY <1>1, <1>5, <1>p, WorkerTypeStep, WorkerCallStep
<1>6. CASE WorkerStop \/ Crash
  <2>1. call' \in [Calls -> CallRecords]
    BY <1>1, <1>6 DEF WorkerStop, Crash, BindingTypeOK, NoCall, CallRecords, CallStages,
                      AccessTokens
  <2>2. TablesTypeOK' /\ WorkerTypeOK'
    BY <1>1, <1>6 DEF WorkerStop, Crash, TablesTypeOK, WorkerTypeOK, tableVars, remoteVars,
                      NoWork, WorkRecords, WorkerStages
  <2>3. BindingTypeOK'
    BY <1>1, <1>6, <2>1 DEF WorkerStop, Crash, Fault, bindingVars, BindingTypeOK
  <2> QED BY <1>p, <2>2, <2>3
<1>7. CASE UNCHANGED vars
  BY <1>7, <1>p, <1>u, <1>v, <1>w DEF vars, bridgeVars, credVars
<1> QED
  BY <1>2, <1>3, <1>4, <1>5, <1>6, <1>7, EnsureIsBinding DEF CredentialsNext

\* Every variable of the binding and of the credentials has its type, in every
\* reachable state.
THEOREM CredentialsTypeCorrect == CredentialsSafetySpec => []CredentialsTypeOK
<1>1. CredentialsTypeOK /\ [CredentialsNext]_vars => CredentialsTypeOK'
  BY NextType
<1> QED BY <1>1, InitType, PTL DEF CredentialsSafetySpec

-----------------------------------------------------------------------------
(* Disables and restores.                                                  *)

\* A disabled user can be restored at most once more.
RestoreInv ==
    /\ restores <= disables
    /\ binding = "disabled" => restores < disables

LEMMA RestoreStep ==
    ASSUME CredentialsTypeOK, RestoreInv, [CredentialsNext]_vars
    PROVE  RestoreInv'
<1> USE DEF RestoreInv, bindingVars
<1>1. restores \in Nat /\ disables \in Nat
  BY DEF CredentialsTypeOK, BindingTypeOK
<1>2. CASE UNCHANGED credVars /\ \E c \in Calls : BindingStep(c)
  <2>1. PICK c \in Calls : BindingStep(c)
    BY <1>2
  <2>2. CASE Disable(c)
    BY <1>1, <2>2 DEF Disable
  <2>3. CASE Restore(c)
    BY <1>1, <2>3 DEF Restore
  <2>4. CASE Block(c) \/ SyncStart(c) \/ SyncDone(c) \/ SyncFail(c)
    BY <1>1, <2>4 DEF Block, SyncStart, SyncDone, SyncFail, Write
  <2>5. CASE ProvisionStart(c) \/ ProvisionDone(c) \/ ProvisionFail(c)
    BY <1>1, <2>5 DEF ProvisionStart, ProvisionDone, ProvisionFail, Write
  <2>6. CASE Ensure(c) \/ EnsureRead(c) \/ IssueAccessToken(c) \/ Return(c)
    BY <1>1, <2>6 DEF Ensure, EnsureRead, IssueAccessToken, Return
  <2>7. CASE ConfirmRead(c) \/ ConfirmDone(c) \/ ConfirmFail(c)
    BY <1>1, <2>7 DEF ConfirmRead, ConfirmDone, ConfirmFail, Write
  <2> QED BY <2>1, <2>2, <2>3, <2>4, <2>5, <2>6, <2>7 DEF BindingStep, EnsureStep
<1>3. CASE UNCHANGED bindingVars
  BY <1>1, <1>3
<1>4. CASE \E g \in Groups :
              EnsureRuntimeCredential(g) \/ Revive(g) \/ Regroup(g)
                \/ MarkCredentialInvalid(g) \/ RotateRuntimeCredential(g)
  BY <1>3, <1>4 DEF EnsureRuntimeCredential, Revive, Regroup, MarkCredentialInvalid,
                    RotateRuntimeCredential, bridgeVars
<1>5. CASE WorkerStep
  BY <1>3, <1>5, WorkerCallStep DEF CredentialsTypeOK
<1>6. CASE WorkerStop \/ Crash \/ (\E c \in Calls : DisableRuntimeCredentialsForUser(c))
  BY <1>3, <1>6 DEF WorkerStop, Crash, DisableRuntimeCredentialsForUser
<1>7. CASE UNCHANGED vars
  BY <1>3, <1>7 DEF vars, bridgeVars
<1> QED
  BY <1>2, <1>4, <1>5, <1>6, <1>7, EnsureIsBinding, CredentialsAssumption
  DEF CredentialsNext

\* Each disable of the user is lifted by at most one restore.
THEOREM DisablesRestoredOnce == CredentialsSafetySpec => []EachDisableRestoredOnce
<1>1. CredentialsInit => RestoreInv
  BY DEF CredentialsInit, BindingInit, RestoreInv
<1>2. CredentialsTypeOK /\ RestoreInv /\ [CredentialsNext]_vars => RestoreInv'
  BY RestoreStep
<1>3. RestoreInv => EachDisableRestoredOnce
  BY DEF RestoreInv, EachDisableRestoredOnce
<1> QED BY <1>1, <1>2, <1>3, CredentialsTypeCorrect, PTL DEF CredentialsSafetySpec
-----------------------------------------------------------------------------
(* No retired token is in use.  An active row is not among the rows the    *)
(* worker has read, and what the worker must not adopt covers everything   *)
(* that has been retired for the row it works on: a token that is retired  *)
(* meanwhile is the one the row had, or the row has none.                  *)

\* The worker is between taking a row and being done with it.
Handling == {"reset", "binding", "adopt", "create", "readopt", "key"}

\* A row the worker has read has not become active since, and has the token
\* it had then or none; the row at hand is no longer among them.
SnapshotInv ==
    \A r \in worker.rows :
        /\ cred[r.group].status # "active"
        /\ cred[r.group].token \in {NoToken, r.token}
        /\ worker.stage \in Handling => r.group # worker.group
        /\ \A s \in worker.rows : s.group = r.group => s = r

\* The row at hand is not active; once the blacklist is loaded it holds every
\* token retired for the row, and the row's own.
HandlingInv ==
    worker.stage \in Handling =>
        LET g == worker.group
        IN  /\ cred[g].status # "active"
            /\ worker.stage \in {"reset", "binding"} =>
                  cred[g].token \in {NoToken, worker.token}
            /\ worker.stage \in {"adopt", "create", "readopt", "key"} =>
                  retired[g] \cup {cred[g].token} \subseteq worker.black \cup {NoToken}
            /\ worker.stage = "key" => worker.token \notin worker.black

CredInv == NoRetiredTokenInUse /\ SnapshotInv /\ HandlingInv

\* A row keeps its token or loses it, loses it when it is retired, and does not
\* become active.
Gentle ==
    \A g \in Groups :
        /\ cred'[g].status = "active" =>
              /\ cred[g].status = "active" /\ cred'[g].token = cred[g].token
              /\ retired'[g] = retired[g]
        /\ cred'[g].token \in {NoToken, cred[g].token}
        /\ retired'[g] \subseteq retired[g] \cup {cred[g].token}

LEMMA GentleStep ==
    ASSUME CredentialsTypeOK, CredInv, Gentle,
           \/ worker' = worker
           \/ worker'.stage \notin Handling /\ worker'.rows \subseteq worker.rows
    PROVE  CredInv'
<1>1. NoRetiredTokenInUse'
  BY DEF Gentle, CredInv, NoRetiredTokenInUse
<1>2. \A r \in worker.rows : r.group \in Groups
  BY DEF CredentialsTypeOK, WorkRecords, Snapshots
<1>3. worker.stage \in Handling => worker.group \in Groups
  BY DEF CredentialsTypeOK, Handling
<1>4. SnapshotInv'
  BY <1>2 DEF Gentle, CredInv, SnapshotInv
<1>5. HandlingInv'
  <2>1. CASE worker'.stage \notin Handling
    BY <2>1 DEF HandlingInv
  <2>2. CASE worker' = worker
    <3> SUFFICES ASSUME worker.stage \in Handling PROVE HandlingInv'
      BY <2>2 DEF HandlingInv
    <3> DEFINE g == worker.group
    <3>1. g \in Groups
      BY <1>3
    <3>2. /\ cred'[g].status = "active" => cred[g].status = "active"
          /\ cred'[g].token \in {NoToken, cred[g].token}
          /\ retired'[g] \subseteq retired[g] \cup {cred[g].token}
      BY <3>1 DEF Gentle
    <3> QED BY <2>2, <3>1, <3>2 DEF CredInv, HandlingInv
  <2> QED BY <2>1, <2>2
<1> QED BY <1>1, <1>4, <1>5 DEF CredInv

\* What requests, administrators and the binding do to the credentials.
LEMMA RequestsGentle ==
    ASSUME CredentialsTypeOK,
           \/ \E g \in Groups : EnsureRuntimeCredential(g) \/ Revive(g) \/ Regroup(g)
                                 \/ MarkCredentialInvalid(g) \/ RotateRuntimeCredential(g)
           \/ \E c \in Calls : DisableRuntimeCredentialsForUser(c)
           \/ UNCHANGED credVars
    PROVE  Gentle /\ worker' = worker
<1>0. cred \in [Groups -> CredentialRecords] /\ retired \in [Groups -> SUBSET Tokens]
  BY DEF CredentialsTypeOK
<1> USE <1>0 DEF Gentle, CredentialRecords, NoToken
<1>1. ASSUME NEW g \in Groups, EnsureRuntimeCredential(g)
      PROVE  Gentle /\ worker' = worker
  BY <1>1 DEF EnsureRuntimeCredential, SetCred
<1>2. ASSUME NEW g \in Groups, Revive(g)
      PROVE  Gentle /\ worker' = worker
  BY <1>2 DEF Revive
<1>3. ASSUME NEW g \in Groups, Regroup(g)
      PROVE  Gentle /\ worker' = worker
  BY <1>3 DEF Regroup, tableVars
<1>4. ASSUME NEW g \in Groups, MarkCredentialInvalid(g)
      PROVE  Gentle /\ worker' = worker
  BY <1>4 DEF MarkCredentialInvalid
<1>5. ASSUME NEW g \in Groups, RotateRuntimeCredential(g)
      PROVE  Gentle /\ worker' = worker
  BY <1>5 DEF RotateRuntimeCredential, EnqueueRetirement, SetCred
<1>6. ASSUME NEW c \in Calls, DisableRuntimeCredentialsForUser(c)
      PROVE  Gentle /\ worker' = worker
  BY <1>6 DEF DisableRuntimeCredentialsForUser
<1>7. CASE UNCHANGED credVars
  BY <1>7 DEF credVars, tableVars
<1> QED BY <1>1, <1>2, <1>3, <1>4, <1>5, <1>6, <1>7

\* The catch block of the worker's loop.
LEMMA RowErrorGentle ==
    ASSUME CredentialsTypeOK, NEW g \in Groups, RowError(g), UNCHANGED retired
    PROVE  Gentle /\ worker'.stage \notin Handling /\ worker'.rows \subseteq worker.rows
<1>1. cred \in [Groups -> CredentialRecords]
  BY DEF CredentialsTypeOK
<1>2. Gentle
  BY <1>1, CaughtType DEF RowError, Gentle
<1>3. worker'.stage = "rows" /\ worker'.rows = worker.rows
  BY DEF RowError, NextRow, NoWork
<1> QED BY <1>2, <1>3 DEF Handling

LEMMA WorkerInvStep ==
    ASSUME CredentialsTypeOK, CredInv, WorkerStep
    PROVE  CredInv'
<1> USE DEF WorkerAt, NoWork, tableVars
<1>a. cred \in [Groups -> CredentialRecords] /\ retired \in [Groups -> SUBSET Tokens]
  BY DEF CredentialsTypeOK
<1>b. \A r \in worker.rows : r \in Snapshots /\ r.group \in Groups
  BY DEF CredentialsTypeOK, WorkRecords, Snapshots
<1>c. worker.stage \notin {"idle", "retire", "rows"} => worker.group \in Groups
  BY DEF CredentialsTypeOK
<1>w. DOMAIN worker = {"stage", "todo", "rows", "group", "token", "black"}
  BY DEF CredentialsTypeOK, WorkRecords
<1>g. UNCHANGED <<cred, retired>> => Gentle
  BY <1>a DEF Gentle
<1>1. CASE WorkerStart \/ RetireNext \/ DisableKey \/ RetireFail \/ RowsDone
  <2>1. UNCHANGED <<cred, retired>>
    BY <1>1 DEF WorkerStart, RetireNext, DisableKey, RetireFail, RowsDone
  <2>2. worker'.stage \notin Handling /\ worker'.rows \subseteq worker.rows
    <3>1. CASE RetireNext
      <4>1. PICK w \in worker.todo :
              worker' = [worker EXCEPT !.stage = "retiring", !.todo = @ \ {w},
                                       !.group = w[1], !.token = w[2]]
        BY <3>1 DEF RetireNext
      <4>2. worker'.stage = "retiring" /\ worker'.rows = worker.rows
        BY <1>w, <4>1
      <4> QED BY <4>2 DEF Handling
    <3>2. CASE WorkerStart
      <4>1. worker'.stage = "retire" /\ worker'.rows = {}
        BY <3>2 DEF WorkerStart
      <4> QED BY <4>1 DEF Handling
    <3>3. CASE DisableKey \/ RetireFail
      <4>1. worker'.stage = "retire" /\ worker'.rows = {}
        BY <3>3 DEF DisableKey, RetireFail
      <4> QED BY <4>1 DEF Handling
    <3>4. CASE RowsDone
      BY <3>4 DEF RowsDone, Handling
    <3> QED BY <1>1, <3>1, <3>2, <3>3, <3>4
  <2> QED BY <1>g, <2>1, <2>2, GentleStep
<1>2. CASE RowsStart
  <2>1. /\ worker'.stage = "rows" /\ UNCHANGED <<cred, retired>>
        /\ \A r \in worker'.rows : /\ cred[r.group].status \in {"pending", "invalid"}
                                  /\ r.status = cred[r.group].status
                                  /\ r.token = cred[r.group].token
                                  /\ r = [group |-> r.group, status |-> r.status,
                                          token |-> r.token]
    BY <1>2 DEF RowsStart
  <2>2. SnapshotInv'
    BY <2>1 DEF SnapshotInv, Handling
  <2> QED BY <2>1, <2>2 DEF CredInv, NoRetiredTokenInUse, HandlingInv, Handling
<1>3. CASE RowNext
  <2>1. PICK r \in worker.rows :
          \/ /\ \E stage \in {"binding", "reset"} :
                   worker' = [worker EXCEPT !.stage = stage, !.rows = @ \ {r},
                                            !.group = r.group, !.token = r.token]
             /\ UNCHANGED cred
             /\ UNCHANGED retired \/ EnqueueRetirement(r.group, r.token)
          \/ /\ worker' = [worker EXCEPT !.rows = @ \ {r}]
             /\ cred' = [cred EXCEPT ![r.group] = Caught(@)]
             /\ UNCHANGED retired
    BY <1>3 DEF RowNext
  <2>2. CASE /\ worker' = [worker EXCEPT !.rows = @ \ {r}]
             /\ cred' = [cred EXCEPT ![r.group] = Caught(@)]
             /\ UNCHANGED retired
    <3>1. Gentle
      BY <1>a, <1>b, <2>2, CaughtType DEF Gentle
    <3>2. worker'.stage \notin Handling /\ worker'.rows \subseteq worker.rows
      BY <1>3, <1>w, <2>2 DEF RowNext, Handling
    <3> QED BY <3>1, <3>2, GentleStep
  <2>3. CASE /\ \E stage \in {"binding", "reset"} :
                  worker' = [worker EXCEPT !.stage = stage, !.rows = @ \ {r},
                                           !.group = r.group, !.token = r.token]
             /\ UNCHANGED cred
             /\ UNCHANGED retired \/ EnqueueRetirement(r.group, r.token)
    <3>1. /\ worker'.stage \in {"binding", "reset"} /\ worker'.rows = worker.rows \ {r}
          /\ worker'.group = r.group /\ worker'.token = r.token
      BY <1>w, <2>3
    <3>2. /\ cred[r.group].status # "active"
          /\ cred[r.group].token \in {NoToken, r.token}
          /\ \A s \in worker.rows \ {r} : s.group # r.group
      BY DEF CredInv, SnapshotInv
    <3>3. NoRetiredTokenInUse'
      BY <1>a, <1>b, <2>3, <3>2 DEF CredInv, NoRetiredTokenInUse, EnqueueRetirement
    <3>4. SnapshotInv'
      BY <2>3, <3>1, <3>2 DEF CredInv, SnapshotInv
    <3>5. HandlingInv'
      BY <2>3, <3>1, <3>2 DEF HandlingInv
    <3> QED BY <3>3, <3>4, <3>5 DEF CredInv
  <2> QED BY <2>1, <2>2, <2>3
<1>4. CASE ResetInvalid
  <2> DEFINE g == worker.group
  <2>1. worker.stage = "reset" /\ g \in Groups /\ UNCHANGED retired
    BY <1>4, <1>c DEF ResetInvalid
  <2>2. CASE /\ cred' = [cred EXCEPT ![g].status = "pending", ![g].token = NoToken]
             /\ worker' = [worker EXCEPT !.stage = "binding"]
    <3>1. /\ cred'[g].status = "pending" /\ cred'[g].token = NoToken
          /\ \A h \in Groups \ {g} : cred'[h] = cred[h]
      BY <1>a, <2>1, <2>2 DEF CredentialRecords
    <3>2. /\ worker'.stage = "binding" /\ worker'.rows = worker.rows
          /\ worker'.group = g /\ worker'.token = worker.token
      BY <1>w, <2>2
    <3>3. NoRetiredTokenInUse'
      BY <2>1, <3>1 DEF CredInv, NoRetiredTokenInUse
    <3>4. SnapshotInv'
      BY <1>b, <2>1, <3>1, <3>2 DEF CredInv, SnapshotInv, Handling
    <3>5. HandlingInv'
      BY <3>1, <3>2 DEF HandlingInv
    <3> QED BY <3>3, <3>4, <3>5 DEF CredInv
  <2>3. CASE RowError(g)
    BY <2>1, <2>3, RowErrorGentle, GentleStep
  <2>4. CASE UNCHANGED cred /\ worker' = NextRow("rows")
    BY <1>g, <2>1, <2>4, GentleStep DEF NextRow, Handling
  <2> QED BY <1>4, <2>2, <2>3, <2>4 DEF ResetInvalid
<1>5. CASE LoadRetirementBlacklist
  <2>1. /\ worker.stage = "binding" /\ worker.group \in Groups
        /\ UNCHANGED <<cred, retired>>
    BY <1>5, <1>c DEF LoadRetirementBlacklist
  <2>2. /\ worker'.stage = "adopt" /\ worker'.rows = worker.rows
        /\ worker'.group = worker.group
        /\ worker'.black = retired[worker.group] \cup ({worker.token} \ {NoToken})
    BY <1>5, <1>w DEF LoadRetirementBlacklist
  <2>3. HandlingInv'
    BY <2>1, <2>2 DEF CredInv, HandlingInv, Handling
  <2> QED BY <2>1, <2>2, <2>3 DEF CredInv, NoRetiredTokenInUse, SnapshotInv, Handling
<1>6. CASE TryAdopt \/ CreateTokenRaw
  <2>1. UNCHANGED <<cred, retired>>
    BY <1>6 DEF TryAdopt, CreateTokenRaw
  <2>2. /\ worker.stage \in {"adopt", "create", "readopt"}
        /\ worker'.stage \in {"create", "readopt", "key"}
        /\ worker'.rows = worker.rows /\ worker'.group = worker.group
        /\ worker'.black = worker.black
        /\ worker'.stage = "key" => worker'.token \notin worker.black
    BY <1>6, <1>w DEF TryAdopt, CreateTokenRaw, Matches
  <2>3. HandlingInv'
    BY <2>1, <2>2 DEF CredInv, HandlingInv, Handling
  <2> QED BY <2>1, <2>2, <2>3 DEF CredInv, NoRetiredTokenInUse, SnapshotInv, Handling
<1>7. CASE Activate
  <2> DEFINE g == worker.group
  <2>1. worker.stage = "key" /\ g \in Groups /\ UNCHANGED retired
    BY <1>7, <1>c DEF Activate
  <2>2. /\ cred'[g].token = worker.token
        /\ \A h \in Groups \ {g} : cred'[h] = cred[h]
    BY <1>7, <1>a, <2>1 DEF Activate, SetCred
  <2>3. worker'.stage = "rows" /\ worker'.rows = worker.rows
    BY <1>7 DEF Activate, NextRow
  <2>4. worker.token \notin retired[g]
    BY <1>a, <2>1 DEF CredInv, HandlingInv, Handling, NoToken, Tokens
  <2>5. NoRetiredTokenInUse'
    BY <2>1, <2>2, <2>4 DEF CredInv, NoRetiredTokenInUse
  <2>6. SnapshotInv'
    BY <1>b, <2>1, <2>2, <2>3 DEF CredInv, SnapshotInv, Handling
  <2> QED BY <2>3, <2>5, <2>6 DEF CredInv, HandlingInv, Handling
<1>8. CASE RowFail
  <2>1. worker.group \in Groups /\ RowError(worker.group) /\ UNCHANGED retired
    BY <1>8, <1>c DEF RowFail
  <2> QED BY <2>1, RowErrorGentle, GentleStep
<1>9. CASE TellMismatch
  <2>1. UNCHANGED retired /\ worker'.stage = "rows" /\ worker'.rows = worker.rows
    BY <1>9 DEF TellMismatch, NextRow
  <2>2. Gentle
    BY <1>9, <1>a, <1>c DEF TellMismatch, Gentle, CredentialRecords
  <2> QED BY <2>1, <2>2, GentleStep DEF Handling
<1> QED
  BY <1>1, <1>2, <1>3, <1>4, <1>5, <1>6, <1>7, <1>8, <1>9 DEF WorkerStep

LEMMA CredInvStep ==
    ASSUME CredentialsTypeOK, CredInv, [CredentialsNext]_vars
    PROVE  CredInv'
<1>1. CASE \/ \E g \in Groups :
                  EnsureRuntimeCredential(g) \/ Revive(g) \/ Regroup(g)
                    \/ MarkCredentialInvalid(g) \/ RotateRuntimeCredential(g)
           \/ \E c \in Calls : DisableRuntimeCredentialsForUser(c)
           \/ UNCHANGED credVars
  BY <1>1, RequestsGentle, GentleStep
<1>2. CASE WorkerStep
  BY <1>2, WorkerInvStep
<1>3. CASE WorkerStop \/ Crash
  <2>1. UNCHANGED <<cred, retired>> /\ worker' = NoWork
    BY <1>3 DEF WorkerStop, Crash, tableVars
  <2>2. Gentle
    BY <2>1 DEF Gentle, CredentialsTypeOK
  <2> QED BY <2>1, <2>2, GentleStep DEF NoWork, Handling
<1>4. CASE UNCHANGED vars
  BY <1>1, <1>4 DEF vars
<1> QED BY <1>1, <1>2, <1>3, <1>4 DEF CredentialsNext

\* A retired token is never the token of an active credential.
THEOREM RetiredNeverInUse == CredentialsSafetySpec => []NoRetiredTokenInUse
<1>1. CredentialsInit => CredInv
  BY DEF CredentialsInit, CredInv, NoRetiredTokenInUse, SnapshotInv, HandlingInv, Handling,
     NoWork
<1>2. CredentialsTypeOK /\ CredInv /\ [CredentialsNext]_vars => CredInv'
  BY CredInvStep
<1>3. CredInv => NoRetiredTokenInUse
  BY DEF CredInv
<1> QED BY <1>1, <1>2, <1>3, CredentialsTypeCorrect, PTL DEF CredentialsSafetySpec

-----------------------------------------------------------------------------
(* The worker and disabled credentials.                                    *)

\* The worker never brings a disabled credential back: only requests of an
\* enabled user and rotations do.
THEOREM WorkerRevivesNothing == CredentialsSafetySpec => WorkerNeverRevives
<1> DEFINE Revival ==
             \A g \in Groups :
                cred[g].status = "disabled" /\ cred'[g].status # "disabled"
                    => worker' = worker
<1>1. ASSUME CredentialsTypeOK, [CredentialsNext]_vars PROVE [Revival]_vars
  <2>a. cred \in [Groups -> CredentialRecords]
    BY <1>1 DEF CredentialsTypeOK
  <2>b. UNCHANGED cred => Revival
    OBVIOUS
  <2>1. CASE WorkerStep
    <3>1. CASE RowNext
      <4>1. PICK r \in worker.rows :
              \/ UNCHANGED cred
              \/ cred' = [cred EXCEPT ![r.group] = Caught(@)]
        BY <3>1 DEF RowNext
      <4> QED BY <2>a, <4>1, CaughtType
    <3>2. CASE ResetInvalid
      BY <2>a, <3>2, CaughtType DEF ResetInvalid, RowError
    <3>3. CASE Activate
      BY <2>a, <3>3 DEF Activate, SetCred, CredentialRecords
    <3>4. CASE RowFail
      BY <2>a, <3>4, CaughtType DEF RowFail, RowError
    <3>5. CASE WorkerStart \/ RetireNext \/ DisableKey \/ RetireFail \/ RowsStart
               \/ LoadRetirementBlacklist \/ TryAdopt \/ CreateTokenRaw \/ RowsDone
      BY <2>b, <3>5 DEF WorkerStart, RetireNext, DisableKey, RetireFail, RowsStart,
         LoadRetirementBlacklist, TryAdopt, CreateTokenRaw, RowsDone, tableVars
    <3>6. CASE TellMismatch
      BY <2>a, <3>6 DEF TellMismatch, CredentialRecords
    <3> QED BY <2>1, <3>1, <3>2, <3>3, <3>4, <3>5, <3>6 DEF WorkerStep
  <2>2. CASE WorkerStop \/ Crash
    BY <2>b, <2>2 DEF WorkerStop, Crash, tableVars
  <2>3. CASE \/ \E g \in Groups :
                    EnsureRuntimeCredential(g) \/ Revive(g) \/ Regroup(g)
                      \/ MarkCredentialInvalid(g) \/ RotateRuntimeCredential(g)
             \/ \E c \in Calls : DisableRuntimeCredentialsForUser(c)
             \/ UNCHANGED credVars
    BY <1>1, <2>3, RequestsGentle
  <2> QED BY <1>1, <2>1, <2>2, <2>3 DEF CredentialsNext, vars
<1>2. CredentialsTypeOK /\ [CredentialsNext]_vars => [Revival]_vars
  BY <1>1
<1> QED BY <1>2, CredentialsTypeCorrect, PTL DEF CredentialsSafetySpec, WorkerNeverRevives
=============================================================================
