---------------------------- MODULE Credentials -----------------------------
(***************************************************************************)
(* Runtime credentials (src/src/features/gateway/server/credentials.ts):   *)
(* for each New API group a user calls, the token the gateway uses there.  *)
(* Requests ask for a credential and report it as refused; one background  *)
(* worker disables retired tokens at New API and finds or creates tokens   *)
(* for the rows that wait for one; administrators disable the user.        *)
(*                                                                         *)
(* The worker runs ensurePortalUserBinding of UserBinding as the call      *)
(* Worker.  New API numbers the tokens it creates.  The process-local      *)
(* cache of keys is left out.                                              *)
(***************************************************************************)
EXTENDS UserBinding, FiniteSets

CONSTANTS
    Groups,       \* New API groups of the user's credentials
    Worker,       \* the call made by the worker
    MaxTokens,    \* bound: tokens New API can create
    MaxUpsets     \* bound: refused keys, rotations and edits at New API

ASSUME CredentialsAssumption ==
    Worker \in Calls /\ MaxTokens \in Nat /\ MaxUpsets \in Nat

VARIABLES
    cred,         \* runtime_credential: status, newapi_token_id and whether
                  \* last_error tells of a mismatch of tokens
    retired,      \* credential_retirement: tokens of each credential
    retiredDone,  \* those with disabled_at
    created,      \* number of tokens New API has created
    enabled,      \* enabled tokens at New API with the credential's name
    regrouped,    \* tokens whose group was changed at New API
    reviving,     \* requests that have found a disabled row of an enabled user
    worker,       \* what the worker has read and where it stands
    upsets        \* number of upsets so far

tableVars  == <<cred, retired, retiredDone>>
remoteVars == <<created, enabled, regrouped>>
credVars   == <<tableVars, remoteVars, reviving, worker, upsets>>
vars       == <<bridgeVars, credVars>>

NoToken == 0
Tokens  == 1..MaxTokens

CredentialStatuses == {"absent", "pending", "active", "invalid", "disabled"}

\*   retire    between two retirements
\*   retiring  processRetirement waits for the binding, or for New API
\*   rows      between two rows
\*   reset     the token of an invalid row is retired, the row not reset yet
\*   binding   processCredential waits for the binding
\*   adopt     tryAdopt, the first time
\*   create    no token was found
\*   readopt   tryAdopt after createTokenRaw
\*   key       one token was found, its key is fetched
WorkerStages ==
    {"idle", "retire", "retiring", "rows", "reset", "binding", "adopt", "create",
     "readopt", "key"}

CredentialRecords ==
    [status : CredentialStatuses, token : Tokens \cup {NoToken}, mismatched : BOOLEAN]
Snapshots ==
    [group : Groups, status : {"pending", "invalid"}, token : Tokens \cup {NoToken}]

\* todo and rows are what the worker read at the start of each half of its
\* pass, group and token the entry it works on, black the tokens it must not
\* adopt.
WorkRecords ==
    [stage : WorkerStages, todo : SUBSET (Groups \X Tokens), rows : SUBSET Snapshots,
     group : Groups \cup {"none"}, token : Tokens \cup {NoToken},
     black : SUBSET Tokens]

NoWork ==
    [stage |-> "idle", todo |-> {}, rows |-> {},
     group |-> "none", token |-> NoToken, black |-> {}]

CredentialsInit ==
    /\ BindingInit
    /\ cred = [g \in Groups |-> [status |-> "absent", token |-> NoToken, mismatched |-> FALSE]]
    /\ retired = [g \in Groups |-> {}]
    /\ retiredDone = [g \in Groups |-> {}]
    /\ created = 0
    /\ enabled = [g \in Groups |-> {}]
    /\ regrouped = {}
    /\ reviving = {}
    /\ worker = NoWork
    /\ upsets = 0

Upset == upsets < MaxUpsets /\ upsets' = upsets + 1

SetCred(g, status, token) ==
    cred' = [cred EXCEPT ![g] = [status |-> status, token |-> token, mismatched |-> FALSE]]

\* At most one retirement for a credential and a token.
EnqueueRetirement(g, token) ==
    retired' = [retired EXCEPT ![g] = @ \cup ({token} \ {NoToken})]

-----------------------------------------------------------------------------
(* Requests and administrators.                                            *)

\* ensureRuntimeCredential without a row, or up to the write that lets a
\* disabled credential wait for a token again.
EnsureRuntimeCredential(g) ==
    /\ \/ /\ cred[g].status = "absent"
          /\ SetCred(g, "pending", NoToken)
          /\ UNCHANGED reviving
       \/ /\ cred[g].status = "disabled" /\ binding # "disabled"
          /\ reviving' = reviving \cup {g}
          /\ UNCHANGED cred
    /\ UNCHANGED <<bridgeVars, retired, retiredDone, remoteVars, worker, upsets>>

\* That write; other requests may be about to do the same.
Revive(g) ==
    /\ g \in reviving
    /\ reviving' \in {reviving, reviving \ {g}}
    /\ IF cred[g].status = "disabled"
       THEN cred' = [cred EXCEPT ![g].status = "pending", ![g].mismatched = FALSE]
       ELSE UNCHANGED cred
    /\ UNCHANGED <<bridgeVars, retired, retiredDone, remoteVars, worker, upsets>>

\* New API answered 401 or 403 to some request, perhaps with an older key.
MarkCredentialInvalid(g) ==
    /\ cred[g].status \in {"active", "invalid"}
    /\ Upset
    /\ cred' = [cred EXCEPT ![g].status = "invalid", ![g].mismatched = FALSE]
    /\ UNCHANGED <<bridgeVars, retired, retiredDone, remoteVars, reviving, worker>>

RotateRuntimeCredential(g) ==
    /\ cred[g].status # "absent"
    /\ Upset
    /\ EnqueueRetirement(g, cred[g].token)
    /\ SetCred(g, "pending", NoToken)
    /\ UNCHANGED <<bridgeVars, retiredDone, remoteVars, reviving, worker>>

\* Somebody moves a token to another group in New API's own pages.
Regroup(g) ==
    /\ Upset
    /\ \E t \in enabled[g] \ regrouped : regrouped' = regrouped \cup {t}
    /\ UNCHANGED <<bridgeVars, tableVars, created, enabled, reviving, worker>>

\* The second half of disableNewapiUserBindingForAdmin, in one transaction.
DisableRuntimeCredentialsForUser(c) ==
    /\ call[c].stage = "disabling"
    /\ retired' = [g \in Groups |-> retired[g] \cup ({cred[g].token} \ {NoToken})]
    /\ cred' = [g \in Groups |->
                  IF cred[g].status = "absent" THEN cred[g]
                  ELSE [cred[g] EXCEPT !.status = "disabled", !.token = NoToken]]
    /\ Finish(c, "idle", "none")
    /\ UNCHANGED <<bindingVars, faults, retiredDone, remoteVars, reviving, worker, upsets>>

-----------------------------------------------------------------------------
(* The worker: retirements first.                                          *)

WorkerAt(stage) == worker.stage = stage

\* The binding of the call is there and New API accepts its access token.
Authorized == call[Worker].stage = "bound" /\ call[Worker].token = "valid"

\* ensurePortalUserBinding has thrown, or New API answers 401.
Unauthorized ==
    \/ call[Worker].stage = "refused"
    \/ call[Worker].stage = "bound" /\ call[Worker].token = "stale"

WaitForBinding == call' = [call EXCEPT ![Worker].stage = "read"]
CallIdle == Finish(Worker, "idle", "none")

WorkerStart ==
    /\ WorkerAt("idle")
    /\ worker' = [NoWork EXCEPT !.stage = "retire",
                    !.todo = {w \in Groups \X Tokens :
                                w[2] \in retired[w[1]] \ retiredDone[w[1]]}]
    /\ UNCHANGED <<bridgeVars, tableVars, remoteVars, reviving, upsets>>

RetireNext ==
    /\ WorkerAt("retire")
    /\ \E w \in worker.todo :
          worker' = [worker EXCEPT !.stage = "retiring", !.todo = @ \ {w},
                                   !.group = w[1], !.token = w[2]]
    /\ WaitForBinding
    /\ UNCHANGED <<bindingVars, faults, tableVars, remoteVars, reviving, upsets>>

\* Retirements are not carried out at New API before they are marked.
MarkRetiredOnly ==
    /\ WorkerAt("retiring") /\ Authorized
    /\ retiredDone' = [retiredDone EXCEPT ![worker.group] = @ \cup {worker.token}]
    /\ worker' = [NoWork EXCEPT !.stage = "retire", !.todo = worker.todo]
    /\ CallIdle
    /\ UNCHANGED <<bindingVars, faults, cred, retired, remoteVars, reviving, upsets>>

\* disableKey, and the retirement is marked.
DisableKey ==
    /\ WorkerAt("retiring") /\ Authorized
    /\ enabled' = [enabled EXCEPT ![worker.group] = @ \ {worker.token}]
    /\ retiredDone' = [retiredDone EXCEPT ![worker.group] = @ \cup {worker.token}]
    /\ worker' = [NoWork EXCEPT !.stage = "retire", !.todo = worker.todo]
    /\ CallIdle
    /\ UNCHANGED <<bindingVars, faults, cred, retired, created, regrouped, reviving, upsets>>

\* The binding is refused, the access token void, New API or the database
\* fails, perhaps after the token has been disabled.
RetireFail ==
    /\ WorkerAt("retiring")
    /\ \/ /\ Unauthorized
          /\ UNCHANGED <<enabled, faults>>
       \/ /\ Authorized /\ Fault
          /\ enabled' \in {enabled, [enabled EXCEPT ![worker.group] = @ \ {worker.token}]}
    /\ worker' = [NoWork EXCEPT !.stage = "retire", !.todo = worker.todo]
    /\ CallIdle
    /\ UNCHANGED <<bindingVars, tableVars, created, regrouped, reviving, upsets>>

\* Rows that wait for their first token are forgotten.
RowsInvalidOnly ==
    /\ WorkerAt("retire") /\ worker.todo = {}
    /\ worker' = [NoWork EXCEPT !.stage = "rows",
                    !.rows = {[group |-> g, status |-> cred[g].status, token |-> cred[g].token] :
                                g \in {h \in Groups : cred[h].status = "invalid"}}]
    /\ UNCHANGED <<bridgeVars, tableVars, remoteVars, reviving, upsets>>

RowsStart ==
    /\ WorkerAt("retire") /\ worker.todo = {}
    /\ worker' = [NoWork EXCEPT !.stage = "rows",
                    !.rows = {[group |-> g, status |-> cred[g].status, token |-> cred[g].token] :
                                g \in {h \in Groups : cred[h].status \in {"pending", "invalid"}}}]
    /\ UNCHANGED <<bridgeVars, tableVars, remoteVars, reviving, upsets>>

-----------------------------------------------------------------------------
(* The worker: then the rows that wait for a token.                        *)

NextRow(stage) == [NoWork EXCEPT !.stage = stage, !.rows = worker.rows]

\* The catch block of the loop: a row that tells of a mismatch keeps what it
\* says, and a disabled one is left alone.
Caught(row) ==
    IF row.status \in {"pending", "invalid"} /\ ~row.mismatched
    THEN [row EXCEPT !.status = "pending"] ELSE row
RowError(g) ==
    /\ cred' = [cred EXCEPT ![g] = Caught(@)]
    /\ worker' = NextRow("rows")

\* The token of an invalid row is retired before the row is reset; a database
\* error on the way ends in the catch block.
RowNext ==
    /\ WorkerAt("rows")
    /\ \E r \in worker.rows :
          LET Take(stage) ==
                worker' = [worker EXCEPT !.stage = stage, !.rows = @ \ {r},
                                         !.group = r.group, !.token = r.token]
          IN  \/ /\ r.status = "pending"
                 /\ Take("binding") /\ WaitForBinding
                 /\ UNCHANGED <<cred, retired, faults>>
              \/ /\ r.status = "invalid"
                 /\ Take("reset") /\ EnqueueRetirement(r.group, r.token)
                 /\ UNCHANGED <<call, cred, faults>>
              \/ /\ r.status = "invalid" /\ Fault
                 /\ cred' = [cred EXCEPT ![r.group] = Caught(@)]
                 /\ worker' = [worker EXCEPT !.rows = @ \ {r}]
                 /\ UNCHANGED <<call, retired>>
    /\ UNCHANGED <<bindingVars, retiredDone, remoteVars, reviving, upsets>>

\* A row that is no longer pending or invalid is left alone.
ResetInvalid ==
    /\ WorkerAt("reset")
    /\ LET g == worker.group
       IN  \/ /\ cred[g].status \in {"pending", "invalid"}
              /\ cred' = [cred EXCEPT ![g].status = "pending", ![g].token = NoToken]
              /\ worker' = [worker EXCEPT !.stage = "binding"]
              /\ WaitForBinding
              /\ UNCHANGED faults
           \/ /\ cred[g].status \notin {"pending", "invalid"}
              /\ worker' = NextRow("rows")
              /\ UNCHANGED <<cred, call, faults>>
           \/ /\ Fault
              /\ RowError(g)
              /\ UNCHANGED call
    /\ UNCHANGED <<bindingVars, retired, retiredDone, remoteVars, reviving, upsets>>

\* Only what has been disabled at New API is left out of the candidates.
LoadDoneBlacklist ==
    /\ WorkerAt("binding") /\ Authorized
    /\ worker' = [worker EXCEPT !.stage = "adopt", !.black = retiredDone[worker.group]]
    /\ UNCHANGED <<bridgeVars, tableVars, remoteVars, reviving, upsets>>

\* The runtime pool is ready; the token the row had is not adopted again.
LoadRetirementBlacklist ==
    /\ WorkerAt("binding") /\ Authorized
    /\ worker' = [worker EXCEPT !.stage = "adopt",
                    !.black = retired[worker.group] \cup ({worker.token} \ {NoToken})]
    /\ UNCHANGED <<bridgeVars, tableVars, remoteVars, reviving, upsets>>

\* findTokensByNameExact without disabled and blacklisted tokens.
Matches == enabled[worker.group] \ worker.black

\* The one match, in the right group; without a match a token is created once.
TryAdopt ==
    /\ worker.stage \in {"adopt", "readopt"} /\ Authorized
    /\ \/ \E t \in Matches \ regrouped :
             /\ Matches = {t}
             /\ worker' = [worker EXCEPT !.stage = "key", !.token = t]
       \/ /\ WorkerAt("adopt") /\ Matches = {}
          /\ worker' = [worker EXCEPT !.stage = "create"]
    /\ UNCHANGED <<bridgeVars, tableVars, remoteVars, reviving, upsets>>

NewToken ==
    /\ created < MaxTokens
    /\ created' = created + 1
    /\ enabled' = [enabled EXCEPT ![worker.group] = @ \cup {created + 1}]

CreateTokenRaw ==
    /\ WorkerAt("create") /\ Authorized
    /\ NewToken
    /\ worker' = [worker EXCEPT !.stage = "readopt"]
    /\ UNCHANGED <<bridgeVars, tableVars, regrouped, reviving, upsets>>

\* The row is activated whatever has happened to it.
ActivateAny ==
    /\ WorkerAt("key") /\ Authorized
    /\ SetCred(worker.group, "active", worker.token)
    /\ worker' = NextRow("rows")
    /\ CallIdle
    /\ UNCHANGED <<bindingVars, faults, retired, retiredDone, remoteVars, reviving, upsets>>

\* getTokenKey, and the row becomes active if it is still pending.
Activate ==
    /\ WorkerAt("key") /\ Authorized
    /\ cred[worker.group].status = "pending"
    /\ SetCred(worker.group, "active", worker.token)
    /\ worker' = NextRow("rows")
    /\ CallIdle
    /\ UNCHANGED <<bindingVars, faults, retired, retiredDone, remoteVars, reviving, upsets>>

Mismatch == Matches # {} /\ ~\E t \in Matches \ regrouped : Matches = {t}

\* The mismatch is written to the row, whatever has become of it.
TellMismatch ==
    /\ worker.stage \in {"adopt", "readopt"} /\ Authorized /\ Mismatch
    /\ cred' = [cred EXCEPT ![worker.group].mismatched = TRUE]
    /\ worker' = NextRow("rows")
    /\ CallIdle
    /\ UNCHANGED <<bindingVars, faults, retired, retiredDone, remoteVars, reviving, upsets>>

\* No binding, a void access token, a row that is no longer pending, a created
\* token that is not found, or a fault; a creation may succeed without the
\* worker knowing.
RowFail ==
    /\ worker.stage \in {"binding", "adopt", "create", "readopt", "key"}
    /\ \/ /\ \/ Unauthorized
             \/ WorkerAt("readopt") /\ Matches = {}
             \/ WorkerAt("key") /\ cred[worker.group].status # "pending"
          /\ UNCHANGED <<faults, created, enabled>>
       \/ /\ Authorized /\ Fault
          /\ UNCHANGED <<created, enabled>>
       \/ /\ WorkerAt("create") /\ Authorized /\ Fault
          /\ NewToken
    /\ RowError(worker.group)
    /\ CallIdle
    /\ UNCHANGED <<bindingVars, retired, retiredDone, regrouped, reviving, upsets>>

RowsDone ==
    /\ WorkerAt("rows") /\ worker.rows = {}
    /\ worker' = NoWork
    /\ UNCHANGED <<bridgeVars, tableVars, remoteVars, reviving, upsets>>

\* keepAlive reports that the job lock is lost.
WorkerStop ==
    /\ worker.stage \in {"retire", "rows"}
    /\ Fault
    /\ worker' = NoWork
    /\ UNCHANGED <<bindingVars, call, tableVars, remoteVars, reviving, upsets>>

\* The process stops and starts again.
Crash ==
    /\ Fault
    /\ call' = [c \in Calls |-> NoCall]
    /\ worker' = NoWork
    /\ reviving' = {}
    /\ UNCHANGED <<bindingVars, tableVars, remoteVars, upsets>>

-----------------------------------------------------------------------------
WorkerStep ==
    \/ WorkerStart \/ RetireNext \/ DisableKey \/ RetireFail
    \/ RowsStart \/ RowNext \/ ResetInvalid \/ LoadRetirementBlacklist
    \/ TryAdopt \/ CreateTokenRaw \/ Activate \/ TellMismatch \/ RowFail \/ RowsDone

CredentialsNext ==
    \/ \E g \in Groups :
          \/ EnsureRuntimeCredential(g) \/ Revive(g) \/ Regroup(g)
          \/ MarkCredentialInvalid(g) \/ RotateRuntimeCredential(g)
    \/ \E c \in Calls \ {Worker} :
          \/ BindingStep(c) /\ UNCHANGED credVars
          \/ DisableRuntimeCredentialsForUser(c)
    \/ EnsureStep(Worker) /\ UNCHANGED credVars
    \/ WorkerStep \/ WorkerStop \/ Crash

WorkerProgress == WorkerStep \/ (EnsureStep(Worker) /\ UNCHANGED credVars)

CredentialsSafetySpec == CredentialsInit /\ [][CredentialsNext]_vars

(***************************************************************************)
(* The job loop runs the worker every five seconds, and its remote calls   *)
(* time out.  Nothing is assumed of requests and administrators; a call of *)
(* theirs may hang for ever.                                               *)
(***************************************************************************)
CredentialsSpec == CredentialsSafetySpec /\ WF_vars(WorkerProgress)

-----------------------------------------------------------------------------
CredentialsTypeOK ==
    /\ BindingTypeOK
    /\ cred \in [Groups -> CredentialRecords]
    /\ retired \in [Groups -> SUBSET Tokens]
    /\ retiredDone \in [Groups -> SUBSET Tokens]
    /\ created \in 0..MaxTokens
    /\ enabled \in [Groups -> SUBSET Tokens]
    /\ regrouped \subseteq Tokens
    /\ reviving \subseteq Groups
    /\ worker \in WorkRecords
    /\ worker.stage \notin {"idle", "retire", "rows"} => worker.group \in Groups
    /\ worker.stage = "retiring" => worker.token \in Tokens
    /\ upsets \in 0..MaxUpsets

(***************************************************************************)
(* "A retired token must not be used again" (requirements, section 8): no  *)
(* active credential has a token that was retired, however refusals,       *)
(* rotations, disables and restores fall between the worker's reads and    *)
(* its writes.                                                             *)
(***************************************************************************)
NoRetiredTokenInUse ==
    \A g \in Groups : cred[g].status = "active" => cred[g].token \notin retired[g]

\* A worker that is creating a token when its user is disabled does not bring
\* the credential back (tests/gateway/credentials.test.ts): only requests and
\* rotations do.
WorkerNeverRevives ==
    [][\A g \in Groups :
          cred[g].status = "disabled" /\ cred'[g].status # "disabled"
              => worker' = worker]_vars

\* New API can be reached on behalf of the user.
Steady == binding = "active" /\ access = "valid"

\* Every retired token is disabled at New API in the end, over failures, crashes
\* and lost locks, if the binding works from some time on.
RetirementsEnd ==
    <>[]Steady =>
        \A g \in Groups, t \in Tokens :
            t \in retired[g] ~> t \in retiredDone[g] /\ t \notin enabled[g]

\* Likewise every credential that waits for a token gets one, unless one of its
\* tokens was moved to another group.
PendingEnds ==
    <>[]Steady =>
        \A g \in Groups :
            cred[g].status = "pending"
                ~> cred[g].status # "pending" \/ enabled[g] \cap regrouped # {}

-----------------------------------------------------------------------------
(***************************************************************************)
(* "A disabled user's token is retired; the worker disables it at New API  *)
(* afterwards" (tests/gateway/credentials.test.ts), as long as the access  *)
(* token works.                                                            *)
(***************************************************************************)
UserTokensDisabled ==
    \A g \in Groups, t \in Tokens :
        t \in retired[g] ~> t \in retiredDone[g] \/ access = "stale"
=============================================================================
