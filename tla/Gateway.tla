------------------------------ MODULE Gateway -------------------------------
(***************************************************************************)
(* The synchronous data plane of the gateway: the request handler of       *)
(* src/src/features/gateway/server/handler.ts with the background workers  *)
(* and administrators that write the same rows.                            *)
(*                                                                         *)
(*   handler    one per request; every await is a point where the other    *)
(*              processes may run, so each action below ends at one        *)
(*   usage worker       (backfill.ts)   closes rows whose handler is gone  *)
(*   reconcile worker   (reconcile.ts)  replays New API's usage log        *)
(*   recharge, adjustment, freeze       payments and administrators        *)
(*   Crash              the Node process stops: memory is lost, SQLite is  *)
(*                      not                                                *)
(*                                                                         *)
(* persistTerminal repeats a failing database write and then gives up.     *)
(* A failed attempt leaves no trace, so the repetitions are one step that  *)
(* either succeeds or gives up.                                            *)
(***************************************************************************)
EXTENDS RequestLedger

CONSTANTS
    LegacyRows,      \* requests that enter the model as old pending rows
    PerCall,         \* requests priced per call or duration, not by token
    MaxInflight,     \* config.maxInflight of the process
    Orders,          \* paid orders that will reach the wallet
    Payer,           \* the user of each order
    RechargeAmount,  \* the amount of each order
    AdjustmentKeys,  \* idempotency keys of administrators' adjustments
    AdjustmentAmounts, \* what an adjustment may give or take
    MaxDebit,        \* the most one adjustment may take
    MaxCrashes,      \* bound: how often the process stops
    Nothing          \* the reconcile worker is between two log entries

ASSUME GatewayAssumption ==
    /\ LegacyRows \subseteq Requests
    /\ PerCall \subseteq Requests
    /\ MaxInflight \in Nat \ {0}
    /\ Payer \in [Orders -> Users]
    /\ RechargeAmount \in Nat \ {0}
    /\ MaxDebit \in Nat
    /\ \A amount \in AdjustmentAmounts : amount \in Int /\ -MaxDebit <= amount
    /\ MaxCrashes \in Nat
    /\ Nothing \notin Requests \cup RequestIds
    /\ Requests \cap RequestIds = {}
    /\ \A u \in Users :
          Cardinality({r \in LegacyRows : Owner[r] = u}) <= RiskLimit

VARIABLES
    pc,        \* where each handler is
    held,      \* the handler owns an in-flight slot (its cleaned flag, negated)
    inflight,  \* the module variable inflight
    answer,    \* the response of New API: the id header and the outcome
    usage,     \* the charge its complete usage or delivered units are worth
    logs,      \* ids in New API's usage log
    recon,     \* what the reconcile worker has decided to write: the row it
               \* will waive, or the id it found no row for
    orphans,   \* reconcile_orphan_observation
    crashes    \* number of stops so far

handlerVars == <<pc, held, inflight, answer, usage>>
workerVars  == <<logs, recon, orphans>>
vars == <<walletVars, requestVars, handlerVars, workerVars, crashes>>

Outcomes == {"ok", "unauthorized", "error"}
NoAnswer == [id |-> NoId, outcome |-> "error"]

\*   auth        slot taken, authenticate pending
\*   ready       wallet and key accepted; body, route, credential resolved
\*   forwarding  row inserted, New API called
\*   responded   response headers received, capture pending
\*   rejecting   early exit after admission: failed write, then cleanup
\*   passing     upstream error: failed write, then its body is relayed
\*   relaying    that body is being relayed, nothing left to write
\*   streaming   a successful body is being relayed and parsed
\*   empty       finalize of a response without a body, still inside the try
\*   returning   ... whose Response object is being built
\*   marking     finalize decided not to bill: slot released, write pending
\*   settle      finalize decided to bill: slot released, row not read yet
\*   settling    settleRow has read an unresolved row
HandlerStates == {"idle", "auth", "ready", "forwarding", "responded",
    "rejecting", "passing", "relaying", "streaming", "empty", "returning",
    "marking", "settle", "settling", "done", "dead"}

HandlerGone(r) == pc[r] \in {"done", "dead"}
Running(r) == pc[r] \notin {"idle", "done", "dead"}

GatewayInit ==
    /\ WalletInit
    /\ status = [r \in Requests |->
                    IF r \in LegacyRows THEN "pending_backfill" ELSE "absent"]
    /\ newapiRequestId \in [Requests -> RequestIds \cup {NoId}]
    /\ \A r \in Requests \ LegacyRows : newapiRequestId[r] = NoId
    /\ OneRowPerUpstreamCall
    /\ charged = [r \in Requests |-> 0]
    /\ pc = [r \in Requests |-> IF r \in LegacyRows THEN "done" ELSE "idle"]
    /\ held = [r \in Requests |-> FALSE]
    /\ inflight = 0
    /\ answer = [r \in Requests |-> NoAnswer]
    /\ usage = [r \in Requests |-> 0]
    /\ logs = {}
    /\ recon = Nothing
    /\ orphans = {}
    /\ crashes = 0

-----------------------------------------------------------------------------
(* Control of one handler.                                                 *)

Goto(r, state) == pc' = [pc EXCEPT ![r] = state]

\* The cleaned flag is forgotten.
CleanupTwice(r) ==
    /\ held' = [held EXCEPT ![r] = FALSE]
    /\ inflight' = IF inflight > 0 THEN inflight - 1 ELSE 0

\* cleanup() returns at once when it has run before.
Cleanup(r) ==
    /\ held' = [held EXCEPT ![r] = FALSE]
    /\ inflight' = IF held[r] /\ inflight > 0 THEN inflight - 1 ELSE inflight

\* terminal(() => markFailed(...)): writes, or gives up after the retries.
MarkOrGiveUp(r) ==
    \/ MarkFailedUnbilled(r)
    \/ UNCHANGED requestVars

\* tryAcquire, or 429 concurrency_limit_exceeded.
Enter(r) ==
    /\ pc[r] = "idle"
    /\ IF inflight < MaxInflight
       THEN /\ Goto(r, "auth")
            /\ held' = [held EXCEPT ![r] = TRUE]
            /\ inflight' = inflight + 1
       ELSE /\ Goto(r, "done")
            /\ UNCHANGED <<held, inflight>>
    /\ UNCHANGED <<walletVars, requestVars, answer, usage, workerVars, crashes>>

\* The wallet is not consulted.
AuthenticateAnyone(r) ==
    /\ pc[r] = "auth"
    /\ Goto(r, "ready")
    /\ UNCHANGED <<walletVars, requestVars, held, inflight, answer, usage,
                   workerVars, crashes>>

\* authenticateGatewayRequest reads the wallet once: frozen is 403 and an
\* empty balance 429.  What follows (body, route, credential) takes time and
\* does not read it again.
Authenticate(r) ==
    /\ pc[r] = "auth"
    /\ Spendable(Owner[r])
    /\ Goto(r, "ready")
    /\ UNCHANGED <<walletVars, requestVars, held, inflight, answer, usage,
                   workerVars, crashes>>

\* Every refusal before admission, and an exception there: bad key, empty or
\* frozen wallet, body, model, pending or disabled credential, risk slots.
EarlyReturn(r) ==
    /\ pc[r] \in {"auth", "ready"}
    /\ Goto(r, "done")
    /\ Cleanup(r)
    /\ UNCHANGED <<walletVars, requestVars, answer, usage, workerVars, crashes>>

Admit(r) ==
    /\ pc[r] = "ready"
    /\ AdmitRequest(r)
    /\ Goto(r, "forwarding")
    /\ UNCHANGED <<walletVars, held, inflight, answer, usage, workerVars,
                   crashes>>

\* Connection failure, first-byte or hard timeout, client abort, exception.
NoResponse(r) ==
    /\ pc[r] = "forwarding"
    /\ Goto(r, "rejecting")
    /\ UNCHANGED <<walletVars, requestVars, held, inflight, answer, usage,
                   workerVars, crashes>>

Respond(r) ==
    /\ pc[r] = "forwarding"
    /\ \E id \in RequestIds \cup {NoId}, outcome \in Outcomes :
          answer' = [answer EXCEPT ![r] = [id |-> id, outcome |-> outcome]]
    /\ Goto(r, "responded")
    /\ UNCHANGED <<walletVars, requestVars, held, inflight, usage, workerVars,
                   crashes>>

\* captureRequestId when the response names its id: it fails on a row that
\* is no longer open, on a repeated id and when the retries run out.  The
\* outcome then decides how the handler goes on; an exception before the
\* body is handed over (marking the credential invalid, say) rejects.
Capture(r) ==
    /\ pc[r] = "responded"
    /\ \/ answer[r].id # NoId /\ CaptureRequestId(r, answer[r].id)
       \/ UNCHANGED requestVars
    /\ \/ Goto(r, "rejecting")
       \/ answer[r].outcome = "error" /\ Goto(r, "passing")
       \/ answer[r].outcome = "ok" /\ Goto(r, "streaming")
    /\ UNCHANGED <<walletVars, held, inflight, answer, usage, workerVars,
                   crashes>>

\* markFailed, then early().
Reject(r) ==
    /\ pc[r] = "rejecting"
    /\ MarkOrGiveUp(r)
    /\ Goto(r, "done")
    /\ Cleanup(r)
    /\ UNCHANGED <<walletVars, answer, usage, workerVars, crashes>>

\* terminalAlreadyWritten: the upstream error is recorded before its body is
\* relayed, and finalize has nothing left to write.
PassError(r) ==
    /\ pc[r] = "passing"
    /\ MarkOrGiveUp(r)
    /\ Goto(r, "relaying")
    /\ UNCHANGED <<walletVars, held, inflight, answer, usage, workerVars,
                   crashes>>

\* finalize returns on terminalAlreadyWritten before it cleans up.
RelayedKeepingSlot(r) ==
    /\ pc[r] = "relaying"
    /\ Goto(r, "done")
    /\ UNCHANGED <<walletVars, requestVars, held, inflight, answer, usage,
                   workerVars, crashes>>

\* Without a body, building the Response may throw into the catch block.
Relayed(r) ==
    /\ pc[r] = "relaying"
    /\ \E next \in {"done", "rejecting"} : Goto(r, next)
    /\ Cleanup(r)
    /\ UNCHANGED <<walletVars, requestVars, answer, usage, workerVars, crashes>>

\* Complete token usage stays valid when the stream breaks later; a per-call
\* request is billed only when its stream ended normally.
Billable(r, worth, aborted) ==
    worth > 0 /\ (r \in PerCall => ~aborted)

\* finalize: the slot is released first, then the decision is taken.
Finalize(r) ==
    /\ pc[r] = "streaming"
    /\ \E worth \in 0..MaxCharge, aborted \in BOOLEAN :
          IF newapiRequestId[r] # NoId /\ Billable(r, worth, aborted)
          THEN /\ Goto(r, "settle")
               /\ usage' = [usage EXCEPT ![r] = worth]
          ELSE /\ Goto(r, "marking")
               /\ UNCHANGED usage
    /\ Cleanup(r)
    /\ UNCHANGED <<walletVars, requestVars, answer, workerVars, crashes>>

\* A response without a body is finalized inside the try block.
FinalizeEmpty(r) ==
    /\ pc[r] = "streaming"
    /\ Goto(r, "empty")
    /\ Cleanup(r)
    /\ UNCHANGED <<walletVars, requestVars, answer, usage, workerVars, crashes>>

WriteEmpty(r) ==
    /\ pc[r] = "empty"
    /\ MarkOrGiveUp(r)
    /\ Goto(r, "returning")
    /\ UNCHANGED <<walletVars, held, inflight, answer, usage, workerVars,
                   crashes>>

\* Building the Response may throw: the catch block marks the row failed and
\* cleans up once more.
Return(r) ==
    /\ pc[r] = "returning"
    /\ \E next \in {"done", "rejecting"} : Goto(r, next)
    /\ UNCHANGED <<walletVars, requestVars, held, inflight, answer, usage,
                   workerVars, crashes>>

Mark(r) ==
    /\ pc[r] = "marking"
    /\ MarkOrGiveUp(r)
    /\ Goto(r, "done")
    /\ UNCHANGED <<walletVars, held, inflight, answer, usage, workerVars,
                   crashes>>

\* settleRow reads the row: a terminal one is already_finalized.
SettleRead(r) ==
    /\ pc[r] = "settle"
    /\ Goto(r, IF status[r] \in Terminal THEN "done" ELSE "settling")
    /\ UNCHANGED <<walletVars, requestVars, held, inflight, answer, usage,
                   workerVars, crashes>>

\* The transaction settles the row or meets a SettleConflict.
SettleCommit(r) ==
    /\ pc[r] = "settling"
    /\ \/ SettleInTx(r, usage[r])
       \/ /\ status[r] \in Terminal
          /\ UNCHANGED <<walletVars, requestVars>>
    /\ Goto(r, "done")
    /\ UNCHANGED <<held, inflight, answer, usage, workerVars, crashes>>

\* The retries of persistTerminal run out; the row stays open.
SettleGiveUp(r) ==
    /\ pc[r] \in {"settle", "settling"}
    /\ Goto(r, "done")
    /\ UNCHANGED <<walletVars, requestVars, held, inflight, answer, usage,
                   workerVars, crashes>>

-----------------------------------------------------------------------------
(* The workers.                                                            *)

\* Only the old pending rows are collected.
SweepPendingOnly(r) ==
    /\ HandlerGone(r)
    /\ status[r] = "pending_backfill"
    /\ MarkFailedUnbilled(r)
    /\ UNCHANGED <<walletVars, handlerVars, workerVars, crashes>>

\* runUsageWorkerOnce: old pending rows, and open rows older than the hard
\* timeout plus ten minutes.  The hard timer started before the row was
\* inserted and aborts the upstream call, so such a row has no handler left.
Sweep(r) ==
    /\ HandlerGone(r)
    /\ status[r] \in Unresolved
    /\ MarkFailedUnbilled(r)
    /\ UNCHANGED <<walletVars, handlerVars, workerVars, crashes>>

\* New API writes the usage log entry of a call it has answered.
UpstreamLog(r) ==
    /\ \E id \in {answer[r].id, newapiRequestId[r]} \ {NoId} :
          logs' = logs \cup {id}
    /\ UNCHANGED <<walletVars, requestVars, handlerVars, recon, orphans,
                   crashes>>

\* processUsageLog looks the row up by its New API id.  A terminal row only
\* gets observation columns; an unresolved one will be waived.
ReconcileRow(r) ==
    /\ recon = Nothing
    /\ newapiRequestId[r] \in logs
    /\ status[r] \in Unresolved
    /\ recon' = r
    /\ UNCHANGED <<walletVars, requestVars, handlerVars, logs, orphans, crashes>>

\* No row carries the id: recordOrphan looks up the credential of the call
\* and then inserts an observation.
ReconcileOrphan(id) ==
    /\ recon = Nothing
    /\ id \in logs
    /\ \A r \in Requests : newapiRequestId[r] # id
    /\ recon' = id
    /\ UNCHANGED <<walletVars, requestVars, handlerVars, logs, orphans, crashes>>

ReconcileWrite ==
    /\ \/ /\ recon \in Requests
          /\ MarkFailedUnbilled(recon)
          /\ UNCHANGED orphans
       \/ /\ recon \in RequestIds
          /\ orphans' = orphans \cup {recon}
          /\ UNCHANGED requestVars
    /\ recon' = Nothing
    /\ UNCHANGED <<walletVars, handlerVars, logs, crashes>>

-----------------------------------------------------------------------------
(* The rest of the world.                                                  *)

\* updateOrderInTransaction credits a paid order (module Payments).
Recharge(o) ==
    /\ AppendLedgerEntryInTx(Payer[o], "recharge", RechargeAmount, o)
    /\ UNCHANGED <<frozen, requestVars, handlerVars, workerVars, crashes>>

\* applyManualAdjustment: the amount has either sign, a frozen wallet is
\* adjusted like any other and a debit never freezes one (module WalletAdjust).
ApplyManualAdjustment(u, amount, key) ==
    /\ AppendLedgerEntryInTx(u, "manual_adjustment", amount, key)
    /\ UNCHANGED <<frozen, requestVars, handlerVars, workerVars, crashes>>

AdminFreeze(u) ==
    /\ FreezeWallet(u, "manual")
    /\ UNCHANGED <<requestVars, handlerVars, workerVars, crashes>>

AdminUnfreeze(u) ==
    /\ UnfreezeWallet(u)
    /\ UNCHANGED <<requestVars, handlerVars, workerVars, crashes>>

\* Handlers and workers vanish; the counter starts from zero again.
Crash ==
    /\ crashes < MaxCrashes
    /\ \E r \in Requests : Running(r)
    /\ crashes' = crashes + 1
    /\ pc' = [r \in Requests |-> IF Running(r) THEN "dead" ELSE pc[r]]
    /\ held' = [r \in Requests |-> FALSE]
    /\ inflight' = 0
    /\ recon' = Nothing
    /\ UNCHANGED <<walletVars, requestVars, answer, usage, logs, orphans>>

-----------------------------------------------------------------------------
\* The steps a handler takes once it has entered.
HandlerStep(r) ==
    \/ Authenticate(r) \/ EarlyReturn(r) \/ Admit(r)
    \/ NoResponse(r) \/ Respond(r) \/ Capture(r)
    \/ Reject(r) \/ PassError(r) \/ Relayed(r)
    \/ Finalize(r) \/ FinalizeEmpty(r) \/ WriteEmpty(r) \/ Return(r)
    \/ Mark(r) \/ SettleRead(r) \/ SettleCommit(r) \/ SettleGiveUp(r)

\* Payments and administrators.
WalletEvent ==
    \/ \E o \in Orders : Recharge(o)
    \/ \E u \in Users : AdminFreeze(u) \/ AdminUnfreeze(u)
    \/ \E u \in Users, amount \in AdjustmentAmounts, key \in AdjustmentKeys :
          ApplyManualAdjustment(u, amount, key)

GatewayNext ==
    \/ \E r \in Requests :
          Enter(r) \/ HandlerStep(r) \/ Sweep(r) \/ UpstreamLog(r) \/ ReconcileRow(r)
    \/ \E id \in RequestIds : ReconcileOrphan(id)
    \/ ReconcileWrite
    \/ WalletEvent
    \/ Crash

(***************************************************************************)
(* A handler that runs goes on: the event loop serves it, and the first-   *)
(* byte, idle, total and hard timeouts end every wait on New API or on the *)
(* client.  The usage worker runs every tick of the job loop.  Nothing is  *)
(* assumed of clients, payments, administrators, New API's log, the        *)
(* reconcile worker or crashes.                                            *)
(***************************************************************************)
GatewayFairness ==
    \A r \in Requests : WF_vars(HandlerStep(r)) /\ WF_vars(Sweep(r))

GatewaySafetySpec == GatewayInit /\ [][GatewayNext]_vars

GatewaySpec == GatewaySafetySpec /\ GatewayFairness

-----------------------------------------------------------------------------
(* Properties.                                                             *)

\* What a wallet entry other than a charge refers to.
WalletRefs == Orders \cup AdjustmentKeys

TypeOK ==
    /\ WalletTypeOK(Requests \cup WalletRefs)
    /\ RequestTypeOK
    /\ pc \in [Requests -> HandlerStates]
    /\ held \in [Requests -> BOOLEAN]
    /\ inflight \in Nat
    /\ answer \in [Requests -> [id : RequestIds \cup {NoId}, outcome : Outcomes]]
    /\ usage \in [Requests -> 0..MaxCharge]
    /\ logs \subseteq RequestIds
    /\ recon \in Requests \cup RequestIds \cup {Nothing}
    /\ orphans \subseteq RequestIds
    /\ crashes \in 0..MaxCrashes

(***************************************************************************)
(* The in-flight counter is the number of handlers that still own a slot:  *)
(* no path through early(), finalize and the catch block releases twice or *)
(* keeps a slot, and the counter never exceeds the configured maximum.     *)
(***************************************************************************)
InflightExact ==
    /\ inflight = Cardinality({r \in Requests : held[r]})
    /\ inflight <= MaxInflight
    /\ \A r \in Requests : held[r] => Running(r)

(***************************************************************************)
(* How far a wallet can go into debt beyond what administrators took from  *)
(* it.  The wallet is read once, before admission, and a slot of the       *)
(* process is released before the charge is written: the requests that may *)
(* still charge a wallet already used up are those between authentication  *)
(* and admission (at most MaxInflight) and those that hold a risk slot (at *)
(* most RiskLimit).                                                        *)
(***************************************************************************)
Backed(u) == balance[u] + MaxDebit * Cardinality(DebitsOf(u))

OverdraftBounded ==
    \A u \in Users : Backed(u) > -MaxCharge * (MaxInflight + RiskLimit)

(***************************************************************************)
(* Every risk slot is given back: an admitted or legacy row reaches a      *)
(* terminal status although handlers die, streams break and terminal       *)
(* writes are given up.                                                    *)
(***************************************************************************)
RowsConverge ==
    \A r \in Requests : status[r] \in Unresolved ~> status[r] \in Terminal

\* Every in-flight slot is given back whatever path the handler takes.
SlotsReleased == \A r \in Requests : held[r] ~> ~held[r]

-----------------------------------------------------------------------------
(* The promise.                                                            *)

BillOf(r) ==
    CASE status[r] = "absent"          -> "none"
      [] status[r] \in Unresolved      -> "accepted"
      [] status[r] = "settled"         -> "charged"
      [] status[r] = "failed_unbilled" -> "waived"

\* What the wallet ledger, not the request ledger, says was taken for r.
PaidFor(r) ==
    IF ChargesOf(r) = {} THEN 0
    ELSE -walletLedger[Owner[r]][CHOOSE i \in ChargesOf(r) : TRUE].amount

Billing == INSTANCE RequestBilling WITH
    bill <- [r \in Requests |-> BillOf(r)],
    paid <- [r \in Requests |-> PaidFor(r)]

(***************************************************************************)
(* The gateway implements RequestBilling: the status of a row and the      *)
(* wallet entry move in one step, at most once, and no accepted request    *)
(* stays unresolved.                                                       *)
(***************************************************************************)
ImplementsBilling == Billing!BillingSpec

=============================================================================
