---------------------------- MODULE RequestLedger ---------------------------
(***************************************************************************)
(* The request_ledger table and the conditional writes that move one of    *)
(* its rows from admission to a terminal status:                           *)
(*   admitRequest, captureRequestId, markFailedUnbilled                    *)
(*                        (src/src/features/gateway/server/admission.ts)   *)
(*   the transaction of settleRow              (.../server/settlement.ts)  *)
(*                                                                         *)
(* Each operator is one SQLite statement or one SQLite transaction: the    *)
(* database has a single writer, so it is atomic, and it is the only place *)
(* where the callers of Gateway (request handlers, the usage worker, the   *)
(* reconcile worker) meet.                                                 *)
(***************************************************************************)
EXTENDS Wallet

CONSTANTS
    Requests,        \* request ids, preq_<uuid>
    Owner,           \* the portal user whose key sent each request
    RequestIds,      \* ids New API gives to the calls it serves
    NoId,            \* newapi_request_id IS NULL
    RiskLimit,       \* riskSlotLimit, or the user's risk_limit_override
    MaxCharge        \* the dearest priced usage, in micro-USD

ASSUME RequestLedgerAssumption ==
    /\ Owner \in [Requests -> Users]
    /\ IsFiniteSet(Requests)
    /\ NoId \notin RequestIds
    /\ RiskLimit \in Nat
    /\ MaxCharge \in Nat \ {0}

VARIABLES
    status,          \* request_ledger.status, "absent" before the INSERT
    newapiRequestId, \* request_ledger.newapi_request_id
    charged          \* request_ledger.charged_micro_usd, 0 while it is NULL

requestVars == <<status, newapiRequestId, charged>>

\* "pending_backfill" is written by no code of this version; rows of older
\* versions still carry it.
Unresolved == {"open", "pending_backfill"}
Terminal   == {"settled", "failed_unbilled"}
Statuses   == {"absent"} \cup Unresolved \cup Terminal

RiskSlots(u) == {r \in Requests : Owner[r] = u /\ status[r] \in Unresolved}

-----------------------------------------------------------------------------
\* The limit is compared with <= instead of <.
AdmitOneTooMany(r) ==
    /\ status[r] = "absent"
    /\ Cardinality(RiskSlots(Owner[r])) <= RiskLimit
    /\ status' = [status EXCEPT ![r] = "open"]
    /\ UNCHANGED <<newapiRequestId, charged>>

\* INSERT ... SELECT ... WHERE (SELECT COUNT( * ) ...) < limit
AdmitRequest(r) ==
    /\ status[r] = "absent"
    /\ Cardinality(RiskSlots(Owner[r])) < RiskLimit
    /\ status' = [status EXCEPT ![r] = "open"]
    /\ UNCHANGED <<newapiRequestId, charged>>

\* The unique index on newapi_request_id is not there.
CaptureWithoutUniqueIndex(r, id) ==
    /\ status[r] = "open"
    /\ newapiRequestId[r] = NoId
    /\ newapiRequestId' = [newapiRequestId EXCEPT ![r] = id]
    /\ UNCHANGED <<status, charged>>

CaptureRequestId(r, id) ==
    /\ status[r] = "open"
    /\ newapiRequestId[r] = NoId
    /\ \A q \in Requests : newapiRequestId[q] # id
    /\ newapiRequestId' = [newapiRequestId EXCEPT ![r] = id]
    /\ UNCHANGED <<status, charged>>

\* The WHERE clause names the row only.
MarkAnyFailed(r) ==
    /\ status' = [status EXCEPT ![r] = "failed_unbilled"]
    /\ UNCHANGED <<newapiRequestId, charged>>

\* UPDATE ... WHERE status IN ('open', 'pending_backfill'): a row that is
\* already terminal is left as it is.
MarkFailedUnbilled(r) ==
    /\ status' = [status EXCEPT ![r] =
                     IF @ \in Unresolved THEN "failed_unbilled" ELSE @]
    /\ UNCHANGED <<newapiRequestId, charged>>

\* The terminal status commits before, and apart from, the wallet entry.
SettleStatusOnly(r, c) ==
    /\ status[r] \in Unresolved
    /\ status' = [status EXCEPT ![r] = "settled"]
    /\ charged' = [charged EXCEPT ![r] = c]
    /\ UNCHANGED <<newapiRequestId, balance, frozen, walletLedger>>

\* The transaction of settleRow: terminal status, wallet entry, balance and
\* automatic freeze commit together or not at all.
SettleInTx(r, c) ==
    /\ status[r] \in Unresolved
    /\ newapiRequestId[r] # NoId
    /\ status' = [status EXCEPT ![r] = "settled"]
    /\ charged' = [charged EXCEPT ![r] = c]
    /\ AppendLedgerEntryInTx(Owner[r], "request_charge", -c, r)
    /\ AutoFreeze(Owner[r])
    /\ UNCHANGED newapiRequestId

(***************************************************************************)
(* All that any part of the program does to the two wallet tables and to   *)
(* request_ledger.  OtherRefs are the orders of recharges and the keys of  *)
(* manual adjustments, which may take money as well and freeze nothing.    *)
(* Gateway is shown to take these steps only, so what these steps preserve *)
(* is proved once, in GatewayProofs.                                       *)
(***************************************************************************)
LedgerStep(OtherRefs) ==
    \/ \E r \in Requests :
          /\ \/ AdmitRequest(r)
             \/ \E id \in RequestIds : CaptureRequestId(r, id)
             \/ MarkFailedUnbilled(r)
          /\ UNCHANGED walletVars
    \/ \E r \in Requests, c \in 0..MaxCharge : SettleInTx(r, c)
    \/ \E u \in Users, type \in {"recharge", "manual_adjustment"}, amount \in Int,
          ref \in OtherRefs :
          /\ AppendLedgerEntryInTx(u, type, amount, ref)
          /\ UNCHANGED <<frozen, requestVars>>
    \/ \E u \in Users :
          /\ (\E reason \in FreezeReasons : FreezeWallet(u, reason)) \/ UnfreezeWallet(u)
          /\ UNCHANGED requestVars

-----------------------------------------------------------------------------
RequestTypeOK ==
    /\ status \in [Requests -> Statuses]
    /\ newapiRequestId \in [Requests -> RequestIds \cup {NoId}]
    /\ charged \in [Requests -> 0..MaxCharge]

\* The rows of the wallet ledger that charge request r.
ChargesOf(r) ==
    {i \in DOMAIN walletLedger[Owner[r]] :
        /\ walletLedger[Owner[r]][i].type = "request_charge"
        /\ walletLedger[Owner[r]][i].ref = r}

(***************************************************************************)
(* request_ledger(settled) <-> wallet_ledger(request_charge): a settled    *)
(* request has a wallet entry of exactly its charged amount, its New API   *)
(* id is known, no request has two entries and no other request has any.   *)
(* Two tables written by different callers in racing transactions.         *)
(***************************************************************************)
SettledIffCharged ==
    \A r \in Requests :
        /\ status[r] = "settled" =>
              /\ newapiRequestId[r] # NoId
              /\ \E i \in ChargesOf(r) :
                    walletLedger[Owner[r]][i].amount = -charged[r]
        /\ status[r] # "settled" => ChargesOf(r) = {} /\ charged[r] = 0
        /\ \A i, j \in ChargesOf(r) : i = j

(***************************************************************************)
(* No call New API served is attributed to two requests, even when the     *)
(* upstream repeats an id: captureRequestId against the unique index.      *)
(***************************************************************************)
OneRowPerUpstreamCall ==
    \A r, q \in Requests :
        r # q /\ newapiRequestId[r] # NoId
            => newapiRequestId[r] # newapiRequestId[q]

(***************************************************************************)
(* A user never holds more risk slots (open or legacy pending rows) than   *)
(* the limit, however many handlers run the admission statement at once.   *)
(***************************************************************************)
RiskSlotsBounded ==
    \A u \in Users : Cardinality(RiskSlots(u)) <= RiskLimit

\* A terminal row is never written again: its status, amount and New API id
\* are final whichever of the racing writers comes last.
TerminalIsFinal ==
    [][\A r \in Requests : status[r] \in Terminal =>
          /\ status'[r] = status[r]
          /\ charged'[r] = charged[r]
          /\ newapiRequestId'[r] = newapiRequestId[r]]_requestVars

\* Money leaves a wallet in two ways: an administrator debits it, which
\* touches no request, or one request of that wallet's owner is settled, for
\* exactly the amount of its row, and then a balance below the threshold
\* leaves the wallet frozen.
OverdraftFreezes ==
    [][\A u \in Users : balance'[u] < balance[u] =>
          \/ DebitsOf(u)' # DebitsOf(u) /\ UNCHANGED requestVars
          \/ /\ \E r \in Requests : /\ Owner[r] = u
                                    /\ status[r] \in Unresolved
                                    /\ status'[r] = "settled"
                                    /\ balance'[u] = balance[u] - charged'[r]
             /\ balance'[u] < -FreezeThreshold => frozen'[u] # "none"
      ]_<<walletVars, requestVars>>
=============================================================================
