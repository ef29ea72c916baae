------------------------------- MODULE Wallet -------------------------------
(***************************************************************************)
(* The two wallet tables, wallet_account and wallet_ledger, and the        *)
(* statements that write them (src/src/features/wallet/server/ledger.ts    *)
(* and freeze.ts).  Every statement runs inside a SQLite transaction of    *)
(* its caller, so each operator below is one conjunct of a caller's step.  *)
(*                                                                         *)
(* Every user has its account row from the start: the row that             *)
(* ensureWalletAccount inserts, with balance 0 and no freeze, the first    *)
(* time a writer or authentication meets the user.                         *)
(***************************************************************************)
EXTENDS Integers, Sequences, FiniteSets

CONSTANTS
    Users,            \* portal users
    FreezeThreshold   \* overdraftFreezeMicroUsd of the gateway's configuration

ASSUME WalletAssumption == FreezeThreshold \in Nat

VARIABLES
    balance,          \* wallet_account.balance_micro_usd
    frozen,           \* wallet_account.freeze_reason, "none" when frozen_at is NULL
    walletLedger      \* wallet_ledger: the rows of each user in insertion order

walletVars == <<balance, frozen, walletLedger>>

FreezeReasons == {"overdraft_auto", "manual", "refund_in_progress"}
EntryTypes    == {"recharge", "request_charge", "manual_adjustment"}

\* A wallet_ledger row; ref is the unique key its type is indexed by: the
\* request, the order or the idempotency key.
EntriesOf(Refs) ==
    [type : EntryTypes, amount : Int, balanceAfter : Int, ref : Refs]

WalletInit ==
    /\ balance = [u \in Users |-> 0]
    /\ frozen = [u \in Users |-> "none"]
    /\ walletLedger = [u \in Users |-> <<>>]

-----------------------------------------------------------------------------
(* Appending an entry.                                                     *)

SignOk(type, amount) ==
    CASE type = "recharge"          -> amount > 0
      [] type = "request_charge"    -> amount < 0
      [] type = "manual_adjustment" -> amount # 0

\* The three partial unique indexes of wallet_ledger: one row per (type, ref).
Recorded(type, ref) ==
    \E u \in Users : \E i \in DOMAIN walletLedger[u] :
        walletLedger[u][i].type = type /\ walletLedger[u][i].ref = ref

\* The balance is written back from a value read before the transaction
\* instead of by an increment, so the row no longer carries the new balance.
LostUpdateAppend(u, type, amount, ref) ==
    /\ SignOk(type, amount)
    /\ ~Recorded(type, ref)
    /\ balance' = [balance EXCEPT ![u] = @ + amount]
    /\ walletLedger' = [walletLedger EXCEPT ![u] = Append(@,
           [type |-> type, amount |-> amount,
            balanceAfter |-> balance[u], ref |-> ref])]

\* The unique indexes are not there.
AppendWithoutUniqueIndex(u, type, amount, ref) ==
    /\ SignOk(type, amount)
    /\ balance' = [balance EXCEPT ![u] = @ + amount]
    /\ walletLedger' = [walletLedger EXCEPT ![u] = Append(@,
           [type |-> type, amount |-> amount,
            balanceAfter |-> balance[u] + amount, ref |-> ref])]

\* An entry that a unique index or the sign rule refuses aborts the
\* transaction: the step that contains it is then not taken at all.
AppendLedgerEntryInTx(u, type, amount, ref) ==
    /\ SignOk(type, amount)
    /\ ~Recorded(type, ref)
    /\ balance' = [balance EXCEPT ![u] = @ + amount]
    /\ walletLedger' = [walletLedger EXCEPT ![u] = Append(@,
           [type |-> type, amount |-> amount,
            balanceAfter |-> balance[u] + amount, ref |-> ref])]

-----------------------------------------------------------------------------
(* Freezing.  The automatic freeze is the last wallet statement of a       *)
(* settlement and reads the balance that settlement has just written.      *)

\* The condition reads the balance from before the charge.
AutoFreezeOnStaleBalance(u) ==
    frozen' = [frozen EXCEPT ![u] =
                  IF @ = "none" /\ balance[u] < -FreezeThreshold
                  THEN "overdraft_auto" ELSE @]

AutoFreeze(u) ==
    frozen' = [frozen EXCEPT ![u] =
                  IF @ = "none" /\ balance'[u] < -FreezeThreshold
                  THEN "overdraft_auto" ELSE @]

FreezeWallet(u, reason) ==
    /\ frozen[u] = "none"
    /\ frozen' = [frozen EXCEPT ![u] = reason]
    /\ UNCHANGED <<balance, walletLedger>>

UnfreezeWallet(u) ==
    /\ frozen[u] # "none"
    /\ frozen' = [frozen EXCEPT ![u] = "none"]
    /\ UNCHANGED <<balance, walletLedger>>

\* authenticateGatewayRequest admits the user past its wallet check.
Spendable(u) == frozen[u] = "none" /\ balance[u] > 0

-----------------------------------------------------------------------------
WalletTypeOK(Refs) ==
    /\ balance \in [Users -> Int]
    /\ frozen \in [Users -> FreezeReasons \cup {"none"}]
    /\ walletLedger \in [Users -> Seq(EntriesOf(Refs))]

\* The rows by which an administrator took money from u.
DebitsOf(u) ==
    {i \in DOMAIN walletLedger[u] :
        walletLedger[u][i].type = "manual_adjustment" /\ walletLedger[u][i].amount < 0}

\* The balance after the first n of a user's rows.
BalanceAfter(rows, n) == IF n = 0 THEN 0 ELSE rows[n].balanceAfter

(***************************************************************************)
(* The materialised balance is the balance after the user's last ledger    *)
(* row, and every row moves the balance by its own amount: the account is  *)
(* the sum of the append-only ledger whatever the order in which charges,  *)
(* recharges and adjustments commit (appendLedgerEntryInTx).               *)
(***************************************************************************)
WalletConserved ==
    \A u \in Users :
        LET rows == walletLedger[u]
        IN  /\ balance[u] = BalanceAfter(rows, Len(rows))
            /\ \A i \in 1..Len(rows) :
                  rows[i].balanceAfter = BalanceAfter(rows, i - 1) + rows[i].amount
=============================================================================
