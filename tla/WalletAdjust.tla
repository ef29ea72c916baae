---------------------------- MODULE WalletAdjust ----------------------------
(***************************************************************************)
(* Manual adjustments of a wallet and reversals of a charge by             *)
(* administrators: applyManualAdjustment and reverseRequestCharge of       *)
(* src/src/features/wallet/server/ledger.ts.                               *)
(*                                                                         *)
(* Both are idempotent by key.  A call looks its key up, tries its         *)
(* transaction up to five times and, whenever the transaction fails, looks *)
(* the key up again: another call with the same key may have won.          *)
(***************************************************************************)
EXTENDS Wallet

CONSTANTS
    Calls,       \* the administrators' calls
    Keys,        \* idempotency keys of adjustments
    Charges,     \* requests whose charge a call may reverse; the key of a
                 \* reversal is the charge it reverses
    KeyOf,       \* the key of each call
    Wanted,      \* [user, amount] of each adjustment
    Operator,    \* who makes each call, and why
    Nobody,      \* operator_user_id of a row that does not exist
    MaxAttempts  \* 5 in the code

ASSUME AdjustAssumption ==
    /\ KeyOf \in [Calls -> Keys \cup Charges]
    /\ Keys \cap Charges = {}
    /\ \A c \in Calls : KeyOf[c] \in Keys =>
          /\ Wanted[c].user \in Users
          /\ Wanted[c].amount \in Int \ {0}
    /\ \A c \in Calls : Operator[c] # Nobody
    /\ MaxAttempts \in Nat \ {0}

VARIABLES
    call,        \* where each call is, and in the end its answer
    attempts,    \* transactions it has tried
    busy,        \* the last of them failed because the database was locked
    operatorOf   \* operator_user_id and reason of the row with each key

adjustVars == <<call, attempts, busy, operatorOf>>

Answers == {"applied", "alreadyApplied", "conflict", "error"}
CallStates == {"idle", "lookup", "trying", "failed"} \cup Answers

AdjustInit ==
    /\ call = [c \in Calls |-> "idle"]
    /\ attempts = [c \in Calls |-> 0]
    /\ busy = [c \in Calls |-> FALSE]
    /\ operatorOf = [k \in Keys \cup Charges |-> Nobody]

Goto(c, state) == call' = [call EXCEPT ![c] = state]

-----------------------------------------------------------------------------
(* What a call wants and what it finds.                                    *)

HasEntry(u, type, ref, amount) ==
    \E i \in DOMAIN walletLedger[u] :
        /\ walletLedger[u][i].type = type
        /\ walletLedger[u][i].ref = ref
        /\ walletLedger[u][i].amount = amount

KeyUsed(k) == Recorded("manual_adjustment", k)

\* The row under the call's key is the one the call wants: the same user,
\* amount, operator and reason.  A reversal wants the opposite of its charge.
PayloadMatches(c) ==
    LET k == KeyOf[c]
    IN  /\ operatorOf[k] = Operator[c]
        /\ IF k \in Keys
           THEN HasEntry(Wanted[c].user, "manual_adjustment", k, Wanted[c].amount)
           ELSE \E u \in Users : \E i \in DOMAIN walletLedger[u] :
                   /\ walletLedger[u][i].type = "request_charge"
                   /\ walletLedger[u][i].ref = k
                   /\ HasEntry(u, "manual_adjustment", k, -walletLedger[u][i].amount)

\* The transaction: the entry and its audit row.
WriteAdjustment(c) ==
    LET k == KeyOf[c]
    IN  /\ IF k \in Keys
           THEN AppendLedgerEntryInTx(Wanted[c].user, "manual_adjustment",
                                      Wanted[c].amount, k)
           ELSE \E u \in Users : \E i \in DOMAIN walletLedger[u] :
                   /\ walletLedger[u][i].type = "request_charge"
                   /\ walletLedger[u][i].ref = k
                   /\ AppendLedgerEntryInTx(u, "manual_adjustment",
                                            -walletLedger[u][i].amount, k)
        /\ operatorOf' = [operatorOf EXCEPT ![k] = Operator[c]]

-----------------------------------------------------------------------------
\* reverseRequestCharge reads the charge first.
Start(c) ==
    /\ call[c] = "idle"
    /\ Goto(c, IF KeyOf[c] \in Keys \/ Recorded("request_charge", KeyOf[c])
               THEN "lookup" ELSE "error")
    /\ UNCHANGED <<walletVars, attempts, busy, operatorOf>>

Lookup(c) ==
    /\ call[c] = "lookup"
    /\ Goto(c, IF ~KeyUsed(KeyOf[c]) THEN "trying"
               ELSE IF PayloadMatches(c) THEN "alreadyApplied" ELSE "conflict")
    /\ UNCHANGED <<walletVars, attempts, busy, operatorOf>>

Apply(c) ==
    /\ call[c] = "trying"
    /\ WriteAdjustment(c)
    /\ Goto(c, "applied")
    /\ UNCHANGED <<frozen, attempts, busy>>

\* The transaction throws: the unique key is taken, the database is locked,
\* or anything else.  Nothing is committed.
Fail(c) ==
    /\ call[c] = "trying"
    /\ \E b \in BOOLEAN : busy' = [busy EXCEPT ![c] = b]
    /\ attempts' = [attempts EXCEPT ![c] = @ + 1]
    /\ Goto(c, "failed")
    /\ UNCHANGED <<walletVars, operatorOf>>

\* A key that was taken meanwhile is taken for the call's own.
RecoverUnchecked(c) ==
    /\ call[c] = "failed"
    /\ Goto(c, IF KeyUsed(KeyOf[c]) THEN "alreadyApplied"
               ELSE IF busy[c] /\ attempts[c] < MaxAttempts THEN "trying" ELSE "error")
    /\ UNCHANGED <<walletVars, attempts, busy, operatorOf>>

\* readBack first; only a locked database is tried again.
Recover(c) ==
    /\ call[c] = "failed"
    /\ Goto(c, IF KeyUsed(KeyOf[c])
               THEN IF PayloadMatches(c) THEN "alreadyApplied" ELSE "conflict"
               ELSE IF busy[c] /\ attempts[c] < MaxAttempts THEN "trying" ELSE "error")
    /\ UNCHANGED <<walletVars, attempts, busy, operatorOf>>

CallStep(c) == Lookup(c) \/ Apply(c) \/ Fail(c) \/ Recover(c)

AdjustNext == \E c \in Calls : Start(c) \/ CallStep(c)

-----------------------------------------------------------------------------
AdjustTypeOK ==
    /\ call \in [Calls -> CallStates]
    /\ attempts \in [Calls -> 0..MaxAttempts]
    /\ busy \in [Calls -> BOOLEAN]
    /\ operatorOf \in [Keys \cup Charges ->
                          {Operator[c] : c \in Calls} \cup {Nobody}]

(***************************************************************************)
(* What a call answers is true of the ledger, whoever else used its key at *)
(* the same time: an applied or already applied call finds its own payload *)
(* under the key, a refused one somebody else's, and one call per key      *)
(* applies it.  Calls race between the lookup and the unique index.        *)
(***************************************************************************)
AnswersAreTrue ==
    \A c \in Calls :
        /\ call[c] \in {"applied", "alreadyApplied"} => PayloadMatches(c)
        /\ call[c] = "conflict" => KeyUsed(KeyOf[c]) /\ ~PayloadMatches(c)
        /\ \A e \in Calls : call[c] = "applied" /\ call[e] = "applied"
                               /\ KeyOf[c] = KeyOf[e] => c = e

\* Where the rows of the ledger are, and those that reverse charge r.
RowPlaces == UNION {{<<u, i>> : i \in DOMAIN walletLedger[u]} : u \in Users}
ReversalsOf(r) ==
    {p \in RowPlaces : /\ walletLedger[p[1]][p[2]].type = "manual_adjustment"
                       /\ walletLedger[p[1]][p[2]].ref = r}

(***************************************************************************)
(* A charge is given back at most once, in full, and into the wallet it    *)
(* was taken from, however many administrators reverse it at once.         *)
(***************************************************************************)
ReversedOnce ==
    \A r \in Charges :
        /\ \A u \in Users : \A i \in DOMAIN walletLedger[u] :
              walletLedger[u][i].type = "manual_adjustment" /\ walletLedger[u][i].ref = r
                  => HasEntry(u, "request_charge", r, -walletLedger[u][i].amount)
        /\ Cardinality(ReversalsOf(r)) <= 1
=============================================================================
