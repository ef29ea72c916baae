---------------------------- MODULE WalletProofs ----------------------------
(***************************************************************************)
(* What an append to wallet_ledger and the automatic freeze do to the      *)
(* wallet tables, for any users and any references.  Every proof about     *)
(* money cites these lemmas.                                               *)
(***************************************************************************)
EXTENDS Wallet, TLAPS

(***************************************************************************)
(* Appending an entry keeps the type of the wallet tables.                 *)
(***************************************************************************)
LEMMA AppendType ==
    ASSUME NEW Refs, WalletTypeOK(Refs),
           NEW u \in Users, NEW type \in EntryTypes, NEW amount \in Int,
           NEW ref \in Refs, AppendLedgerEntryInTx(u, type, amount, ref)
    PROVE  /\ balance' \in [Users -> Int]
           /\ walletLedger' \in [Users -> Seq(EntriesOf(Refs))]
<1>1. balance[u] + amount \in Int
    BY DEF WalletTypeOK
<1>2. balance' \in [Users -> Int]
    BY <1>1 DEF AppendLedgerEntryInTx, WalletTypeOK
<1> DEFINE e == [type |-> type, amount |-> amount,
                 balanceAfter |-> balance[u] + amount, ref |-> ref]
<1>3. e \in EntriesOf(Refs)
    BY <1>1 DEF EntriesOf
<1>4. walletLedger[u] \in Seq(EntriesOf(Refs))
    BY DEF WalletTypeOK
<1>5. Append(walletLedger[u], e) \in Seq(EntriesOf(Refs))
    BY <1>3, <1>4
<1>6. walletLedger' = [walletLedger EXCEPT ![u] = Append(@, e)]
    BY DEF AppendLedgerEntryInTx
<1> HIDE DEF e
<1>7. walletLedger' \in [Users -> Seq(EntriesOf(Refs))]
    BY <1>5, <1>6 DEF WalletTypeOK
<1> QED  BY <1>2, <1>7

\* The automatic freeze writes a freeze reason.
LEMMA FreezeType ==
    ASSUME NEW u \in Users, frozen \in [Users -> FreezeReasons \cup {"none"}],
           AutoFreeze(u)
    PROVE  frozen' \in [Users -> FreezeReasons \cup {"none"}]
BY DEF AutoFreeze, FreezeReasons

(***************************************************************************)
(* An appended entry carries the new balance, so the chain of balances     *)
(* goes on; the older rows and the other wallets are as they were.         *)
(***************************************************************************)
LEMMA AppendConserves ==
    ASSUME NEW Refs, WalletTypeOK(Refs), WalletConserved,
           NEW u \in Users, NEW type \in EntryTypes, NEW amount \in Int,
           NEW ref \in Refs, AppendLedgerEntryInTx(u, type, amount, ref)
    PROVE  WalletConserved'
<1> DEFINE s == walletLedger[u]
           n == Len(s)
           e == [type |-> type, amount |-> amount,
                 balanceAfter |-> balance[u] + amount, ref |-> ref]
<1>1. s \in Seq(EntriesOf(Refs)) /\ n \in Nat /\ balance[u] \in Int
    BY DEF WalletTypeOK
<1>2. /\ walletLedger'[u] = Append(s, e)
      /\ balance'[u] = balance[u] + amount
      /\ \A v \in Users \ {u} : /\ walletLedger'[v] = walletLedger[v]
                                /\ balance'[v] = balance[v]
    BY DEF AppendLedgerEntryInTx, WalletTypeOK
<1>3. e \in EntriesOf(Refs)
    BY <1>1 DEF EntriesOf
<1>4. /\ Len(Append(s, e)) = n + 1
      /\ Append(s, e)[n + 1] = e
      /\ \A i \in 1..n : Append(s, e)[i] = s[i]
    BY <1>1, <1>3
<1>5. balance[u] = BalanceAfter(s, n)
    BY DEF WalletConserved
<1> DEFINE Chain(rows) == \A i \in 1..Len(rows) :
               rows[i].balanceAfter = BalanceAfter(rows, i - 1) + rows[i].amount
<1>6. Chain(s)
    BY DEF WalletConserved
<1>7. Chain(Append(s, e))
    <2> SUFFICES ASSUME NEW i \in 1..(n + 1)
                 PROVE  Append(s, e)[i].balanceAfter =
                           BalanceAfter(Append(s, e), i - 1) + Append(s, e)[i].amount
        BY <1>4
    <2>1. CASE i \in 1..n
        <3>1. BalanceAfter(Append(s, e), i - 1) = BalanceAfter(s, i - 1)
            <4>1. i - 1 = 0 \/ i - 1 \in 1..n
                BY <1>1, <2>1
            <4> QED  BY <4>1, <1>4 DEF BalanceAfter
        <3>2. s[i].balanceAfter = BalanceAfter(s, i - 1) + s[i].amount
            BY <1>6, <2>1
        <3> QED  BY <1>4, <2>1, <3>1, <3>2
    <2>2. CASE i = n + 1
        <3>1. BalanceAfter(Append(s, e), n) = balance[u]
            <4>1. n = 0 \/ n \in 1..n
                BY <1>1
            <4> QED  BY <4>1, <1>4, <1>5 DEF BalanceAfter
        <3>2. i - 1 = n
            BY <1>1, <2>2
        <3> QED  BY <1>4, <2>2, <3>1, <3>2
    <2> QED  BY <1>1, <2>1, <2>2
<1>8. balance'[u] = BalanceAfter(Append(s, e), Len(Append(s, e)))
    BY <1>1, <1>2, <1>4 DEF BalanceAfter
<1> SUFFICES ASSUME NEW v \in Users
             PROVE  /\ balance'[v] = BalanceAfter(walletLedger'[v], Len(walletLedger'[v]))
                    /\ Chain(walletLedger'[v])
    BY DEF WalletConserved
<1>9. CASE v # u
    BY <1>2, <1>9 DEF WalletConserved
<1>10. CASE v = u
    <2> HIDE DEF Chain, e
    <2> QED  BY <1>2, <1>7, <1>8, <1>10
<1> QED  BY <1>9, <1>10

-----------------------------------------------------------------------------
(* Rows.                                                                   *)

(***************************************************************************)
(* The ledger is append-only: an append leaves every row where and as it   *)
(* was, and puts one row at the end of its user's.                         *)
(***************************************************************************)
LEMMA AppendRows ==
    ASSUME NEW Refs, WalletTypeOK(Refs),
           NEW u \in Users, NEW type \in EntryTypes, NEW amount \in Int,
           NEW ref \in Refs, AppendLedgerEntryInTx(u, type, amount, ref)
    PROVE  LET n == Len(walletLedger[u]) + 1
           IN  /\ n \in DOMAIN walletLedger'[u]
               /\ walletLedger'[u][n].type = type
               /\ walletLedger'[u][n].ref = ref
               /\ walletLedger'[u][n].amount = amount
               /\ \A v \in Users : \A i \in DOMAIN walletLedger[v] :
                     /\ i \in DOMAIN walletLedger'[v]
                     /\ walletLedger'[v][i] = walletLedger[v][i]
               /\ \A v \in Users : \A i \in DOMAIN walletLedger'[v] :
                     i \in DOMAIN walletLedger[v] \/ (v = u /\ i = n)
<1> DEFINE s == walletLedger[u]
           n == Len(s)
           e == [type |-> type, amount |-> amount,
                 balanceAfter |-> balance[u] + amount, ref |-> ref]
<1>1. s \in Seq(EntriesOf(Refs)) /\ n \in Nat /\ balance[u] \in Int
    BY DEF WalletTypeOK
<1>2. /\ walletLedger'[u] = Append(s, e)
      /\ \A v \in Users \ {u} : walletLedger'[v] = walletLedger[v]
    BY DEF AppendLedgerEntryInTx, WalletTypeOK
<1>3. e \in EntriesOf(Refs)
    BY <1>1 DEF EntriesOf
<1>4. /\ DOMAIN s = 1..n
      /\ DOMAIN Append(s, e) = 1..(n + 1)
      /\ Append(s, e)[n + 1] = e
      /\ \A i \in 1..n : Append(s, e)[i] = s[i]
    BY <1>1, <1>3
<1>5. e.type = type /\ e.ref = ref /\ e.amount = amount
    OBVIOUS
<1> HIDE DEF e
<1>6. /\ n + 1 \in DOMAIN walletLedger'[u]
      /\ walletLedger'[u][n + 1] = e
    BY <1>1, <1>2, <1>4
<1>7. ASSUME NEW v \in Users, NEW i \in DOMAIN walletLedger[v]
      PROVE  i \in DOMAIN walletLedger'[v] /\ walletLedger'[v][i] = walletLedger[v][i]
    <2>1. CASE v = u
        BY <1>1, <1>2, <1>4, <1>7, <2>1
    <2> QED  BY <1>2, <2>1
<1>8. ASSUME NEW v \in Users, NEW i \in DOMAIN walletLedger'[v]
      PROVE  i \in DOMAIN walletLedger[v] \/ (v = u /\ i = n + 1)
    <2>1. CASE v = u
        BY <1>1, <1>2, <1>4, <1>8, <2>1
    <2> QED  BY <1>2, <1>8, <2>1
<1> QED  BY <1>5, <1>6, <1>7, <1>8

\* What a row is.
LEMMA RowType ==
    ASSUME NEW Refs, WalletTypeOK(Refs), NEW u \in Users, NEW i \in DOMAIN walletLedger[u]
    PROVE  /\ walletLedger[u][i].type \in EntryTypes
           /\ walletLedger[u][i].ref \in Refs
           /\ walletLedger[u][i].amount \in Int
<1>1. walletLedger[u] \in Seq(EntriesOf(Refs))
    BY DEF WalletTypeOK
<1>2. walletLedger[u][i] \in EntriesOf(Refs)
    BY <1>1
<1> QED  BY <1>2 DEF EntriesOf

\* A row under the reference is what a unique index looks for.
LEMMA RowRecorded ==
    ASSUME NEW u \in Users, NEW i \in DOMAIN walletLedger[u], NEW type, NEW ref,
           walletLedger[u][i].type = type, walletLedger[u][i].ref = ref
    PROVE  Recorded(type, ref)
BY DEF Recorded

(***************************************************************************)
(* The unique indexes hold: no two rows have the same type and reference.  *)
(***************************************************************************)
UniqueRows ==
    \A u, v \in Users : \A i \in DOMAIN walletLedger[u], j \in DOMAIN walletLedger[v] :
        walletLedger[u][i].type = walletLedger[v][j].type
            /\ walletLedger[u][i].ref = walletLedger[v][j].ref => u = v /\ i = j

LEMMA AppendUnique ==
    ASSUME NEW Refs, WalletTypeOK(Refs), UniqueRows,
           NEW u \in Users, NEW type \in EntryTypes, NEW amount \in Int,
           NEW ref \in Refs, AppendLedgerEntryInTx(u, type, amount, ref)
    PROVE  UniqueRows'
<1> DEFINE n == Len(walletLedger[u]) + 1
<1>1. /\ walletLedger'[u][n].type = type
      /\ walletLedger'[u][n].ref = ref
      /\ \A v \in Users : \A i \in DOMAIN walletLedger[v] :
            walletLedger'[v][i] = walletLedger[v][i]
      /\ \A v \in Users : \A i \in DOMAIN walletLedger'[v] :
            i \in DOMAIN walletLedger[v] \/ (v = u /\ i = n)
    BY AppendRows
<1>2. \A v \in Users : \A i \in DOMAIN walletLedger[v] :
         ~(walletLedger[v][i].type = type /\ walletLedger[v][i].ref = ref)
    BY DEF AppendLedgerEntryInTx, Recorded
<1> HIDE DEF n
<1> SUFFICES ASSUME NEW v \in Users, NEW w \in Users,
                    NEW i \in DOMAIN walletLedger'[v], NEW j \in DOMAIN walletLedger'[w],
                    walletLedger'[v][i].type = walletLedger'[w][j].type,
                    walletLedger'[v][i].ref = walletLedger'[w][j].ref
             PROVE  v = w /\ i = j
    BY DEF UniqueRows
<1>3. CASE i \in DOMAIN walletLedger[v] /\ j \in DOMAIN walletLedger[w]
    BY <1>1, <1>3 DEF UniqueRows
<1>4. CASE i \notin DOMAIN walletLedger[v]
    BY <1>1, <1>2, <1>4
<1>5. CASE j \notin DOMAIN walletLedger[w]
    BY <1>1, <1>2, <1>5
<1> QED  BY <1>3, <1>4, <1>5
=============================================================================
