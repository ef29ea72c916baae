--------------------------- MODULE GatewayProofs ----------------------------
(***************************************************************************)
(* Theorems about Gateway, for any number of users, requests, orders and   *)
(* crashes and for every configuration.                                    *)
(*                                                                         *)
(* The first part is about the tables alone: what every LedgerStep keeps.  *)
(* The second shows that the gateway's steps are LedgerSteps, and what     *)
(* follows for its specification.                                          *)
(***************************************************************************)
EXTENDS Gateway, WalletProofs, FiniteSetTheorems, TLAPS

LedgerTypeOK(OtherRefs) == WalletTypeOK(Requests \cup OtherRefs) /\ RequestTypeOK

(***************************************************************************)
(* Every step of the tables keeps their type.                              *)
(***************************************************************************)
LEMMA LedgerStepType ==
    ASSUME NEW OtherRefs, LedgerTypeOK(OtherRefs), LedgerStep(OtherRefs)
    PROVE  LedgerTypeOK(OtherRefs)'
<1> USE RequestLedgerAssumption
<1> DEFINE Refs == Requests \cup OtherRefs
<1>1. ASSUME NEW r \in Requests, AdmitRequest(r), UNCHANGED walletVars
      PROVE  LedgerTypeOK(OtherRefs)'
    BY <1>1 DEF AdmitRequest, LedgerTypeOK, WalletTypeOK, RequestTypeOK,
                walletVars, Statuses, Unresolved
<1>2. ASSUME NEW r \in Requests, NEW id \in RequestIds,
             CaptureRequestId(r, id), UNCHANGED walletVars
      PROVE  LedgerTypeOK(OtherRefs)'
    BY <1>2 DEF CaptureRequestId, LedgerTypeOK, WalletTypeOK, RequestTypeOK,
                walletVars
<1>3. ASSUME NEW r \in Requests, MarkFailedUnbilled(r), UNCHANGED walletVars
      PROVE  LedgerTypeOK(OtherRefs)'
    BY <1>3 DEF MarkFailedUnbilled, LedgerTypeOK, WalletTypeOK, RequestTypeOK,
                walletVars, Statuses, Terminal
<1>4. ASSUME NEW r \in Requests, NEW c \in 0..MaxCharge, SettleInTx(r, c)
      PROVE  LedgerTypeOK(OtherRefs)'
    <2>1. RequestTypeOK'
        BY <1>4 DEF SettleInTx, LedgerTypeOK, RequestTypeOK, Statuses, Terminal
    <2>2. Owner[r] \in Users /\ r \in Refs /\ -c \in Int
        OBVIOUS
    <2>3. AppendLedgerEntryInTx(Owner[r], "request_charge", -c, r)
        BY <1>4 DEF SettleInTx
    <2>4. /\ balance' \in [Users -> Int]
          /\ walletLedger' \in [Users -> Seq(EntriesOf(Refs))]
        BY <2>2, <2>3, AppendType DEF LedgerTypeOK, EntryTypes
    <2>5. frozen' \in [Users -> FreezeReasons \cup {"none"}]
        BY <1>4, <2>2, FreezeType DEF SettleInTx, LedgerTypeOK, WalletTypeOK
    <2> QED  BY <2>1, <2>4, <2>5 DEF LedgerTypeOK, WalletTypeOK
<1>5. ASSUME NEW u \in Users, NEW type \in {"recharge", "manual_adjustment"},
             NEW amount \in Int, NEW ref \in OtherRefs,
             AppendLedgerEntryInTx(u, type, amount, ref),
             UNCHANGED <<frozen, requestVars>>
      PROVE  LedgerTypeOK(OtherRefs)'
    <2>1. /\ balance' \in [Users -> Int]
          /\ walletLedger' \in [Users -> Seq(EntriesOf(Refs))]
        BY <1>5, AppendType DEF LedgerTypeOK, EntryTypes
    <2> QED  BY <1>5, <2>1 DEF LedgerTypeOK, WalletTypeOK, RequestTypeOK, requestVars
<1>6. ASSUME NEW u \in Users,
             \/ \E reason \in FreezeReasons : FreezeWallet(u, reason)
             \/ UnfreezeWallet(u),
             UNCHANGED requestVars
      PROVE  LedgerTypeOK(OtherRefs)'
    <2>1. frozen' \in [Users -> FreezeReasons \cup {"none"}]
        BY <1>6 DEF FreezeWallet, UnfreezeWallet, LedgerTypeOK, WalletTypeOK
    <2>2. UNCHANGED <<balance, walletLedger>>
        BY <1>6 DEF FreezeWallet, UnfreezeWallet
    <2> QED  BY <1>6, <2>1, <2>2 DEF LedgerTypeOK, WalletTypeOK, RequestTypeOK,
                                     requestVars
<1> QED  BY <1>1, <1>2, <1>3, <1>4, <1>5, <1>6 DEF LedgerStep

-----------------------------------------------------------------------------
(* Conservation.                                                           *)

(***************************************************************************)
(* Every step of the tables conserves the money in the wallets.            *)
(***************************************************************************)
LEMMA LedgerStepConserves ==
    ASSUME NEW OtherRefs, LedgerTypeOK(OtherRefs), WalletConserved,
           LedgerStep(OtherRefs)
    PROVE  WalletConserved'
<1> USE RequestLedgerAssumption
<1>1. CASE UNCHANGED <<balance, walletLedger>>
    BY <1>1 DEF WalletConserved
<1>2. ASSUME NEW r \in Requests, NEW c \in 0..MaxCharge, SettleInTx(r, c)
      PROVE  WalletConserved'
    <2>1. Owner[r] \in Users /\ r \in Requests \cup OtherRefs /\ -c \in Int
        OBVIOUS
    <2> QED  BY <1>2, <2>1, AppendConserves DEF SettleInTx, LedgerTypeOK, EntryTypes
<1>3. ASSUME NEW u \in Users, NEW type \in {"recharge", "manual_adjustment"},
             NEW amount \in Int, NEW ref \in OtherRefs,
             AppendLedgerEntryInTx(u, type, amount, ref)
      PROVE  WalletConserved'
    BY <1>3, AppendConserves DEF LedgerTypeOK, EntryTypes
<1> QED  BY <1>1, <1>2, <1>3 DEF LedgerStep, walletVars, FreezeWallet, UnfreezeWallet

-----------------------------------------------------------------------------
(* Attribution.                                                            *)

(***************************************************************************)
(* No step gives two rows the same New API id.                             *)
(***************************************************************************)
LEMMA LedgerStepOneRow ==
    ASSUME NEW OtherRefs, LedgerTypeOK(OtherRefs), OneRowPerUpstreamCall,
           LedgerStep(OtherRefs)
    PROVE  OneRowPerUpstreamCall'
<1>1. CASE UNCHANGED newapiRequestId
    BY <1>1 DEF OneRowPerUpstreamCall
<1>2. ASSUME NEW r \in Requests, NEW id \in RequestIds, CaptureRequestId(r, id)
      PROVE  OneRowPerUpstreamCall'
    BY <1>2 DEF CaptureRequestId, OneRowPerUpstreamCall, LedgerTypeOK, RequestTypeOK
<1> QED  BY <1>1, <1>2 DEF LedgerStep, AdmitRequest, MarkFailedUnbilled, SettleInTx,
                           requestVars

-----------------------------------------------------------------------------
(* Charges.                                                                *)

(***************************************************************************)
(* The charge entries of a request after an append: one more when the new  *)
(* entry is its charge, else the same ones, and the old entries unchanged. *)
(***************************************************************************)
LEMMA AppendCharges ==
    ASSUME NEW Refs, WalletTypeOK(Refs),
           NEW u \in Users, NEW type \in EntryTypes, NEW amount \in Int,
           NEW ref \in Refs, AppendLedgerEntryInTx(u, type, amount, ref),
           NEW q \in Requests
    PROVE  /\ \A i \in ChargesOf(q) :
                 walletLedger'[Owner[q]][i] = walletLedger[Owner[q]][i]
           /\ type = "request_charge" /\ ref = q /\ u = Owner[q] =>
                 /\ ChargesOf(q)' = ChargesOf(q) \cup {Len(walletLedger[u]) + 1}
                 /\ walletLedger'[u][Len(walletLedger[u]) + 1].amount = amount
           /\ ~(type = "request_charge" /\ ref = q /\ u = Owner[q]) =>
                 ChargesOf(q)' = ChargesOf(q)
<1> USE RequestLedgerAssumption
<1> DEFINE s == walletLedger[u]
           n == Len(s)
           e == [type |-> type, amount |-> amount,
                 balanceAfter |-> balance[u] + amount, ref |-> ref]
<1>1. s \in Seq(EntriesOf(Refs)) /\ n \in Nat /\ balance[u] \in Int
    BY DEF WalletTypeOK
<1>2. /\ walletLedger'[u] = Append(s, e)
      /\ \A v \in Users \ {u} : walletLedger'[v] = walletLedger[v]
    BY DEF AppendLedgerEntryInTx, WalletTypeOK
<1>3. e \in EntriesOf(Refs)
    BY <1>1 DEF EntriesOf
<1>4. /\ DOMAIN s = 1..n
      /\ DOMAIN Append(s, e) = 1..(n + 1)
      /\ Append(s, e)[n + 1] = e
      /\ \A i \in 1..n : Append(s, e)[i] = s[i]
    BY <1>1, <1>3
<1>5. e.type = type /\ e.ref = ref /\ e.amount = amount
    OBVIOUS
<1> HIDE DEF e, n, s
<1>6. CASE u # Owner[q]
    BY <1>2, <1>6 DEF ChargesOf
<1>7. CASE u = Owner[q]
    <2>1. ChargesOf(q) = {i \in 1..n : s[i].type = "request_charge" /\ s[i].ref = q}
        BY <1>4, <1>7 DEF ChargesOf, s
    <2>2. ChargesOf(q)' = {i \in 1..(n + 1) :
              Append(s, e)[i].type = "request_charge" /\ Append(s, e)[i].ref = q}
        BY <1>2, <1>4, <1>7 DEF ChargesOf
    <2>3. 1..(n + 1) = 1..n \cup {n + 1}
        BY <1>1
    <2>4. \A i \in ChargesOf(q) : Append(s, e)[i] = s[i]
        BY <1>4, <2>1
    <2>5. CASE type = "request_charge" /\ ref = q
        BY <1>2, <1>4, <1>5, <1>7, <2>1, <2>2, <2>3, <2>4, <2>5 DEF s, n
    <2>6. CASE ~(type = "request_charge" /\ ref = q)
        BY <1>2, <1>4, <1>5, <1>7, <2>1, <2>2, <2>3, <2>4, <2>6 DEF s, n
    <2> QED  BY <2>5, <2>6
<1> QED  BY <1>6, <1>7

\* A recharge or an adjustment leaves the charge entries of every request as
\* they are.
LEMMA OtherEntryKeepsCharges ==
    ASSUME NEW OtherRefs, LedgerTypeOK(OtherRefs),
           NEW u \in Users, NEW type \in {"recharge", "manual_adjustment"},
           NEW amount \in Int, NEW ref \in OtherRefs,
           AppendLedgerEntryInTx(u, type, amount, ref)
    PROVE  \A q \in Requests :
              /\ ChargesOf(q)' = ChargesOf(q)
              /\ \A i \in ChargesOf(q) :
                    walletLedger'[Owner[q]][i] = walletLedger[Owner[q]][i]
<1> DEFINE Refs == Requests \cup OtherRefs
<1>1. WalletTypeOK(Refs) /\ ref \in Refs /\ amount \in Int
    BY DEF LedgerTypeOK
<1>2. type \in EntryTypes /\ type # "request_charge"
    BY DEF EntryTypes
<1> HIDE DEF Refs
<1>3. ASSUME NEW q \in Requests
      PROVE  /\ \A i \in ChargesOf(q) :
                   walletLedger'[Owner[q]][i] = walletLedger[Owner[q]][i]
             /\ ChargesOf(q)' = ChargesOf(q)
    <2>1. ~(type = "request_charge" /\ ref = q /\ u = Owner[q])
        BY <1>2
    <2> QED  BY <1>1, <1>2, <2>1, AppendCharges
<1> QED  BY <1>3

(***************************************************************************)
(* What a settlement does: the row has no charge entry before it and       *)
(* exactly one after it, of the charged amount; the other rows and their   *)
(* entries are untouched.                                                  *)
(***************************************************************************)
LEMMA SettleEffect ==
    ASSUME NEW OtherRefs, LedgerTypeOK(OtherRefs), SettledIffCharged,
           NEW r \in Requests, NEW c \in 0..MaxCharge, SettleInTx(r, c)
    PROVE  /\ c > 0 /\ ChargesOf(r) = {} /\ status[r] \in Unresolved
           /\ status'[r] = "settled" /\ charged'[r] = c /\ newapiRequestId'[r] # NoId
           /\ ChargesOf(r)' = {Len(walletLedger[Owner[r]]) + 1}
           /\ walletLedger'[Owner[r]][Len(walletLedger[Owner[r]]) + 1].amount = -c
           /\ \A q \in Requests \ {r} :
                 /\ status'[q] = status[q] /\ charged'[q] = charged[q]
                 /\ newapiRequestId'[q] = newapiRequestId[q]
                 /\ ChargesOf(q)' = ChargesOf(q)
                 /\ \A i \in ChargesOf(q) :
                       walletLedger'[Owner[q]][i] = walletLedger[Owner[q]][i]
<1> USE RequestLedgerAssumption
<1>1. Owner[r] \in Users /\ r \in Requests \cup OtherRefs /\ -c \in Int
    OBVIOUS
<1>2. AppendLedgerEntryInTx(Owner[r], "request_charge", -c, r)
    BY DEF SettleInTx
<1>3. c > 0
    <2>1. -c < 0
        BY <1>2 DEF AppendLedgerEntryInTx, SignOk
    <2> QED  BY <2>1
<1>4. /\ status[r] \in Unresolved /\ newapiRequestId[r] # NoId
      /\ status'[r] = "settled" /\ charged'[r] = c
      /\ UNCHANGED newapiRequestId
      /\ \A q \in Requests \ {r} : status'[q] = status[q] /\ charged'[q] = charged[q]
    BY DEF SettleInTx, LedgerTypeOK, RequestTypeOK
<1>5. ChargesOf(r) = {}
    BY <1>4 DEF SettledIffCharged, Unresolved
<1>6. /\ ChargesOf(r)' = {Len(walletLedger[Owner[r]]) + 1}
      /\ walletLedger'[Owner[r]][Len(walletLedger[Owner[r]]) + 1].amount = -c
    BY <1>1, <1>2, <1>5, AppendCharges DEF LedgerTypeOK, EntryTypes
<1>7. \A q \in Requests \ {r} :
         /\ ChargesOf(q)' = ChargesOf(q)
         /\ \A i \in ChargesOf(q) :
               walletLedger'[Owner[q]][i] = walletLedger[Owner[q]][i]
    <2> SUFFICES ASSUME NEW q \in Requests, r # q
                 PROVE  /\ ChargesOf(q)' = ChargesOf(q)
                        /\ \A i \in ChargesOf(q) :
                              walletLedger'[Owner[q]][i] = walletLedger[Owner[q]][i]
        OBVIOUS
    <2>1. WalletTypeOK(Requests \cup OtherRefs) /\ "request_charge" \in EntryTypes
        BY DEF LedgerTypeOK, EntryTypes
    <2> QED  BY <1>1, <1>2, <2>1, AppendCharges
<1> QED  BY <1>3, <1>4, <1>5, <1>6, <1>7

(***************************************************************************)
(* Every step keeps request_ledger(settled) <-> wallet_ledger(charge).     *)
(***************************************************************************)
LEMMA LedgerStepSettles ==
    ASSUME NEW OtherRefs, LedgerTypeOK(OtherRefs), SettledIffCharged,
           LedgerStep(OtherRefs)
    PROVE  SettledIffCharged'
<1> USE RequestLedgerAssumption
<1>1. ASSUME UNCHANGED <<walletLedger, charged>>,
             \A r \in Requests : (status[r] = "settled") <=> (status'[r] = "settled"),
             \A r \in Requests : status[r] = "settled" =>
                                    newapiRequestId'[r] = newapiRequestId[r]
      PROVE  SettledIffCharged'
    BY <1>1 DEF SettledIffCharged, ChargesOf
<1>2. ASSUME NEW r \in Requests,
             \/ AdmitRequest(r)
             \/ \E id \in RequestIds : CaptureRequestId(r, id)
             \/ MarkFailedUnbilled(r),
             UNCHANGED walletVars
      PROVE  SettledIffCharged'
    <2>1. UNCHANGED <<walletLedger, charged>>
        BY <1>2 DEF AdmitRequest, CaptureRequestId, MarkFailedUnbilled, walletVars
    <2>2. \A q \in Requests : (status[q] = "settled") <=> (status'[q] = "settled")
        BY <1>2 DEF AdmitRequest, CaptureRequestId, MarkFailedUnbilled, LedgerTypeOK,
                    RequestTypeOK, Unresolved
    <2>3. \A q \in Requests : status[q] = "settled" =>
                                 newapiRequestId'[q] = newapiRequestId[q]
        BY <1>2 DEF AdmitRequest, CaptureRequestId, MarkFailedUnbilled, LedgerTypeOK,
                    RequestTypeOK
    <2> QED  BY <1>1, <2>1, <2>2, <2>3
<1>3. ASSUME NEW r \in Requests, NEW c \in 0..MaxCharge, SettleInTx(r, c)
      PROVE  SettledIffCharged'
    <2>1. /\ status'[r] = "settled" /\ charged'[r] = c /\ newapiRequestId'[r] # NoId
          /\ ChargesOf(r)' = {Len(walletLedger[Owner[r]]) + 1}
          /\ walletLedger'[Owner[r]][Len(walletLedger[Owner[r]]) + 1].amount = -c
        BY <1>3, SettleEffect
    <2>2. \A q \in Requests \ {r} :
             /\ status'[q] = status[q] /\ charged'[q] = charged[q]
             /\ newapiRequestId'[q] = newapiRequestId[q]
             /\ ChargesOf(q)' = ChargesOf(q)
             /\ \A i \in ChargesOf(q) :
                   walletLedger'[Owner[q]][i] = walletLedger[Owner[q]][i]
        BY <1>3, SettleEffect
    <2> SUFFICES ASSUME NEW q \in Requests
                 PROVE  /\ status'[q] = "settled" =>
                              /\ newapiRequestId'[q] # NoId
                              /\ \E i \in ChargesOf(q)' :
                                    walletLedger'[Owner[q]][i].amount = -charged'[q]
                        /\ status'[q] # "settled" => ChargesOf(q)' = {} /\ charged'[q] = 0
                        /\ \A i, j \in ChargesOf(q)' : i = j
        BY DEF SettledIffCharged
    <2>3. CASE q = r
        <3>1. \E i \in ChargesOf(r)' :
                 walletLedger'[Owner[r]][i].amount = -charged'[r]
            BY <2>1
        <3>2. \A i, j \in ChargesOf(r)' : i = j
            BY <2>1
        <3> QED  BY <2>1, <2>3, <3>1, <3>2
    <2>4. CASE q # r
        BY <2>2, <2>4 DEF SettledIffCharged
    <2> QED  BY <2>3, <2>4
<1>4. ASSUME NEW u \in Users, NEW type \in {"recharge", "manual_adjustment"},
             NEW amount \in Int, NEW ref \in OtherRefs,
             AppendLedgerEntryInTx(u, type, amount, ref), UNCHANGED requestVars
      PROVE  SettledIffCharged'
    <2>1. \A q \in Requests :
             /\ ChargesOf(q)' = ChargesOf(q)
             /\ \A i \in ChargesOf(q) :
                   walletLedger'[Owner[q]][i] = walletLedger[Owner[q]][i]
        BY <1>4, OtherEntryKeepsCharges
    <2> QED  BY <1>4, <2>1 DEF SettledIffCharged, requestVars
<1>5. ASSUME NEW u \in Users,
             \/ \E reason \in FreezeReasons : FreezeWallet(u, reason)
             \/ UnfreezeWallet(u),
             UNCHANGED requestVars
      PROVE  SettledIffCharged'
    BY <1>1, <1>5 DEF FreezeWallet, UnfreezeWallet, requestVars
<1> QED  BY <1>2, <1>3, <1>4, <1>5 DEF LedgerStep

-----------------------------------------------------------------------------
(* Risk slots.                                                             *)

LEMMA RiskSlotsFinite ==
    ASSUME NEW u \in Users
    PROVE  IsFiniteSet(RiskSlots(u)) /\ Cardinality(RiskSlots(u)) \in Nat
<1>1. RiskSlots(u) \in SUBSET Requests
    BY DEF RiskSlots
<1> QED  BY <1>1, FS_Subset, FS_CardinalityType, RequestLedgerAssumption

\* Taking a member out of a finite set lowers its cardinality by one.
LEMMA OneFewer ==
    ASSUME NEW S, NEW T, NEW x, IsFiniteSet(S), x \in S, T = S \ {x}
    PROVE  Cardinality(T) = Cardinality(S) - 1
    BY FS_RemoveElement

\* A step by which no row becomes unresolved keeps the risk slots bounded.
LEMMA FewerSlots ==
    ASSUME RiskSlotsBounded,
           \A r \in Requests : status'[r] \in Unresolved => status[r] \in Unresolved
    PROVE  RiskSlotsBounded'
<1> USE RequestLedgerAssumption
<1> SUFFICES ASSUME NEW u \in Users
             PROVE  Cardinality(RiskSlots(u)') <= RiskLimit
    BY DEF RiskSlotsBounded
<1>1. RiskSlots(u)' \in SUBSET RiskSlots(u)
    BY DEF RiskSlots
<1>2. Cardinality(RiskSlots(u)) <= RiskLimit /\ Cardinality(RiskSlots(u)) \in Nat
    BY RiskSlotsFinite DEF RiskSlotsBounded
<1>3. /\ Cardinality(RiskSlots(u)') <= Cardinality(RiskSlots(u))
      /\ IsFiniteSet(RiskSlots(u)')
    BY <1>1, RiskSlotsFinite, FS_Subset
<1>4. Cardinality(RiskSlots(u)') \in Nat
    BY <1>3, FS_CardinalityType
<1> QED  BY <1>2, <1>3, <1>4

(***************************************************************************)
(* The admission statement counts and inserts in one step, so no number of *)
(* concurrent admissions takes a user beyond the limit.                    *)
(***************************************************************************)
LEMMA LedgerStepSlots ==
    ASSUME NEW OtherRefs, LedgerTypeOK(OtherRefs), RiskSlotsBounded,
           LedgerStep(OtherRefs)
    PROVE  RiskSlotsBounded'
<1> USE RequestLedgerAssumption
<1>1. ASSUME NEW r \in Requests, AdmitRequest(r)
      PROVE  RiskSlotsBounded'
    <2>1. /\ status'[r] = "open"
          /\ \A q \in Requests \ {r} : status'[q] = status[q]
        BY <1>1 DEF AdmitRequest, LedgerTypeOK, RequestTypeOK
    <2> SUFFICES ASSUME NEW u \in Users
                 PROVE  Cardinality(RiskSlots(u)') <= RiskLimit
        BY DEF RiskSlotsBounded
    <2>2. IsFiniteSet(RiskSlots(u)) /\ Cardinality(RiskSlots(u)) \in Nat
        BY RiskSlotsFinite
    <2>3. CASE u = Owner[r]
        <3>1. RiskSlots(u)' = RiskSlots(u) \cup {r}
            BY <2>1, <2>3 DEF RiskSlots, Unresolved
        <3>2. Cardinality(RiskSlots(u)) < RiskLimit
            BY <1>1, <2>3 DEF AdmitRequest
        <3>3. Cardinality(RiskSlots(u) \cup {r}) =
                 IF r \in RiskSlots(u) THEN Cardinality(RiskSlots(u))
                                       ELSE Cardinality(RiskSlots(u)) + 1
            BY <2>2, FS_AddElement
        <3>4. Cardinality(RiskSlots(u) \cup {r}) \in Nat
            BY <2>2, FS_AddElement, FS_CardinalityType
        <3> QED  BY <2>2, <3>1, <3>2, <3>3, <3>4
    <2>4. CASE u # Owner[r]
        <3>1. RiskSlots(u)' = RiskSlots(u)
            BY <2>1, <2>4 DEF RiskSlots
        <3> QED  BY <3>1 DEF RiskSlotsBounded
    <2> QED  BY <2>3, <2>4
<1>2. ASSUME NEW r \in Requests,
             \/ \E id \in RequestIds : CaptureRequestId(r, id)
             \/ MarkFailedUnbilled(r)
             \/ \E c \in 0..MaxCharge : SettleInTx(r, c)
      PROVE  RiskSlotsBounded'
    <2>1. \A q \in Requests : status'[q] \in Unresolved => status[q] \in Unresolved
        BY <1>2 DEF CaptureRequestId, MarkFailedUnbilled, SettleInTx, LedgerTypeOK,
                    RequestTypeOK, Unresolved
    <2> QED  BY <2>1, FewerSlots
<1>3. CASE UNCHANGED requestVars
    BY <1>3, FewerSlots DEF requestVars
<1> QED  BY <1>1, <1>2, <1>3 DEF LedgerStep

-----------------------------------------------------------------------------
(* What a step may never do.                                               *)

(***************************************************************************)
(* No step writes a terminal row.                                          *)
(***************************************************************************)
LEMMA LedgerStepFinal ==
    ASSUME NEW OtherRefs, LedgerTypeOK(OtherRefs), LedgerStep(OtherRefs),
           NEW r \in Requests, status[r] \in Terminal
    PROVE  /\ status'[r] = status[r]
           /\ charged'[r] = charged[r]
           /\ newapiRequestId'[r] = newapiRequestId[r]
<1>1. status[r] # "absent" /\ status[r] \notin Unresolved
    BY DEF Terminal, Unresolved
<1>2. ASSUME NEW q \in Requests,
             \/ AdmitRequest(q)
             \/ \E id \in RequestIds : CaptureRequestId(q, id)
             \/ MarkFailedUnbilled(q)
             \/ \E c \in 0..MaxCharge : SettleInTx(q, c)
      PROVE  UNCHANGED <<status[r], charged[r], newapiRequestId[r]>>
    BY <1>1, <1>2 DEF AdmitRequest, CaptureRequestId, MarkFailedUnbilled, SettleInTx,
                      LedgerTypeOK, RequestTypeOK, Unresolved
<1> QED  BY <1>2 DEF LedgerStep, requestVars

\* The debits of a wallet after an append: one more when an administrator
\* takes money, else the same ones.
LEMMA AppendDebits ==
    ASSUME NEW Refs, WalletTypeOK(Refs),
           NEW v \in Users, NEW type \in EntryTypes, NEW amount \in Int,
           NEW ref \in Refs, AppendLedgerEntryInTx(v, type, amount, ref)
    PROVE  /\ \A u \in Users \ {v} : DebitsOf(u)' = DebitsOf(u)
           /\ type = "manual_adjustment" /\ amount < 0 =>
                 /\ Len(walletLedger[v]) + 1 \notin DebitsOf(v)
                 /\ DebitsOf(v)' = DebitsOf(v) \cup {Len(walletLedger[v]) + 1}
           /\ ~(type = "manual_adjustment" /\ amount < 0) => DebitsOf(v)' = DebitsOf(v)
<1> DEFINE rows == walletLedger[v]
           n == Len(rows)
           e == [type |-> type, amount |-> amount,
                 balanceAfter |-> balance[v] + amount, ref |-> ref]
<1>1. rows \in Seq(EntriesOf(Refs)) /\ n \in Nat /\ balance[v] \in Int
    BY DEF WalletTypeOK
<1>2. /\ walletLedger'[v] = Append(rows, e)
      /\ \A u \in Users \ {v} : walletLedger'[u] = walletLedger[u]
    BY DEF AppendLedgerEntryInTx, WalletTypeOK
<1>3. e \in EntriesOf(Refs)
    BY <1>1 DEF EntriesOf
<1>4. /\ DOMAIN rows = 1..n
      /\ DOMAIN Append(rows, e) = 1..(n + 1)
      /\ Append(rows, e)[n + 1] = e
      /\ \A i \in 1..n : Append(rows, e)[i] = rows[i]
    BY <1>1, <1>3
<1>5. e.type = type /\ e.amount = amount
    OBVIOUS
<1>6. 1..(n + 1) = 1..n \cup {n + 1} /\ n + 1 \notin 1..n
    BY <1>1
<1> HIDE DEF e, n, rows
<1>7. \A u \in Users \ {v} : DebitsOf(u)' = DebitsOf(u)
    BY <1>2 DEF DebitsOf
<1>8. DebitsOf(v) = {i \in 1..n : rows[i].type = "manual_adjustment" /\ rows[i].amount < 0}
    BY <1>4 DEF DebitsOf, rows
<1>9. DebitsOf(v)' = {i \in 1..(n + 1) : /\ Append(rows, e)[i].type = "manual_adjustment"
                                         /\ Append(rows, e)[i].amount < 0}
    BY <1>2, <1>4 DEF DebitsOf
<1>10. CASE type = "manual_adjustment" /\ amount < 0
    <2>1. DebitsOf(v)' = DebitsOf(v) \cup {n + 1} /\ n + 1 \notin DebitsOf(v)
        BY <1>4, <1>5, <1>6, <1>8, <1>9, <1>10
    <2> QED  BY <1>7, <1>10, <2>1 DEF n, rows
<1>11. CASE ~(type = "manual_adjustment" /\ amount < 0)
    <2>1. DebitsOf(v)' = DebitsOf(v)
        BY <1>4, <1>5, <1>6, <1>8, <1>9, <1>11
    <2> QED  BY <1>7, <1>11, <2>1
<1> QED  BY <1>10, <1>11

(***************************************************************************)
(* Money leaves a wallet by an administrator's debit or in a settlement,   *)
(* which also freezes a wallet it leaves below the threshold.              *)
(***************************************************************************)
LEMMA LedgerStepOverdraft ==
    ASSUME NEW OtherRefs, LedgerTypeOK(OtherRefs), LedgerStep(OtherRefs),
           NEW u \in Users, balance'[u] < balance[u]
    PROVE  \/ DebitsOf(u)' # DebitsOf(u) /\ UNCHANGED requestVars
           \/ /\ \E r \in Requests : /\ Owner[r] = u
                                     /\ status[r] \in Unresolved
                                     /\ status'[r] = "settled"
                                     /\ balance'[u] = balance[u] - charged'[r]
              /\ balance'[u] < -FreezeThreshold => frozen'[u] # "none"
<1> USE RequestLedgerAssumption, WalletAssumption
<1>1. balance \in [Users -> Int] /\ balance[u] \in Int
    BY DEF LedgerTypeOK, WalletTypeOK
<1>2. ~UNCHANGED balance
    BY <1>1
<1>3. ASSUME NEW v \in Users, NEW type \in {"recharge", "manual_adjustment"},
             NEW amount \in Int, NEW ref \in OtherRefs,
             AppendLedgerEntryInTx(v, type, amount, ref)
      PROVE  DebitsOf(u)' # DebitsOf(u)
    <2>1. balance' = [balance EXCEPT ![v] = @ + amount]
        BY <1>3 DEF AppendLedgerEntryInTx
    <2>2. u = v /\ amount < 0
        BY <1>1, <2>1
    <2>3. type = "manual_adjustment" /\ type \in EntryTypes
        <3>1. CASE type = "recharge"
            BY <1>3, <2>2, <3>1 DEF AppendLedgerEntryInTx, SignOk
        <3> QED  BY <3>1 DEF EntryTypes
    <2>4. WalletTypeOK(Requests \cup OtherRefs) /\ ref \in Requests \cup OtherRefs
        BY DEF LedgerTypeOK
    <2>5. /\ Len(walletLedger[v]) + 1 \notin DebitsOf(v)
          /\ DebitsOf(v)' = DebitsOf(v) \cup {Len(walletLedger[v]) + 1}
        BY <1>3, <2>2, <2>3, <2>4, AppendDebits
    <2> QED  BY <2>2, <2>5
<1>4. ASSUME NEW r \in Requests, NEW c \in 0..MaxCharge, SettleInTx(r, c)
      PROVE  /\ Owner[r] = u /\ status[r] \in Unresolved /\ status'[r] = "settled"
             /\ balance'[u] = balance[u] - charged'[r]
             /\ balance'[u] < -FreezeThreshold => frozen'[u] # "none"
    <2>1. /\ status[r] \in Unresolved /\ status'[r] = "settled" /\ charged'[r] = c
          /\ balance' = [balance EXCEPT ![Owner[r]] = @ + (-c)]
          /\ AutoFreeze(Owner[r])
        BY <1>4 DEF SettleInTx, LedgerTypeOK, RequestTypeOK, AppendLedgerEntryInTx
    <2>2. Owner[r] = u /\ balance'[u] = balance[u] + (-c)
        BY <1>1, <2>1
    <2>3. balance'[u] = balance[u] - charged'[r]
        BY <1>1, <2>1, <2>2
    <2>4. balance'[u] < -FreezeThreshold => frozen'[u] # "none"
        BY <2>1, <2>2 DEF AutoFreeze, LedgerTypeOK, WalletTypeOK, FreezeReasons
    <2> QED  BY <2>1, <2>2, <2>3, <2>4
<1>5. \/ \E v \in Users, type \in {"recharge", "manual_adjustment"}, amount \in Int,
           ref \in OtherRefs :
           AppendLedgerEntryInTx(v, type, amount, ref) /\ UNCHANGED requestVars
      \/ \E r \in Requests, c \in 0..MaxCharge : SettleInTx(r, c)
    BY <1>2 DEF LedgerStep, walletVars, FreezeWallet, UnfreezeWallet
<1> QED  BY <1>3, <1>4, <1>5

-----------------------------------------------------------------------------
tableVars == <<walletVars, requestVars>>

\* Payments and administrators write the wallet tables as the tables allow.
LEMMA WalletEventTables ==
    ASSUME WalletEvent
    PROVE  LedgerStep(WalletRefs)
<1> USE GatewayAssumption
<1>1. ASSUME NEW o \in Orders, Recharge(o)
      PROVE  LedgerStep(WalletRefs)
    <2>1. o \in WalletRefs /\ Payer[o] \in Users /\ RechargeAmount \in Int
        BY DEF WalletRefs
    <2> QED  BY <1>1, <2>1 DEF Recharge, LedgerStep
<1>2. ASSUME NEW u \in Users, NEW amount \in AdjustmentAmounts,
             NEW key \in AdjustmentKeys, ApplyManualAdjustment(u, amount, key)
      PROVE  LedgerStep(WalletRefs)
    <2>1. key \in WalletRefs /\ amount \in Int
        BY DEF WalletRefs
    <2> QED  BY <1>2, <2>1 DEF ApplyManualAdjustment, LedgerStep
<1>3. ASSUME NEW u \in Users, AdminFreeze(u) \/ AdminUnfreeze(u)
      PROVE  LedgerStep(WalletRefs)
    BY <1>3 DEF AdminFreeze, AdminUnfreeze, LedgerStep, FreezeReasons
<1> QED  BY <1>1, <1>2, <1>3 DEF WalletEvent

\* ... and none of them writes a request.
LEMMA WalletEventRequests ==
    ASSUME WalletEvent
    PROVE  UNCHANGED requestVars
BY DEF WalletEvent, Recharge, ApplyManualAdjustment, AdminFreeze, AdminUnfreeze

\* ... or the memory of the process.
LEMMA WalletEventElsewhere ==
    ASSUME WalletEvent
    PROVE  UNCHANGED <<handlerVars, workerVars, crashes>>
BY DEF WalletEvent, Recharge, ApplyManualAdjustment, AdminFreeze, AdminUnfreeze

(***************************************************************************)
(* Whatever a handler, a worker or an administrator does, it does to the   *)
(* tables a LedgerStep or nothing.                                         *)
(***************************************************************************)
LEMMA GatewayTables ==
    ASSUME TypeOK, [GatewayNext]_vars
    PROVE  LedgerStep(WalletRefs) \/ UNCHANGED tableVars
<1> USE GatewayAssumption, RequestLedgerAssumption DEF tableVars
<1>1. ASSUME NEW r \in Requests, MarkOrGiveUp(r), UNCHANGED walletVars
      PROVE  LedgerStep(WalletRefs) \/ UNCHANGED tableVars
    BY <1>1 DEF MarkOrGiveUp, LedgerStep
<1>2. ASSUME NEW r \in Requests, Admit(r)
      PROVE  LedgerStep(WalletRefs)
    BY <1>2 DEF Admit, LedgerStep
<1>3. ASSUME NEW r \in Requests, Capture(r)
      PROVE  LedgerStep(WalletRefs) \/ UNCHANGED tableVars
    <2>1. answer[r].id \in RequestIds \cup {NoId}
        BY DEF TypeOK
    <2> QED  BY <1>3, <2>1 DEF Capture, LedgerStep
<1>4. ASSUME NEW r \in Requests, SettleCommit(r)
      PROVE  LedgerStep(WalletRefs) \/ UNCHANGED tableVars
    <2>1. usage[r] \in 0..MaxCharge
        BY DEF TypeOK
    <2> QED  BY <1>4, <2>1 DEF SettleCommit, LedgerStep
<1>5. ASSUME NEW r \in Requests,
             Reject(r) \/ PassError(r) \/ WriteEmpty(r) \/ Mark(r) \/ Sweep(r)
      PROVE  LedgerStep(WalletRefs) \/ UNCHANGED tableVars
    BY <1>1, <1>5 DEF Reject, PassError, WriteEmpty, Mark, Sweep, MarkOrGiveUp
<1>6. ASSUME ReconcileWrite
      PROVE  LedgerStep(WalletRefs) \/ UNCHANGED tableVars
    BY <1>1, <1>6 DEF ReconcileWrite, MarkOrGiveUp
<1>7. ASSUME WalletEvent
      PROVE  LedgerStep(WalletRefs)
    BY WalletEventTables, <1>7
<1>8. ASSUME NEW r \in Requests,
             \/ Enter(r) \/ Authenticate(r) \/ EarlyReturn(r) \/ NoResponse(r)
             \/ Respond(r) \/ Relayed(r) \/ Finalize(r) \/ FinalizeEmpty(r)
             \/ Return(r) \/ SettleRead(r) \/ SettleGiveUp(r)
             \/ UpstreamLog(r) \/ ReconcileRow(r)
      PROVE  UNCHANGED tableVars
    BY <1>8 DEF Enter, Authenticate, EarlyReturn, NoResponse, Respond, Relayed,
                Finalize, FinalizeEmpty, Return, SettleRead, SettleGiveUp,
                UpstreamLog, ReconcileRow
<1>9. ASSUME Crash \/ \E id \in RequestIds : ReconcileOrphan(id)
       PROVE  UNCHANGED tableVars
    BY <1>9 DEF Crash, ReconcileOrphan
<1>10. CASE UNCHANGED vars
    BY <1>10 DEF vars
<1> QED  BY <1>2, <1>3, <1>4, <1>5, <1>6, <1>7, <1>8, <1>9, <1>10
         DEF GatewayNext, HandlerStep

-----------------------------------------------------------------------------
(* Types.                                                                  *)

HandlerTypeOK ==
    /\ pc \in [Requests -> HandlerStates]
    /\ held \in [Requests -> BOOLEAN]
    /\ inflight \in Nat
    /\ answer \in [Requests -> [id : RequestIds \cup {NoId}, outcome : Outcomes]]
    /\ usage \in [Requests -> 0..MaxCharge]

WorkerTypeOK ==
    /\ logs \subseteq RequestIds
    /\ recon \in Requests \cup RequestIds \cup {Nothing}
    /\ orphans \subseteq RequestIds
    /\ crashes \in 0..MaxCrashes

\* The type invariant is that of the tables, of the handlers and of the
\* workers.
LEMMA TypeParts == TypeOK <=> LedgerTypeOK(WalletRefs) /\ HandlerTypeOK /\ WorkerTypeOK
BY DEF TypeOK, LedgerTypeOK, HandlerTypeOK, WorkerTypeOK

\* A handler moves to one of its states.
LEMMA GotoType ==
    ASSUME NEW r \in Requests, NEW state \in HandlerStates,
           pc \in [Requests -> HandlerStates], Goto(r, state)
    PROVE  pc' \in [Requests -> HandlerStates]
BY DEF Goto

\* Releasing a slot keeps the counter a natural number.
LEMMA CleanupType ==
    ASSUME NEW r \in Requests, held \in [Requests -> BOOLEAN], inflight \in Nat,
           Cleanup(r)
    PROVE  held' \in [Requests -> BOOLEAN] /\ inflight' \in Nat
BY DEF Cleanup

(***************************************************************************)
(* Every step keeps the handlers' variables in their types.                *)
(***************************************************************************)
LEMMA HandlerTypeStep ==
    ASSUME TypeOK, [GatewayNext]_vars
    PROVE  HandlerTypeOK'
<1> USE GatewayAssumption, RequestLedgerAssumption, TypeParts DEF HandlerTypeOK
<1>1. ASSUME UNCHANGED handlerVars
      PROVE  HandlerTypeOK'
    BY <1>1 DEF handlerVars
<1>2. ASSUME NEW r \in Requests, NEW state \in HandlerStates, Goto(r, state),
             UNCHANGED <<held, inflight, answer, usage>>
      PROVE  HandlerTypeOK'
    BY <1>2, GotoType
<1>3. ASSUME NEW r \in Requests, NEW state \in HandlerStates, Goto(r, state),
             Cleanup(r), UNCHANGED <<answer, usage>>
      PROVE  HandlerTypeOK'
    BY <1>3, GotoType, CleanupType
<1>4. ASSUME NEW r \in Requests, Enter(r)
      PROVE  HandlerTypeOK'
    <2>1. pc' \in [Requests -> HandlerStates]
        BY <1>4, GotoType DEF Enter, HandlerStates
    <2>2. \/ UNCHANGED <<held, inflight>>
          \/ held' = [held EXCEPT ![r] = TRUE] /\ inflight' = inflight + 1
        BY <1>4 DEF Enter
    <2>3. held' \in [Requests -> BOOLEAN]
        BY <2>2
    <2>4. inflight' \in Nat
        BY <2>2
    <2> QED  BY <1>4, <2>1, <2>3, <2>4 DEF Enter
<1>5. ASSUME NEW r \in Requests,
             \/ Authenticate(r) \/ Admit(r) \/ NoResponse(r) \/ Capture(r)
             \/ PassError(r) \/ WriteEmpty(r) \/ Return(r) \/ Mark(r)
             \/ SettleRead(r) \/ SettleCommit(r) \/ SettleGiveUp(r)
      PROVE  HandlerTypeOK'
    <2>1. \E state \in HandlerStates : Goto(r, state)
        BY <1>5 DEF Authenticate, Admit, NoResponse, Capture, PassError, WriteEmpty,
                    Return, Mark, SettleRead, SettleCommit, SettleGiveUp, HandlerStates
    <2>2. UNCHANGED <<held, inflight, answer, usage>>
        BY <1>5 DEF Authenticate, Admit, NoResponse, Capture, PassError, WriteEmpty,
                    Return, Mark, SettleRead, SettleCommit, SettleGiveUp
    <2> QED  BY <1>2, <2>1, <2>2
<1>6. ASSUME NEW r \in Requests,
             EarlyReturn(r) \/ Reject(r) \/ Relayed(r) \/ FinalizeEmpty(r)
      PROVE  HandlerTypeOK'
    <2>1. \E state \in HandlerStates : Goto(r, state)
        BY <1>6 DEF EarlyReturn, Reject, Relayed, FinalizeEmpty, HandlerStates
    <2>2. Cleanup(r) /\ UNCHANGED <<answer, usage>>
        BY <1>6 DEF EarlyReturn, Reject, Relayed, FinalizeEmpty
    <2> QED  BY <1>3, <2>1, <2>2
<1>7. ASSUME NEW r \in Requests, Respond(r)
      PROVE  HandlerTypeOK'
    <2>1. pc' \in [Requests -> HandlerStates]
        BY <1>7, GotoType DEF Respond, HandlerStates
    <2>2. answer' \in [Requests -> [id : RequestIds \cup {NoId}, outcome : Outcomes]]
        BY <1>7 DEF Respond
    <2> QED  BY <1>7, <2>1, <2>2 DEF Respond
<1>8. ASSUME NEW r \in Requests, Finalize(r)
      PROVE  HandlerTypeOK'
    <2>1. /\ \E state \in HandlerStates : Goto(r, state)
          /\ usage' \in [Requests -> 0..MaxCharge]
        BY <1>8 DEF Finalize, HandlerStates
    <2>2. pc' \in [Requests -> HandlerStates]
        BY <2>1, GotoType
    <2>3. held' \in [Requests -> BOOLEAN] /\ inflight' \in Nat /\ UNCHANGED answer
        BY <1>8, CleanupType DEF Finalize
    <2> QED  BY <2>1, <2>2, <2>3
<1>9. ASSUME Crash
      PROVE  HandlerTypeOK'
    BY <1>9 DEF Crash, HandlerStates
<1>10. ASSUME NEW r \in Requests, Sweep(r) \/ UpstreamLog(r) \/ ReconcileRow(r)
       PROVE  UNCHANGED handlerVars
    BY <1>10 DEF Sweep, UpstreamLog, ReconcileRow
<1>11. ASSUME \/ \E id \in RequestIds : ReconcileOrphan(id)
              \/ ReconcileWrite
              \/ WalletEvent
       PROVE  UNCHANGED handlerVars
    BY <1>11, WalletEventElsewhere DEF ReconcileOrphan, ReconcileWrite
<1>12. CASE UNCHANGED vars
    BY <1>1, <1>12 DEF vars
<1> QED  BY <1>1, <1>4, <1>5, <1>6, <1>7, <1>8, <1>9, <1>10, <1>11, <1>12
         DEF GatewayNext, HandlerStep

(***************************************************************************)
(* Every step keeps the workers' variables in their types.                 *)
(***************************************************************************)
LEMMA WorkerTypeStep ==
    ASSUME TypeOK, [GatewayNext]_vars
    PROVE  WorkerTypeOK'
<1> USE GatewayAssumption, RequestLedgerAssumption, TypeParts DEF WorkerTypeOK
<1>1. ASSUME NEW r \in Requests, UpstreamLog(r)
      PROVE  WorkerTypeOK'
    <2>1. {answer[r].id, newapiRequestId[r]} \subseteq RequestIds \cup {NoId}
        BY DEF HandlerTypeOK, LedgerTypeOK, RequestTypeOK
    <2> QED  BY <1>1, <2>1 DEF UpstreamLog
<1>2. ASSUME NEW r \in Requests, ReconcileRow(r)
      PROVE  WorkerTypeOK'
    BY <1>2 DEF ReconcileRow
<1>3. ASSUME NEW id \in RequestIds, ReconcileOrphan(id)
      PROVE  WorkerTypeOK'
    BY <1>3 DEF ReconcileOrphan
<1>4. ASSUME ReconcileWrite
      PROVE  WorkerTypeOK'
    BY <1>4 DEF ReconcileWrite
<1>5. ASSUME Crash
      PROVE  WorkerTypeOK'
    BY <1>5 DEF Crash
<1>6. ASSUME NEW r \in Requests, Enter(r) \/ HandlerStep(r) \/ Sweep(r)
      PROVE  UNCHANGED <<workerVars, crashes>>
    BY <1>6 DEF HandlerStep, Enter, Authenticate, EarlyReturn, Admit, NoResponse,
                Respond, Capture, Reject, PassError, Relayed, Finalize,
                FinalizeEmpty, WriteEmpty, Return, Mark, SettleRead, SettleCommit,
                SettleGiveUp, Sweep
<1>7. ASSUME WalletEvent
      PROVE  UNCHANGED <<workerVars, crashes>>
    BY <1>7, WalletEventElsewhere
<1>8. CASE UNCHANGED <<workerVars, crashes>>
    BY <1>8 DEF workerVars
<1>9. CASE UNCHANGED vars
    BY <1>8, <1>9 DEF vars
<1> QED  BY <1>1, <1>2, <1>3, <1>4, <1>5, <1>6, <1>7, <1>8, <1>9 DEF GatewayNext

\* The process starts with well-typed tables and memory.
LEMMA InitType == GatewayInit => TypeOK
<1> USE GatewayAssumption, RequestLedgerAssumption
<1> SUFFICES ASSUME GatewayInit PROVE TypeOK
    OBVIOUS
<1>1. LedgerTypeOK(WalletRefs)
    <2>1. \A u \in Users : walletLedger[u] \in Seq(EntriesOf(Requests \cup WalletRefs))
        BY DEF GatewayInit, WalletInit
    <2> QED  BY <2>1 DEF GatewayInit, WalletInit, LedgerTypeOK, WalletTypeOK,
                         RequestTypeOK, Statuses, Unresolved
<1>2. HandlerTypeOK
    BY DEF GatewayInit, HandlerTypeOK, HandlerStates, NoAnswer, Outcomes
<1>3. WorkerTypeOK
    BY DEF GatewayInit, WorkerTypeOK
<1> QED  BY <1>1, <1>2, <1>3, TypeParts

\* The tables keep their types under every step they are allowed.
LEMMA TablesType ==
    ASSUME LedgerTypeOK(WalletRefs), LedgerStep(WalletRefs) \/ UNCHANGED tableVars
    PROVE  LedgerTypeOK(WalletRefs)'
<1>1. CASE LedgerStep(WalletRefs)
    BY <1>1, LedgerStepType
<1>2. CASE UNCHANGED tableVars
    BY <1>2 DEF tableVars, walletVars, requestVars, LedgerTypeOK, WalletTypeOK,
                RequestTypeOK
<1> QED  BY <1>1, <1>2

\* Every step of the gateway keeps the type invariant.
LEMMA TypeStep ==
    ASSUME TypeOK, [GatewayNext]_vars
    PROVE  TypeOK'
<1>1. LedgerTypeOK(WalletRefs)'
    BY TypeParts, GatewayTables, TablesType
<1> QED  BY <1>1, HandlerTypeStep, WorkerTypeStep
         DEF TypeOK, LedgerTypeOK, HandlerTypeOK, WorkerTypeOK

(***************************************************************************)
(* The type invariant of the gateway: in particular the in-flight counter  *)
(* never goes below zero, whatever path releases a slot.                   *)
(***************************************************************************)
THEOREM TypeCorrect == GatewaySafetySpec => []TypeOK
BY InitType, TypeStep, PTL DEF GatewaySafetySpec

-----------------------------------------------------------------------------
(* Money and attribution.                                                  *)

TableInv ==
    /\ TypeOK
    /\ WalletConserved
    /\ SettledIffCharged
    /\ OneRowPerUpstreamCall
    /\ RiskSlotsBounded

\* A new process finds tables that satisfy the table invariant.
LEMMA InitTables == GatewayInit => TableInv
<1> USE GatewayAssumption, RequestLedgerAssumption
<1> SUFFICES ASSUME GatewayInit PROVE TableInv
    OBVIOUS
<1>1. WalletConserved
    BY DEF GatewayInit, WalletInit, WalletConserved, BalanceAfter
<1>2. SettledIffCharged
    <2>1. \A r \in Requests : ChargesOf(r) = {} /\ status[r] # "settled" /\ charged[r] = 0
        BY DEF GatewayInit, WalletInit, ChargesOf
    <2> QED  BY <2>1 DEF SettledIffCharged
<1>3. OneRowPerUpstreamCall
    BY DEF GatewayInit
<1>4. RiskSlotsBounded
    <2>1. \A u \in Users : RiskSlots(u) = {r \in LegacyRows : Owner[r] = u}
        BY DEF GatewayInit, RiskSlots, Unresolved
    <2> QED  BY <2>1 DEF RiskSlotsBounded
<1> QED  BY <1>1, <1>2, <1>3, <1>4, InitType DEF TableInv

\* Every step the tables are allowed keeps their invariant.
LEMMA TablesStep ==
    ASSUME TableInv, TypeOK', LedgerStep(WalletRefs) \/ UNCHANGED tableVars
    PROVE  TableInv'
<1>1. CASE LedgerStep(WalletRefs)
    <2>1. TypeOK /\ LedgerTypeOK(WalletRefs)
        BY TypeParts DEF TableInv
    <2> QED  BY <1>1, <2>1, LedgerStepConserves, LedgerStepSettles, LedgerStepOneRow,
                LedgerStepSlots DEF TableInv
<1>2. CASE UNCHANGED tableVars
    <2>1. UNCHANGED <<balance, walletLedger, status, newapiRequestId, charged>>
        BY <1>2 DEF tableVars, walletVars, requestVars
    <2>2. WalletConserved' /\ OneRowPerUpstreamCall'
        BY <2>1 DEF TableInv, WalletConserved, OneRowPerUpstreamCall
    <2>3. SettledIffCharged'
        <3>1. \A r \in Requests : ChargesOf(r)' = ChargesOf(r)
            BY <2>1 DEF ChargesOf
        <3> QED  BY <2>1, <3>1 DEF TableInv, SettledIffCharged
    <2>4. RiskSlotsBounded'
        BY <2>1 DEF TableInv, RiskSlotsBounded, RiskSlots
    <2> QED  BY <2>2, <2>3, <2>4 DEF TableInv
<1> QED  BY <1>1, <1>2

\* The invariant of the tables holds in every state of the gateway.
LEMMA TableInvariant == GatewaySafetySpec => []TableInv
<1>1. TableInv /\ [GatewayNext]_vars => TableInv'
    BY TypeStep, GatewayTables, TablesStep DEF TableInv
<1> QED  BY <1>1, InitTables, PTL DEF GatewaySafetySpec

(***************************************************************************)
(* The wallet is the sum of its ledger, under every interleaving of        *)
(* settlements and recharges.                                              *)
(***************************************************************************)
THEOREM MoneyConserved == GatewaySafetySpec => []WalletConserved
BY TableInvariant, PTL DEF TableInv

(***************************************************************************)
(* A request is charged exactly when it is settled, once, and for the      *)
(* amount of its row.                                                      *)
(***************************************************************************)
THEOREM ChargedExactlyOnce == GatewaySafetySpec => []SettledIffCharged
BY TableInvariant, PTL DEF TableInv

(***************************************************************************)
(* A call New API served is attributed to one request at most.             *)
(***************************************************************************)
THEOREM AttributedOnce == GatewaySafetySpec => []OneRowPerUpstreamCall
BY TableInvariant, PTL DEF TableInv

(***************************************************************************)
(* No user ever holds more risk slots than the limit.                      *)
(***************************************************************************)
THEOREM RiskLimited == GatewaySafetySpec => []RiskSlotsBounded
BY TableInvariant, PTL DEF TableInv

(***************************************************************************)
(* A terminal row is never written again by a late handler, the sweeper or *)
(* the reconcile worker.                                                   *)
(***************************************************************************)
THEOREM TerminalRowsAreFinal == GatewaySafetySpec => TerminalIsFinal
<1>1. TypeOK /\ [GatewayNext]_vars =>
         [\A r \in Requests : status[r] \in Terminal =>
             /\ status'[r] = status[r]
             /\ charged'[r] = charged[r]
             /\ newapiRequestId'[r] = newapiRequestId[r]]_requestVars
    BY GatewayTables, TypeParts, LedgerStepFinal DEF tableVars, requestVars
<1> QED  BY <1>1, TypeCorrect, PTL DEF GatewaySafetySpec, TerminalIsFinal

(***************************************************************************)
(* Money leaves a wallet by an administrator's debit or with the           *)
(* settlement of one of its owner's requests, and a wallet a settlement    *)
(* drives below the threshold is frozen with it.                           *)
(***************************************************************************)
THEOREM OverdraftsFreeze == GatewaySafetySpec => OverdraftFreezes
<1>1. TypeOK /\ [GatewayNext]_vars =>
         [\A u \in Users : balance'[u] < balance[u] =>
             \/ DebitsOf(u)' # DebitsOf(u) /\ UNCHANGED requestVars
             \/ /\ \E r \in Requests : /\ Owner[r] = u
                                       /\ status[r] \in Unresolved
                                       /\ status'[r] = "settled"
                                       /\ balance'[u] = balance[u] - charged'[r]
                /\ balance'[u] < -FreezeThreshold => frozen'[u] # "none"
         ]_<<walletVars, requestVars>>
    BY GatewayTables, TypeParts, LedgerStepOverdraft DEF tableVars
<1> QED  BY <1>1, TypeCorrect, PTL DEF GatewaySafetySpec, OverdraftFreezes

-----------------------------------------------------------------------------
(* In-flight slots.                                                        *)

Holders == {r \in Requests : held[r]}

\* The states in which a handler may still own its slot.
Holding == {"auth", "ready", "forwarding", "responded", "rejecting", "passing",
            "relaying", "streaming"}

\* The states before admission, in which it certainly does.
Entering == {"auth", "ready"}

SlotInv ==
    /\ InflightExact
    /\ \A r \in Requests : held[r] => pc[r] \in Holding
    /\ \A r \in Requests : pc[r] \in Entering => held[r]

\* The handlers that own a slot can be counted.
LEMMA HoldersFinite == IsFiniteSet(Holders) /\ Cardinality(Holders) \in Nat
<1>1. Holders \in SUBSET Requests
    BY DEF Holders
<1> QED  BY <1>1, FS_Subset, FS_CardinalityType, RequestLedgerAssumption

\* A handler moves on and keeps what it owns.
LEMMA MoveKeepsSlots ==
    ASSUME TypeOK, SlotInv, NEW r \in Requests, NEW state \in HandlerStates,
           Goto(r, state), UNCHANGED <<held, inflight>>,
           pc[r] \in Holding => state \in Holding,
           state \in Entering => pc[r] \in Entering
    PROVE  SlotInv'
<1>1. Holders' = Holders
    BY DEF Holders
<1>2. \A q \in Requests : /\ held'[q] => pc'[q] \in Holding
                          /\ pc'[q] \in Entering => held'[q]
    BY DEF Goto, TypeOK, SlotInv
<1>3. \A q \in Requests : held'[q] => Running(q)'
    BY <1>2 DEF Running, Holding
<1> QED  BY <1>1, <1>2, <1>3 DEF SlotInv, InflightExact, Holders

\* A handler cleans up, for the first or for a later time.
LEMMA CleanupKeepsSlots ==
    ASSUME TypeOK, SlotInv, NEW r \in Requests, NEW state \in HandlerStates,
           state \notin Entering, Goto(r, state), Cleanup(r)
    PROVE  SlotInv'
<1> USE GatewayAssumption
<1>1. /\ ~held'[r]
      /\ \A q \in Requests \ {r} : held'[q] = held[q] /\ pc'[q] = pc[q]
    BY DEF Cleanup, Goto, TypeOK
<1>2. \A q \in Requests : /\ held'[q] => pc'[q] \in Holding
                          /\ pc'[q] \in Entering => held'[q]
    <2>1. pc'[r] \notin Entering
        BY DEF Goto, TypeOK
    <2> QED  BY <1>1, <2>1 DEF SlotInv
<1>3. \A q \in Requests : held'[q] => Running(q)'
    BY <1>2 DEF Running, Holding
<1>4. inflight = Cardinality(Holders) /\ inflight <= MaxInflight
    BY DEF SlotInv, InflightExact, Holders
<1>5. inflight' = Cardinality(Holders') /\ inflight' <= MaxInflight
    <2>1. CASE held[r]
        <3>1. Holders' = Holders \ {r} /\ r \in Holders
            BY <1>1, <2>1 DEF Holders
        <3>2. Cardinality(Holders') = Cardinality(Holders) - 1
            BY <3>1, HoldersFinite, FS_RemoveElement
        <3>3. Cardinality(Holders) # 0
            BY <3>1, HoldersFinite, FS_EmptySet
        <3>4. inflight' = inflight - 1
            BY <1>4, <2>1, <3>3, HoldersFinite DEF Cleanup
        <3> QED  BY <1>4, <3>2, <3>4, HoldersFinite
    <2>2. CASE ~held[r]
        <3>1. Holders' = Holders
            BY <1>1, <2>2 DEF Holders
        <3>2. inflight' = inflight
            BY <2>2 DEF Cleanup
        <3> QED  BY <1>4, <3>1, <3>2
    <2> QED  BY <2>1, <2>2
<1> QED  BY <1>2, <1>3, <1>5 DEF SlotInv, InflightExact, Holders

\* tryAcquire takes one slot for one handler, and only below the maximum.
LEMMA EnterKeepsSlots ==
    ASSUME TypeOK, SlotInv, NEW r \in Requests, Enter(r)
    PROVE  SlotInv'
<1> USE GatewayAssumption
<1>1. ~held[r]
    BY DEF Enter, SlotInv, Holding
<1>2. CASE inflight < MaxInflight
    <2>1. /\ held'[r] /\ pc'[r] = "auth" /\ inflight' = inflight + 1
          /\ \A q \in Requests \ {r} : held'[q] = held[q] /\ pc'[q] = pc[q]
        BY <1>2 DEF Enter, Goto, TypeOK
    <2>2. Holders' = Holders \cup {r} /\ r \notin Holders
        BY <1>1, <2>1 DEF Holders
    <2>3. Cardinality(Holders') = Cardinality(Holders) + 1
        BY <2>2, HoldersFinite, FS_AddElement
    <2>4. inflight' = Cardinality(Holders')
        BY <2>1, <2>3 DEF SlotInv, InflightExact, Holders
    <2>5. inflight' <= MaxInflight
        BY <1>2, <2>1 DEF TypeOK
    <2>6. \A q \in Requests : /\ held'[q] => pc'[q] \in Holding
                              /\ pc'[q] \in Entering => held'[q]
        BY <2>1 DEF SlotInv, Holding
    <2>7. \A q \in Requests : held'[q] => Running(q)'
        BY <2>6 DEF Running, Holding
    <2> QED  BY <2>4, <2>5, <2>6, <2>7 DEF SlotInv, InflightExact, Holders
<1>3. CASE ~(inflight < MaxInflight)
    <2>1. Goto(r, "done") /\ UNCHANGED <<held, inflight>>
        BY <1>3 DEF Enter
    <2>2. pc[r] \notin Holding
        BY DEF Enter, Holding
    <2> QED  BY <2>1, <2>2, MoveKeepsSlots DEF HandlerStates, Entering
<1> QED  BY <1>2, <1>3

\* Every step of the gateway keeps the slot invariant.
LEMMA SlotStep ==
    ASSUME TypeOK, SlotInv, [GatewayNext]_vars
    PROVE  SlotInv'
<1>1. ASSUME UNCHANGED handlerVars
      PROVE  SlotInv'
    <2>1. UNCHANGED <<pc, held, inflight>>
        BY <1>1 DEF handlerVars
    <2>2. InflightExact'
        BY <2>1 DEF SlotInv, InflightExact, Running
    <2> QED  BY <2>1, <2>2 DEF SlotInv
<1>2. ASSUME NEW r \in Requests,
             \/ Authenticate(r) \/ Admit(r) \/ NoResponse(r) \/ Respond(r)
             \/ Capture(r) \/ PassError(r) \/ WriteEmpty(r) \/ Return(r)
             \/ Mark(r) \/ SettleRead(r) \/ SettleCommit(r) \/ SettleGiveUp(r)
      PROVE  SlotInv'
    <2>1. \E state \in HandlerStates :
             /\ Goto(r, state)
             /\ pc[r] \in Holding => state \in Holding
             /\ state \in Entering => pc[r] \in Entering
        BY <1>2 DEF Authenticate, Admit, NoResponse, Respond, Capture, PassError,
                    WriteEmpty, Return, Mark, SettleRead, SettleCommit, SettleGiveUp,
                    HandlerStates, Holding, Entering
    <2>2. UNCHANGED <<held, inflight>>
        BY <1>2 DEF Authenticate, Admit, NoResponse, Respond, Capture, PassError,
                    WriteEmpty, Return, Mark, SettleRead, SettleCommit, SettleGiveUp
    <2> QED  BY <2>1, <2>2, MoveKeepsSlots
<1>3. ASSUME NEW r \in Requests,
             EarlyReturn(r) \/ Reject(r) \/ Relayed(r) \/ Finalize(r) \/ FinalizeEmpty(r)
      PROVE  SlotInv'
    <2>1. Cleanup(r) /\ \E state \in HandlerStates \ Entering : Goto(r, state)
        BY <1>3 DEF EarlyReturn, Reject, Relayed, Finalize, FinalizeEmpty, HandlerStates,
                    Entering
    <2> QED  BY <2>1, CleanupKeepsSlots
<1>4. ASSUME Crash
      PROVE  SlotInv'
    <2>1. \A r \in Requests : ~held'[r]
        BY <1>4 DEF Crash
    <2>2. {r \in Requests : held'[r]} = {} /\ inflight' = 0
        BY <1>4, <2>1 DEF Crash
    <2>3. \A r \in Requests : pc'[r] \notin Entering
        BY <1>4 DEF Crash, Running, Entering
    <2>4. InflightExact'
        BY <2>1, <2>2, FS_EmptySet, GatewayAssumption DEF InflightExact
    <2> QED  BY <2>1, <2>3, <2>4 DEF SlotInv
<1>5. ASSUME NEW r \in Requests, Sweep(r) \/ UpstreamLog(r) \/ ReconcileRow(r)
      PROVE  UNCHANGED handlerVars
    BY <1>5 DEF Sweep, UpstreamLog, ReconcileRow
<1>6. ASSUME \/ \E id \in RequestIds : ReconcileOrphan(id)
             \/ ReconcileWrite
             \/ WalletEvent
             \/ UNCHANGED vars
      PROVE  UNCHANGED handlerVars
    BY <1>6, WalletEventElsewhere DEF ReconcileOrphan, ReconcileWrite, vars
<1> QED  BY <1>1, <1>2, <1>3, <1>4, <1>5, <1>6, EnterKeepsSlots
         DEF GatewayNext, HandlerStep

\* A new process has no slot taken.
LEMMA InitSlots == GatewayInit => SlotInv
<1> SUFFICES ASSUME GatewayInit PROVE SlotInv
    OBVIOUS
<1>1. {r \in Requests : held[r]} = {} /\ inflight = 0
    BY DEF GatewayInit
<1>2. \A r \in Requests : ~held[r] /\ pc[r] \notin Entering
    BY DEF GatewayInit, Entering
<1> QED  BY <1>1, <1>2, FS_EmptySet, GatewayAssumption DEF SlotInv, InflightExact

(***************************************************************************)
(* The in-flight counter is exact: every handler that took a slot gives it *)
(* back once, whichever of early(), finalize and the catch block runs, and *)
(* the counter never passes the configured maximum.                        *)
(***************************************************************************)
THEOREM InflightIsExact == GatewaySafetySpec => []InflightExact
<1>1. SlotInv => InflightExact
    BY DEF SlotInv
<1> QED  BY <1>1, InitSlots, SlotStep, TypeCorrect, PTL
         DEF GatewaySafetySpec

-----------------------------------------------------------------------------
(* How far a wallet can go into debt.                                      *)

\* Authenticated, not admitted yet: the wallet has been read for the last time.
Waiting(u) == {r \in Requests : Owner[r] = u /\ pc[r] = "ready"}

\* Requests of u that may still charge its wallet.
Exposure(u) == Cardinality(Waiting(u)) + Cardinality(RiskSlots(u))

\* What is left above the bound pays for every one of them; what an
\* administrator took counts as if it were still there.
Headroom ==
    \A u \in Users :
        Backed(u) + MaxCharge * ((MaxInflight + RiskLimit) - Exposure(u)) > 0

\* Multiplication by a constant is monotone, and a step of one costs one factor.
LEMMA Scale ==
    ASSUME NEW m \in Nat, NEW a \in Int, NEW b \in Int
    PROVE  /\ m * a \in Int
           /\ a <= b => m * a <= m * b
           /\ m * (a + 1) = m * a + m
OBVIOUS

\* The debits of a wallet can be counted, and what backs it is a number.
LEMMA BackedType ==
    ASSUME NEW Refs, WalletTypeOK(Refs), NEW u \in Users
    PROVE  /\ IsFiniteSet(DebitsOf(u)) /\ Cardinality(DebitsOf(u)) \in Nat
           /\ balance[u] \in Int
           /\ Backed(u) \in Int /\ balance[u] <= Backed(u)
<1> USE GatewayAssumption
<1>1. walletLedger[u] \in Seq(EntriesOf(Refs)) /\ balance[u] \in Int
    BY DEF WalletTypeOK
<1>2. DebitsOf(u) \in SUBSET (1..Len(walletLedger[u])) /\ Len(walletLedger[u]) \in Nat
    BY <1>1 DEF DebitsOf
<1>3. IsFiniteSet(DebitsOf(u)) /\ Cardinality(DebitsOf(u)) \in Nat
    <2>1. IsFiniteSet(1..Len(walletLedger[u]))
        BY <1>2, FS_Interval
    <2> QED  BY <1>2, <2>1, FS_Subset, FS_CardinalityType
<1> DEFINE n == Cardinality(DebitsOf(u))
<1>4. n \in Nat /\ MaxDebit \in Nat
    BY <1>3
<1> HIDE DEF n
<1>5. MaxDebit * n \in Int /\ MaxDebit * 0 <= MaxDebit * n
    BY <1>4, Scale
<1>6. balance[u] + MaxDebit * n \in Int /\ balance[u] <= balance[u] + MaxDebit * n
    BY <1>1, <1>5
<1> QED  BY <1>1, <1>3, <1>6 DEF Backed, n

\* A step that leaves a wallet alone leaves what backs it.
LEMMA BackedKept ==
    ASSUME NEW Refs, WalletTypeOK(Refs), NEW u \in Users,
           UNCHANGED <<balance, walletLedger>>
    PROVE  Backed(u)' = Backed(u) /\ Backed(u) <= Backed(u)'
<1>1. Backed(u)' = Backed(u)
    BY DEF Backed, DebitsOf
<1>2. Backed(u) \in Int
    BY BackedType
<1> QED  BY <1>1, <1>2

\* What an entry other than an administrator's debit does to what backs a
\* wallet, and that a debit within the maximum takes nothing from it.
LEMMA AppendBacked ==
    ASSUME NEW Refs, WalletTypeOK(Refs), NEW v \in Users, NEW type \in EntryTypes,
           NEW amount \in Int, NEW ref \in Refs,
           AppendLedgerEntryInTx(v, type, amount, ref)
    PROVE  /\ \A u \in Users \ {v} : Backed(u)' = Backed(u)
           /\ ~(type = "manual_adjustment" /\ amount < 0) => Backed(v)' = Backed(v) + amount
           /\ -MaxDebit <= amount /\ type = "manual_adjustment" => Backed(v) <= Backed(v)'
<1> USE GatewayAssumption
<1>1. /\ balance[v] \in Int /\ balance'[v] = balance[v] + amount
      /\ \A u \in Users \ {v} : balance'[u] = balance[u]
    BY DEF AppendLedgerEntryInTx, WalletTypeOK
<1>2. \A u \in Users \ {v} : DebitsOf(u)' = DebitsOf(u)
    BY AppendDebits
<1>3. \A u \in Users \ {v} : Backed(u)' = Backed(u)
    BY <1>1, <1>2 DEF Backed
<1> DEFINE n == Cardinality(DebitsOf(v))
           k == Cardinality(DebitsOf(v)')
<1>4. /\ n \in Nat /\ MaxDebit \in Nat /\ IsFiniteSet(DebitsOf(v))
      /\ Backed(v) = balance[v] + MaxDebit * n
      /\ Backed(v)' = balance[v] + amount + MaxDebit * k
    BY <1>1, BackedType DEF Backed
<1>5. CASE ~(type = "manual_adjustment" /\ amount < 0)
    <2>1. k = n
        BY <1>5, AppendDebits
    <2> HIDE DEF n, k
    <2>2. MaxDebit * n \in Int
        BY <1>4, Scale
    <2>3. Backed(v)' = Backed(v) + amount
        BY <1>1, <1>4, <2>1, <2>2
    <2>4. type = "manual_adjustment" => Backed(v) <= Backed(v)'
        BY <1>1, <1>4, <1>5, <2>2, <2>3
    <2> QED  BY <1>3, <1>5, <2>3, <2>4
<1>6. CASE type = "manual_adjustment" /\ amount < 0
    <2>1. k = n + 1
        BY <1>4, <1>6, AppendDebits, FS_AddElement
    <2> HIDE DEF n, k
    <2>2. MaxDebit * n \in Int /\ MaxDebit * k = MaxDebit * n + MaxDebit
        BY <1>4, <2>1, Scale
    <2>3. -MaxDebit <= amount => Backed(v) <= Backed(v)'
        BY <1>1, <1>4, <2>2
    <2> QED  BY <1>3, <1>6, <2>3
<1> QED  BY <1>5, <1>6

\* Payments and administrators take nothing from what backs a wallet.
LEMMA WalletEventBacked ==
    ASSUME TypeOK, WalletEvent, NEW u \in Users
    PROVE  Backed(u) <= Backed(u)'
<1> USE GatewayAssumption
<1> DEFINE Refs == Requests \cup WalletRefs
<1>1. WalletTypeOK(Refs) /\ Backed(u) \in Int /\ Backed(u) <= Backed(u)
    BY BackedType DEF TypeOK
<1> HIDE DEF Refs
<1>2. ASSUME NEW o \in Orders, Recharge(o)
      PROVE  Backed(u) <= Backed(u)'
    <2>1. /\ Payer[o] \in Users /\ RechargeAmount \in Int /\ o \in Refs
          /\ "recharge" \in EntryTypes /\ 0 <= RechargeAmount
          /\ AppendLedgerEntryInTx(Payer[o], "recharge", RechargeAmount, o)
        BY <1>2 DEF Recharge, WalletRefs, EntryTypes, Refs
    <2>2. /\ \A w \in Users \ {Payer[o]} : Backed(w)' = Backed(w)
          /\ Backed(Payer[o])' = Backed(Payer[o]) + RechargeAmount
        BY <1>1, <2>1, AppendBacked
    <2> QED  BY <1>1, <2>1, <2>2
<1>3. ASSUME NEW v \in Users, NEW amount \in AdjustmentAmounts,
             NEW key \in AdjustmentKeys, ApplyManualAdjustment(v, amount, key)
      PROVE  Backed(u) <= Backed(u)'
    <2>1. /\ amount \in Int /\ -MaxDebit <= amount /\ key \in Refs
          /\ "manual_adjustment" \in EntryTypes
          /\ AppendLedgerEntryInTx(v, "manual_adjustment", amount, key)
        BY <1>3 DEF ApplyManualAdjustment, WalletRefs, EntryTypes, Refs
    <2>2. /\ \A w \in Users \ {v} : Backed(w)' = Backed(w)
          /\ Backed(v) <= Backed(v)'
        BY <1>1, <2>1, AppendBacked
    <2> QED  BY <1>1, <2>2
<1>4. ASSUME NEW v \in Users, AdminFreeze(v) \/ AdminUnfreeze(v)
      PROVE  Backed(u) <= Backed(u)'
    <2>1. UNCHANGED <<balance, walletLedger>>
        BY <1>4 DEF AdminFreeze, AdminUnfreeze, FreezeWallet, UnfreezeWallet
    <2> QED  BY <1>1, <2>1, BackedKept
<1> QED  BY <1>2, <1>3, <1>4 DEF WalletEvent

\* The requests that may still charge a wallet can be counted.
LEMMA WaitingFinite ==
    ASSUME NEW u \in Users
    PROVE  IsFiniteSet(Waiting(u)) /\ Cardinality(Waiting(u)) \in Nat
<1>1. Waiting(u) \in SUBSET Requests
    BY DEF Waiting
<1> QED  BY <1>1, FS_Subset, FS_CardinalityType, RequestLedgerAssumption

\* The exposure of a wallet is a natural number.
LEMMA ExposureType ==
    ASSUME NEW u \in Users
    PROVE  Exposure(u) \in Nat /\ Exposure(u)' \in Nat
<1>1. Exposure(u) \in Nat
    BY WaitingFinite, RiskSlotsFinite DEF Exposure
<1>2. Waiting(u)' \in SUBSET Requests /\ RiskSlots(u)' \in SUBSET Requests
    BY DEF Waiting, RiskSlots
<1>3. Cardinality(Waiting(u)') \in Nat /\ Cardinality(RiskSlots(u)') \in Nat
    BY <1>2, FS_Subset, FS_CardinalityType, RequestLedgerAssumption
<1> QED  BY <1>1, <1>3 DEF Exposure

\* No more exposure and no less money leave the headroom open.
LEMMA HeadroomKept ==
    ASSUME TypeOK, TypeOK', NEW u \in Users,
           Backed(u) + MaxCharge * ((MaxInflight + RiskLimit) - Exposure(u)) > 0,
           Exposure(u)' <= Exposure(u), Backed(u) <= Backed(u)'
    PROVE  Backed(u)' + MaxCharge * ((MaxInflight + RiskLimit) - Exposure(u)') > 0
<1> USE GatewayAssumption, RequestLedgerAssumption
<1> DEFINE n == MaxInflight + RiskLimit
           a == n - Exposure(u)
           b == n - (Exposure(u)')
<1>1. a \in Int /\ b \in Int /\ a <= b /\ MaxCharge \in Nat
    BY ExposureType
<1>2. Backed(u) \in Int /\ Backed(u)' \in Int
    <2>1. /\ balance'[u] \in Int
          /\ walletLedger'[u] \in Seq(EntriesOf(Requests \cup WalletRefs))
        BY DEF TypeOK, WalletTypeOK
    <2>2. DebitsOf(u)' \in SUBSET (1..Len(walletLedger'[u])) /\ Len(walletLedger'[u]) \in Nat
        BY <2>1 DEF DebitsOf
    <2>3. \A m \in Nat : IsFiniteSet(1..m)
        BY FS_Interval
    <2>4. Cardinality(DebitsOf(u)') \in Nat
        BY <2>2, <2>3, FS_Subset, FS_CardinalityType
    <2>5. Backed(u) \in Int
        BY BackedType DEF TypeOK
    <2> QED  BY <2>1, <2>4, <2>5, Scale DEF Backed
<1>3. Backed(u) + MaxCharge * a > 0
    OBVIOUS
<1> SUFFICES Backed(u)' + MaxCharge * b > 0
    OBVIOUS
<1> HIDE DEF a, b
<1>4. MaxCharge * a \in Int /\ MaxCharge * b \in Int /\ MaxCharge * a <= MaxCharge * b
    BY <1>1, Scale
<1> QED  BY <1>2, <1>3, <1>4

\* A step that takes nothing from a wallet and exposes it no further
\* keeps its headroom.
LEMMA LessExposed ==
    ASSUME NEW u \in Users,
           Waiting(u)' \in SUBSET Waiting(u), RiskSlots(u)' \in SUBSET RiskSlots(u)
    PROVE  Exposure(u)' <= Exposure(u)
<1>1. /\ Cardinality(Waiting(u)') <= Cardinality(Waiting(u))
      /\ IsFiniteSet(Waiting(u)')
    BY WaitingFinite, FS_Subset
<1>2. /\ Cardinality(RiskSlots(u)') <= Cardinality(RiskSlots(u))
      /\ IsFiniteSet(RiskSlots(u)')
    BY RiskSlotsFinite, FS_Subset
<1>3. Cardinality(Waiting(u)') \in Nat /\ Cardinality(RiskSlots(u)') \in Nat
    BY <1>1, <1>2, FS_CardinalityType
<1> QED  BY <1>1, <1>2, <1>3, WaitingFinite, RiskSlotsFinite DEF Exposure

\* Authentication finds money in the wallet, and both kinds of slot are
\* limited.
LEMMA AuthenticateHeadroom ==
    ASSUME TypeOK, TypeOK', SlotInv', RiskSlotsBounded', Headroom,
           NEW r \in Requests, Authenticate(r)
    PROVE  Headroom'
<1> USE GatewayAssumption, RequestLedgerAssumption
<1>1. /\ UNCHANGED <<balance, walletLedger>> /\ status' = status
      /\ Spendable(Owner[r])
      /\ \A q \in Requests \ {r} : pc'[q] = pc[q]
    BY DEF Authenticate, Goto, TypeOK, walletVars, requestVars
<1> SUFFICES ASSUME NEW u \in Users
             PROVE  Backed(u)' + MaxCharge *
                       ((MaxInflight + RiskLimit) - Exposure(u)') > 0
    BY DEF Headroom
<1>2. CASE u = Owner[r]
    <2>1. Backed(u)' > 0 /\ Backed(u)' \in Int
        <3>1. balance[u] > 0 /\ WalletTypeOK(Requests \cup WalletRefs)
            BY <1>1, <1>2 DEF Spendable, TypeOK
        <3>2. balance[u] \in Int /\ Backed(u) \in Int /\ balance[u] <= Backed(u)
            BY <3>1, BackedType
        <3>3. Backed(u)' = Backed(u)
            BY <1>1, <3>1, BackedKept
        <3> QED  BY <3>1, <3>2, <3>3
    <2>2. Waiting(u)' \in SUBSET (Holders') /\ Holders' \in SUBSET Requests
        BY DEF Waiting, Holders, SlotInv, Entering
    <2>3. /\ Cardinality(Waiting(u)') <= Cardinality(Holders')
          /\ Cardinality(Waiting(u)') \in Nat /\ Cardinality(Holders') \in Nat
        BY <2>2, FS_Subset, FS_CardinalityType
    <2>4. Cardinality(Holders') <= MaxInflight
        BY DEF SlotInv, InflightExact, Holders
    <2>5. Cardinality(RiskSlots(u)') <= RiskLimit
        BY DEF RiskSlotsBounded
    <2>6. RiskSlots(u)' \in SUBSET Requests
        BY DEF RiskSlots
    <2>7. Cardinality(RiskSlots(u)') \in Nat
        BY <2>6, FS_Subset, FS_CardinalityType
    <2> DEFINE a == (MaxInflight + RiskLimit) - (Exposure(u)')
    <2>8. a \in Int /\ 0 <= a
        BY <2>3, <2>4, <2>5, <2>7 DEF Exposure
    <2> HIDE DEF a
    <2>9. MaxCharge * a \in Int /\ MaxCharge * 0 <= MaxCharge * a
        BY <2>8, Scale
    <2>10. Backed(u)' + MaxCharge * a > 0
        BY <2>1, <2>9
    <2> QED  BY <2>10 DEF a
<1>3. CASE u # Owner[r]
    <2>1. Waiting(u)' \in SUBSET Waiting(u) /\ RiskSlots(u)' \in SUBSET RiskSlots(u)
        BY <1>1, <1>3 DEF Waiting, RiskSlots
    <2>2. Backed(u) <= Backed(u)'
        BY <1>1, BackedKept DEF TypeOK
    <2> QED  BY <2>1, <2>2, LessExposed, HeadroomKept DEF Headroom
<1> QED  BY <1>2, <1>3

\* Admission turns a waiting request into a risk slot.
LEMMA AdmitHeadroom ==
    ASSUME TypeOK, TypeOK', Headroom, NEW r \in Requests, Admit(r)
    PROVE  Headroom'
<1> USE GatewayAssumption, RequestLedgerAssumption
<1>1. /\ UNCHANGED <<balance, walletLedger>>
      /\ pc[r] = "ready" /\ pc'[r] = "forwarding"
      /\ status[r] = "absent" /\ status'[r] = "open"
      /\ \A q \in Requests \ {r} : pc'[q] = pc[q] /\ status'[q] = status[q]
    BY DEF Admit, AdmitRequest, Goto, TypeOK, RequestTypeOK, walletVars
<1> SUFFICES ASSUME NEW u \in Users
             PROVE  Backed(u)' + MaxCharge *
                       ((MaxInflight + RiskLimit) - Exposure(u)') > 0
    BY DEF Headroom
<1>2. Backed(u) <= Backed(u)'
    BY <1>1, BackedKept DEF TypeOK
<1>3. CASE u = Owner[r]
    <2>1. Waiting(u)' = Waiting(u) \ {r} /\ r \in Waiting(u)
        BY <1>1, <1>3 DEF Waiting
    <2>2. RiskSlots(u)' = RiskSlots(u) \cup {r} /\ r \notin RiskSlots(u)
        BY <1>1, <1>3 DEF RiskSlots, Unresolved
    <2>3. Cardinality(Waiting(u)') = Cardinality(Waiting(u)) - 1
        BY <2>1, WaitingFinite, FS_RemoveElement
    <2>4. Cardinality(RiskSlots(u)') = Cardinality(RiskSlots(u)) + 1
        BY <2>2, RiskSlotsFinite, FS_AddElement
    <2>5. Exposure(u)' <= Exposure(u)
        BY <2>3, <2>4, WaitingFinite, RiskSlotsFinite DEF Exposure
    <2> QED  BY <1>2, <2>5, HeadroomKept DEF Headroom
<1>4. CASE u # Owner[r]
    <2>1. Waiting(u)' \in SUBSET Waiting(u) /\ RiskSlots(u)' \in SUBSET RiskSlots(u)
        BY <1>1, <1>4 DEF Waiting, RiskSlots
    <2> QED  BY <1>2, <2>1, LessExposed, HeadroomKept DEF Headroom
<1> QED  BY <1>3, <1>4

\* A settlement takes at most MaxCharge and gives one risk slot back.
LEMMA SettleHeadroom ==
    ASSUME TypeOK, TypeOK', Headroom,
           NEW r \in Requests, SettleInTx(r, usage[r]),
           \A q \in Requests : pc'[q] = "ready" => pc[q] = "ready"
    PROVE  Headroom'
<1> USE GatewayAssumption, RequestLedgerAssumption
<1> DEFINE c == usage[r]
<1>1. c \in 0..MaxCharge
    BY DEF TypeOK
<1>2. /\ \A u \in Users \ {Owner[r]} : Backed(u)' = Backed(u)
      /\ Backed(Owner[r])' = Backed(Owner[r]) - c
      /\ \A u \in Users : Backed(u) \in Int
    <2>1. /\ WalletTypeOK(Requests \cup WalletRefs) /\ r \in Requests \cup WalletRefs
          /\ Owner[r] \in Users /\ -c \in Int
          /\ "request_charge" \in EntryTypes /\ "request_charge" # "manual_adjustment"
          /\ AppendLedgerEntryInTx(Owner[r], "request_charge", -c, r)
        BY <1>1 DEF SettleInTx, TypeOK, EntryTypes
    <2>2. /\ \A u \in Users \ {Owner[r]} : Backed(u)' = Backed(u)
          /\ Backed(Owner[r])' = Backed(Owner[r]) + (-c)
        BY <2>1, AppendBacked
    <2>3. \A u \in Users : Backed(u) \in Int
        BY <2>1, BackedType
    <2> QED  BY <1>1, <2>1, <2>2, <2>3
<1>3. /\ status[r] \in Unresolved /\ status'[r] = "settled"
      /\ \A q \in Requests \ {r} : status'[q] = status[q]
    BY DEF SettleInTx, TypeOK, RequestTypeOK
<1>4. \A q \in Requests : pc'[q] = "ready" => pc[q] = "ready"
    OBVIOUS
<1> HIDE DEF c
<1> SUFFICES ASSUME NEW u \in Users
             PROVE  Backed(u)' + MaxCharge *
                       ((MaxInflight + RiskLimit) - Exposure(u)') > 0
    BY DEF Headroom
<1>5. Waiting(u)' \in SUBSET Waiting(u)
    BY <1>4 DEF Waiting
<1>6. CASE u = Owner[r]
    <2>1. RiskSlots(u)' = RiskSlots(u) \ {r} /\ r \in RiskSlots(u)
        BY <1>3, <1>6 DEF RiskSlots, Unresolved
    <2>2. Cardinality(RiskSlots(u)') = Cardinality(RiskSlots(u)) - 1
        BY <2>1, OneFewer, RiskSlotsFinite
    <2>3. /\ Cardinality(Waiting(u)') <= Cardinality(Waiting(u))
          /\ Cardinality(Waiting(u)') \in Nat
        BY <1>5, WaitingFinite, FS_Subset, FS_CardinalityType
    <2>4. Exposure(u)' + 1 <= Exposure(u)
        BY <2>2, <2>3, WaitingFinite, RiskSlotsFinite DEF Exposure
    <2>5. Backed(u)' = Backed(u) - c /\ Backed(u) \in Int
        BY <1>2, <1>6
    <2> DEFINE a == (MaxInflight + RiskLimit) - Exposure(u)
               b == (MaxInflight + RiskLimit) - (Exposure(u)')
    <2>6. a \in Int /\ b \in Int /\ a + 1 <= b /\ a + 1 \in Int
        BY <2>4, ExposureType
    <2>7. Backed(u) + MaxCharge * a > 0
        BY DEF Headroom
    <2> HIDE DEF a, b
    <2>8. /\ MaxCharge * (a + 1) = MaxCharge * a + MaxCharge
          /\ MaxCharge * (a + 1) <= MaxCharge * b
          /\ MaxCharge * a \in Int /\ MaxCharge * b \in Int
        BY <2>6, Scale
    <2>9. Backed(u)' + MaxCharge * b > 0
        BY <1>1, <2>5, <2>7, <2>8
    <2> QED  BY <2>9 DEF b
<1>7. CASE u # Owner[r]
    <2>1. RiskSlots(u)' \in SUBSET RiskSlots(u)
        BY <1>3, <1>7 DEF RiskSlots
    <2>2. Backed(u) <= Backed(u)'
        BY <1>2, <1>7
    <2> QED  BY <1>5, <2>1, <2>2, LessExposed, HeadroomKept DEF Headroom
<1> QED  BY <1>6, <1>7

\* Every other step adds no exposure and takes no money.
LEMMA QuietHeadroom ==
    ASSUME TypeOK, TypeOK', Headroom,
           \A r \in Requests : pc'[r] = "ready" => pc[r] = "ready",
           \A r \in Requests : status'[r] \in Unresolved => status[r] \in Unresolved,
           \A u \in Users : Backed(u) <= Backed(u)'
    PROVE  Headroom'
<1> SUFFICES ASSUME NEW u \in Users
             PROVE  Backed(u)' + MaxCharge *
                       ((MaxInflight + RiskLimit) - Exposure(u)') > 0
    BY DEF Headroom
<1>1. Waiting(u)' \in SUBSET Waiting(u) /\ RiskSlots(u)' \in SUBSET RiskSlots(u)
    BY DEF Waiting, RiskSlots
<1> QED  BY <1>1, LessExposed, HeadroomKept DEF Headroom

\* Every step of the gateway keeps the headroom of every wallet.
LEMMA HeadroomStep ==
    ASSUME TypeOK, TypeOK', SlotInv', RiskSlotsBounded', Headroom,
           [GatewayNext]_vars
    PROVE  Headroom'
<1> USE GatewayAssumption, RequestLedgerAssumption
<1>1. ASSUME NEW u \in Users, UNCHANGED <<balance, walletLedger>>
      PROVE  Backed(u) <= Backed(u)'
    BY <1>1, BackedKept DEF TypeOK
<1>2. ASSUME UNCHANGED <<balance, walletLedger, status>>,
             \A r \in Requests : pc'[r] = "ready" => pc[r] = "ready"
      PROVE  Headroom'
    BY <1>1, <1>2, QuietHeadroom
<1>3. ASSUME NEW r \in Requests, MarkOrGiveUp(r), UNCHANGED walletVars,
             \A q \in Requests : pc'[q] = "ready" => pc[q] = "ready"
      PROVE  Headroom'
    <2>1. \A q \in Requests : status'[q] \in Unresolved => status[q] \in Unresolved
        BY <1>3 DEF MarkOrGiveUp, MarkFailedUnbilled, TypeOK, RequestTypeOK,
                    Unresolved, requestVars
    <2>2. \A u \in Users : Backed(u) <= Backed(u)'
        BY <1>1, <1>3 DEF walletVars
    <2> QED  BY <1>3, <2>1, <2>2, QuietHeadroom
<1>4. ASSUME NEW r \in Requests, Capture(r)
      PROVE  Headroom'
    <2>1. UNCHANGED <<balance, walletLedger, status>>
        BY <1>4 DEF Capture, CaptureRequestId, walletVars, requestVars
    <2>2. \A q \in Requests : pc'[q] = "ready" => pc[q] = "ready"
        BY <1>4 DEF Capture, Goto, TypeOK
    <2> QED  BY <1>2, <2>1, <2>2
<1>5. ASSUME NEW r \in Requests,
             Reject(r) \/ PassError(r) \/ WriteEmpty(r) \/ Mark(r) \/ Sweep(r)
      PROVE  Headroom'
    <2>1. MarkOrGiveUp(r) /\ UNCHANGED walletVars
        BY <1>5 DEF Reject, PassError, WriteEmpty, Mark, Sweep, MarkOrGiveUp
    <2>2. \A q \in Requests : pc'[q] = "ready" => pc[q] = "ready"
        BY <1>5 DEF Reject, PassError, WriteEmpty, Mark, Sweep, Goto, TypeOK, handlerVars
    <2> QED  BY <1>3, <2>1, <2>2
<1>6. ASSUME ReconcileWrite
      PROVE  Headroom'
    <2>1. \A q \in Requests : pc'[q] = "ready" => pc[q] = "ready"
        BY <1>6 DEF ReconcileWrite, handlerVars
    <2>2. CASE recon \in Requests /\ MarkFailedUnbilled(recon)
        BY <1>3, <1>6, <2>1, <2>2 DEF ReconcileWrite, MarkOrGiveUp
    <2>3. CASE UNCHANGED requestVars
        BY <1>2, <1>6, <2>1, <2>3 DEF ReconcileWrite, walletVars, requestVars
    <2> QED  BY <1>6, <2>2, <2>3 DEF ReconcileWrite
<1>7. ASSUME NEW r \in Requests, SettleCommit(r)
      PROVE  Headroom'
    <2>1. \A q \in Requests : pc'[q] = "ready" => pc[q] = "ready"
        BY <1>7 DEF SettleCommit, Goto, TypeOK
    <2>2. CASE SettleInTx(r, usage[r])
        BY <2>1, <2>2, SettleHeadroom
    <2>3. CASE UNCHANGED <<walletVars, requestVars>>
        BY <1>2, <2>1, <2>3 DEF walletVars, requestVars
    <2> QED  BY <1>7, <2>2, <2>3 DEF SettleCommit
<1>8. ASSUME WalletEvent
      PROVE  Headroom'
    <2>1. UNCHANGED <<status, pc>>
        BY <1>8, WalletEventElsewhere, WalletEventRequests DEF handlerVars, requestVars
    <2>2. \A u \in Users : Backed(u) <= Backed(u)'
        BY <1>8, WalletEventBacked
    <2> QED  BY <2>1, <2>2, QuietHeadroom
<1>9. ASSUME NEW r \in Requests,
             \/ Enter(r) \/ EarlyReturn(r) \/ NoResponse(r)
             \/ Respond(r) \/ Relayed(r) \/ Finalize(r) \/ FinalizeEmpty(r)
             \/ Return(r) \/ SettleRead(r) \/ SettleGiveUp(r)
      PROVE  Headroom'
    <2>1. UNCHANGED <<balance, walletLedger, status>>
        BY <1>9 DEF Enter, EarlyReturn, NoResponse, Respond, Relayed, Finalize,
                    FinalizeEmpty, Return, SettleRead, SettleGiveUp, walletVars,
                    requestVars
    <2>2. \E state : Goto(r, state) /\ state # "ready"
        BY <1>9 DEF Enter, EarlyReturn, NoResponse, Respond, Relayed, Finalize,
                    FinalizeEmpty, Return, SettleRead, SettleGiveUp
    <2>3. \A q \in Requests : pc'[q] = "ready" => pc[q] = "ready"
        BY <2>2 DEF Goto, TypeOK
    <2> QED  BY <1>2, <2>1, <2>3
<1>10. ASSUME \/ \E r \in Requests : UpstreamLog(r) \/ ReconcileRow(r)
              \/ \E id \in RequestIds : ReconcileOrphan(id)
              \/ UNCHANGED vars
       PROVE  Headroom'
    <2>1. UNCHANGED <<balance, walletLedger, status, pc>>
        BY <1>10 DEF UpstreamLog, ReconcileRow, ReconcileOrphan, vars, walletVars,
                     requestVars, handlerVars
    <2> QED  BY <1>2, <2>1
<1>11. ASSUME Crash
       PROVE  Headroom'
    <2>1. UNCHANGED <<balance, walletLedger, status>>
        BY <1>11 DEF Crash, walletVars, requestVars
    <2>2. \A q \in Requests : pc'[q] = "ready" => pc[q] = "ready"
        BY <1>11 DEF Crash
    <2> QED  BY <1>2, <2>1, <2>2
<1> QED  BY <1>4, <1>5, <1>6, <1>7, <1>8, <1>9, <1>10, <1>11,
            AuthenticateHeadroom, AdmitHeadroom
         DEF GatewayNext, HandlerStep

\* At the start no wallet is in debt and legacy rows are within the limit.
LEMMA InitHeadroom == GatewayInit => Headroom
<1> USE GatewayAssumption, RequestLedgerAssumption
<1> SUFFICES ASSUME GatewayInit, NEW u \in Users
             PROVE  Backed(u) + MaxCharge *
                       ((MaxInflight + RiskLimit) - Exposure(u)) > 0
    BY DEF Headroom
<1>1. Waiting(u) = {} /\ Backed(u) \in Int /\ Backed(u) >= 0
    <2>1. Waiting(u) = {} /\ balance[u] = 0
        BY DEF GatewayInit, WalletInit, Waiting
    <2>2. Backed(u) \in Int /\ balance[u] <= Backed(u)
        BY InitType, BackedType DEF TypeOK
    <2> QED  BY <2>1, <2>2
<1>2. RiskSlots(u) = {r \in LegacyRows : Owner[r] = u}
    BY DEF GatewayInit, RiskSlots, Unresolved
<1>3. Exposure(u) <= RiskLimit
    <2>1. Cardinality(Waiting(u)) = 0
        BY <1>1, FS_EmptySet
    <2>2. Cardinality(RiskSlots(u)) <= RiskLimit /\ Cardinality(RiskSlots(u)) \in Nat
        BY <1>2, RiskSlotsFinite
    <2> QED  BY <2>1, <2>2 DEF Exposure
<1> DEFINE a == (MaxInflight + RiskLimit) - Exposure(u)
<1>4. a \in Int /\ 1 <= a
    BY <1>3, ExposureType
<1> HIDE DEF a
<1>5. MaxCharge * a \in Int /\ MaxCharge * 1 <= MaxCharge * a
    BY <1>4, Scale
<1>6. Backed(u) + MaxCharge * a > 0
    BY <1>1, <1>5
<1> QED  BY <1>6 DEF a

\* With headroom, no wallet is below the bound.
LEMMA HeadroomBounds == TypeOK /\ Headroom => OverdraftBounded
<1> USE GatewayAssumption, RequestLedgerAssumption
<1> SUFFICES ASSUME TypeOK, Headroom, NEW u \in Users
             PROVE  Backed(u) > -MaxCharge * (MaxInflight + RiskLimit)
    BY DEF OverdraftBounded
<1> DEFINE n == MaxInflight + RiskLimit
           a == n - Exposure(u)
<1>1. a \in Int /\ n \in Int /\ a <= n
    BY ExposureType
<1>2. Backed(u) + MaxCharge * a > 0 /\ Backed(u) \in Int
    BY BackedType DEF Headroom, TypeOK
<1> HIDE DEF a, n
<1>3. MaxCharge * a \in Int /\ MaxCharge * n \in Int /\ MaxCharge * a <= MaxCharge * n
    BY <1>1, Scale
<1>4. Backed(u) > -(MaxCharge * n)
    BY <1>2, <1>3
<1>5. -(MaxCharge * n) = -MaxCharge * n
    BY <1>1
<1> QED  BY <1>4, <1>5 DEF n

(***************************************************************************)
(* A wallet's debt, beyond what administrators took, is bounded by what    *)
(* its waiting and admitted requests can cost, for every configuration:    *)
(* the price of reading the wallet once and of releasing the process's     *)
(* slot before the charge is written.                                      *)
(***************************************************************************)
THEOREM DebtBounded == GatewaySafetySpec => []OverdraftBounded
<1>1. TypeOK /\ Headroom => OverdraftBounded
    BY HeadroomBounds
<1>2. GatewayInit => SlotInv
    BY InitSlots
<1>3. TableInv => RiskSlotsBounded
    BY DEF TableInv
<1> QED  BY <1>1, <1>2, <1>3, InitHeadroom, SlotStep, HeadroomStep, TypeCorrect,
            TableInvariant, PTL DEF GatewaySafetySpec

-----------------------------------------------------------------------------
(* The promise.                                                            *)

\* A request whose wallet entries stay has paid the same.
LEMMA PaidKept ==
    ASSUME NEW q \in Requests, ChargesOf(q)' = ChargesOf(q),
           \A i \in ChargesOf(q) :
               walletLedger'[Owner[q]][i] = walletLedger[Owner[q]][i]
    PROVE  PaidFor(q)' = PaidFor(q)
BY DEF PaidFor

\* A row whose status stays has the same bill.
LEMMA BillKept ==
    ASSUME NEW q \in Requests, status'[q] = status[q]
    PROVE  BillOf(q)' = BillOf(q)
BY DEF BillOf

\* A row moves and the wallet ledger does not.
LEMMA RowBills ==
    ASSUME NEW r \in Requests, UNCHANGED walletLedger,
           \A q \in Requests \ {r} : status'[q] = status[q],
           \/ status'[r] = status[r]
           \/ status[r] = "absent" /\ status'[r] = "open"
           \/ status[r] \in Unresolved /\ status'[r] = "failed_unbilled"
    PROVE  [Billing!BillingNext]_(Billing!billingVars)
<1> DEFINE bill == [q \in Requests |-> BillOf(q)]
           paid == [q \in Requests |-> PaidFor(q)]
<1>1. \A q \in Requests : PaidFor(q)' = PaidFor(q)
    BY PaidKept DEF ChargesOf
<1>2. \A q \in Requests \ {r} : BillOf(q)' = BillOf(q)
    BY BillKept
<1>3. paid' = paid
    BY <1>1
<1>4. CASE status'[r] = status[r]
    <2>1. bill' = bill
        BY <1>2, <1>4, BillKept
    <2> QED  BY <1>3, <2>1 DEF Billing!billingVars
<1>5. CASE status[r] = "absent" /\ status'[r] = "open"
    <2>1. BillOf(r) = "none" /\ BillOf(r)' = "accepted"
        BY <1>5 DEF BillOf, Unresolved
    <2>2. bill' = [bill EXCEPT ![r] = "accepted"]
        BY <1>2, <2>1
    <2> QED  BY <1>3, <2>1, <2>2 DEF Billing!BillingNext, Billing!Accept
<1>6. CASE status[r] \in Unresolved /\ status'[r] = "failed_unbilled"
    <2>1. BillOf(r) = "accepted" /\ BillOf(r)' = "waived"
        BY <1>6 DEF BillOf, Unresolved
    <2>2. bill' = [bill EXCEPT ![r] = "waived"]
        BY <1>2, <2>1
    <2> QED  BY <1>3, <2>1, <2>2 DEF Billing!BillingNext, Billing!Waive
<1> QED  BY <1>4, <1>5, <1>6

\* A settlement is a Charge: the row and the wallet move in one step.
LEMMA SettlementBills ==
    ASSUME LedgerTypeOK(WalletRefs), SettledIffCharged,
           NEW r \in Requests, NEW c \in 0..MaxCharge, SettleInTx(r, c)
    PROVE  [Billing!BillingNext]_(Billing!billingVars)
<1> USE RequestLedgerAssumption
<1> DEFINE bill == [q \in Requests |-> BillOf(q)]
           paid == [q \in Requests |-> PaidFor(q)]
           last == Len(walletLedger[Owner[r]]) + 1
<1>1. /\ c > 0 /\ status[r] \in Unresolved /\ status'[r] = "settled"
      /\ ChargesOf(r)' = {last}
      /\ walletLedger'[Owner[r]][last].amount = -c
    BY SettleEffect
<1>2. \A q \in Requests \ {r} :
         /\ status'[q] = status[q]
         /\ ChargesOf(q)' = ChargesOf(q)
         /\ \A i \in ChargesOf(q) :
               walletLedger'[Owner[q]][i] = walletLedger[Owner[q]][i]
    BY SettleEffect
<1> HIDE DEF last
<1>3. PaidFor(r)' = c
    <2>1. PaidFor(r)' = -walletLedger'[Owner[r]][CHOOSE i \in {last} : TRUE].amount
        BY <1>1 DEF PaidFor
    <2>2. (CHOOSE i \in {last} : TRUE) = last
        OBVIOUS
    <2>3. PaidFor(r)' = -(-c)
        BY <1>1, <2>1, <2>2
    <2> QED  BY <2>3
<1>4. BillOf(r) = "accepted" /\ BillOf(r)' = "charged"
    BY <1>1 DEF BillOf, Unresolved
<1>5. \A q \in Requests \ {r} : BillOf(q)' = BillOf(q) /\ PaidFor(q)' = PaidFor(q)
    BY <1>2, BillKept, PaidKept
<1>6. bill' = [bill EXCEPT ![r] = "charged"]
    BY <1>4, <1>5
<1>7. paid' = [paid EXCEPT ![r] = c]
    BY <1>3, <1>5
<1>8. c \in 1..MaxCharge
    BY <1>1
<1> QED  BY <1>4, <1>6, <1>7, <1>8 DEF Billing!BillingNext, Billing!Charge

\* Every step on the tables is a step of RequestBilling or leaves it alone.
LEMMA LedgerStepBills ==
    ASSUME LedgerTypeOK(WalletRefs), SettledIffCharged, LedgerStep(WalletRefs)
    PROVE  [Billing!BillingNext]_(Billing!billingVars)
<1> USE RequestLedgerAssumption
<1>1. ASSUME NEW r \in Requests,
             \/ AdmitRequest(r)
             \/ \E id \in RequestIds : CaptureRequestId(r, id)
             \/ MarkFailedUnbilled(r),
             UNCHANGED walletVars
      PROVE  [Billing!BillingNext]_(Billing!billingVars)
    <2>1. /\ \A q \in Requests \ {r} : status'[q] = status[q]
          /\ \/ status'[r] = status[r]
             \/ status[r] = "absent" /\ status'[r] = "open"
             \/ status[r] \in Unresolved /\ status'[r] = "failed_unbilled"
        BY <1>1 DEF AdmitRequest, CaptureRequestId, MarkFailedUnbilled, LedgerTypeOK,
                    RequestTypeOK
    <2>2. UNCHANGED walletLedger
        BY <1>1 DEF walletVars
    <2> QED  BY <2>1, <2>2, RowBills
<1>2. ASSUME NEW u \in Users, NEW type \in {"recharge", "manual_adjustment"},
             NEW amount \in Int, NEW ref \in WalletRefs,
             AppendLedgerEntryInTx(u, type, amount, ref), UNCHANGED requestVars
      PROVE  UNCHANGED Billing!billingVars
    <2>1. \A q \in Requests :
             /\ ChargesOf(q)' = ChargesOf(q)
             /\ \A i \in ChargesOf(q) :
                   walletLedger'[Owner[q]][i] = walletLedger[Owner[q]][i]
        BY <1>2, OtherEntryKeepsCharges
    <2>2. \A q \in Requests : BillOf(q)' = BillOf(q) /\ PaidFor(q)' = PaidFor(q)
        BY <1>2, <2>1, BillKept, PaidKept DEF requestVars
    <2> QED  BY <2>2 DEF Billing!billingVars
<1>3. ASSUME UNCHANGED <<walletLedger, status>>
      PROVE  UNCHANGED Billing!billingVars
    <2>1. \A q \in Requests : BillOf(q)' = BillOf(q) /\ PaidFor(q)' = PaidFor(q)
        BY <1>3, BillKept, PaidKept DEF ChargesOf
    <2> QED  BY <2>1 DEF Billing!billingVars
<1>4. ASSUME NEW u \in Users,
             \/ \E reason \in FreezeReasons : FreezeWallet(u, reason)
             \/ UnfreezeWallet(u),
             UNCHANGED requestVars
      PROVE  UNCHANGED <<walletLedger, status>>
    BY <1>4 DEF FreezeWallet, UnfreezeWallet, requestVars
<1> QED  BY <1>1, <1>2, <1>3, <1>4, SettlementBills DEF LedgerStep

\* Before the first request nothing is accepted and nothing paid.
LEMMA InitBills == GatewayInit => Billing!BillingInit
<1> USE GatewayAssumption, RequestLedgerAssumption
<1> SUFFICES ASSUME GatewayInit PROVE Billing!BillingInit
    OBVIOUS
<1>1. \A r \in Requests : BillOf(r) \in {"none", "accepted"}
    BY DEF GatewayInit, BillOf, Unresolved
<1>2. \A r \in Requests : ChargesOf(r) = {}
    BY DEF GatewayInit, WalletInit, ChargesOf
<1>3. \A r \in Requests : PaidFor(r) = 0
    BY <1>2 DEF PaidFor
<1> QED  BY <1>1, <1>3 DEF Billing!BillingInit

\* Every step the tables are allowed is one of RequestBilling or leaves it
\* alone.
LEMMA TablesBill ==
    ASSUME TableInv, LedgerStep(WalletRefs) \/ UNCHANGED tableVars
    PROVE  [Billing!BillingNext]_(Billing!billingVars)
<1>1. LedgerTypeOK(WalletRefs) /\ SettledIffCharged
    BY TypeParts DEF TableInv
<1>2. CASE LedgerStep(WalletRefs)
    BY <1>1, <1>2, LedgerStepBills
<1>3. CASE UNCHANGED tableVars
    <2>1. UNCHANGED <<walletLedger, status>>
        BY <1>3 DEF tableVars, walletVars, requestVars
    <2>2. \A q \in Requests : BillOf(q)' = BillOf(q) /\ PaidFor(q)' = PaidFor(q)
        BY <2>1, BillKept, PaidKept DEF ChargesOf
    <2> QED  BY <2>2 DEF Billing!billingVars
<1> QED  BY <1>2, <1>3

(***************************************************************************)
(* The safety part of the promise: a request that is accepted is charged   *)
(* once or waived, never both, and the row and the wallet move together.   *)
(***************************************************************************)
THEOREM ImplementsBillingSafely == GatewaySafetySpec => Billing!BillingSafety
<1>1. TableInv /\ [GatewayNext]_vars => [Billing!BillingNext]_(Billing!billingVars)
    BY GatewayTables, TablesBill DEF TableInv
<1> QED  BY <1>1, InitBills, TableInvariant, PTL
         DEF GatewaySafetySpec, Billing!BillingSafety
=============================================================================
