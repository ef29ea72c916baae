---------------------------- MODULE QuotaAdjust -----------------------------
(***************************************************************************)
(* Adjustments of one user's quota at New API by administrators:           *)
(* adjustPortalQuota and resolveQuotaAdjustment                            *)
(* (src/src/features/newapi-bridge/server/portal.ts) with adjustQuota of   *)
(* client.ts.  New API knows no idempotency key, so that the row of        *)
(* apipool_ledger_entry has to say whether a call may have reached it.     *)
(*                                                                         *)
(* A call for a positive amount creates a redemption code, stores it and   *)
(* redeems it; one for a negative amount reads the quota and writes the    *)
(* difference.  Either sends one request that changes the quota, and that  *)
(* request may be lost, or arrive after its sender has given up waiting.   *)
(***************************************************************************)
EXTENDS Naturals

CONSTANTS
    Adjusters,   \* the calls of adjustPortalQuota for this user
    KeyOfAdjuster, \* their idempotency keys, given or generated
    Debits,      \* the calls for a negative amount
    NoEntry      \* a call that has not inserted its row

Unresolved == {"pending", "reconciliation_required"}
EntryStatuses == Unresolved \cup {"applied", "failed"}

\* marked is remoteAttemptAt, code newapiChangeId, stale an updatedAt of more
\* than five minutes ago.
EntryRows == [status : EntryStatuses, marked : BOOLEAN, code : BOOLEAN, stale : BOOLEAN]

ASSUME QuotaAdjustAssumption == Debits \subseteq Adjusters /\ NoEntry \notin EntryRows

VARIABLES
    entry,    \* the rows, each under the call that inserted it
    adjuster, \* where each call is, and what it knows of its request
    wire,     \* calls whose request is on its way to New API
    landed,   \* how often New API has changed the quota for each call
    ruled     \* calls whose row an administrator has resolved

quotaVars == <<entry, adjuster, wire, landed, ruled>>

NewEntry == [status |-> "pending", marked |-> FALSE, code |-> FALSE, stale |-> FALSE]

\* Where a call stands:
\*   looked, ready      before its transaction
\*   inserted, queued   its row is there; waiting for the lock of the user
\*   creating, created  a redemption code;      reading   the quota
\*   sending, sent      the one request that changes the quota
\*   saving, auditing   New API has confirmed;  failing   the catch block
Holding == {"creating", "created", "reading", "sending", "sent"}
Running == Holding \cup {"looked", "ready", "inserted", "queued",
                         "saving", "auditing", "failing"}

QuotaInit ==
    /\ entry = [c \in Adjusters |-> NoEntry]
    /\ adjuster = [c \in Adjusters |-> [at |-> "idle", unknown |-> FALSE]]
    /\ wire = {} /\ ruled = {}
    /\ landed = [c \in Adjusters |-> 0]

MoveTo(c, place) == adjuster' = [adjuster EXCEPT ![c].at = place]

\* The catch block, knowing whether the request may have had an effect.
FailWith(c, unknown) ==
    adjuster' = [adjuster EXCEPT ![c].at = "failing", ![c].unknown = @ \/ unknown]

\* Every update of a row sets updatedAt.
SetEntry(c, row) == entry' = [entry EXCEPT ![c] = [row EXCEPT !.stale = FALSE]]

-----------------------------------------------------------------------------
(* Up to the row.                                                          *)

Rows == {c \in Adjusters : entry[c] # NoEntry}
HasRow(key) == \E d \in Rows : KeyOfAdjuster[d] = key

\* triageUnresolvedAdjustments: a row blocks unless it is old and proves, by
\* having neither mark, that New API has heard nothing.
Blocks(d) ==
    /\ entry[d].status \in Unresolved
    /\ \/ entry[d].status = "reconciliation_required"
       \/ entry[d].marked \/ entry[d].code
       \/ ~entry[d].stale
Blocked == \E d \in Rows : Blocks(d)

Look(c) ==
    /\ adjuster[c].at = "idle"
    /\ MoveTo(c, IF HasRow(KeyOfAdjuster[c]) THEN "answered" ELSE "looked")
    /\ UNCHANGED <<entry, wire, landed, ruled>>

\* The triage before, and ensurePortalUserBinding, which may fail.
Preflight(c) ==
    /\ adjuster[c].at = "looked"
    /\ \/ ~Blocked /\ MoveTo(c, "ready")
       \/ MoveTo(c, "answered")
    /\ UNCHANGED <<entry, wire, landed, ruled>>

Reclaimed(d) ==
    IF entry[d] # NoEntry /\ entry[d].status \in Unresolved
    THEN [entry[d] EXCEPT !.status = "failed", !.stale = FALSE] ELSE entry[d]

\* The row is inserted on the strength of the triage before.
InsertUntriaged(c) ==
    /\ adjuster[c].at = "ready"
    /\ IF HasRow(KeyOfAdjuster[c])
       THEN MoveTo(c, "answered") /\ UNCHANGED entry
       ELSE MoveTo(c, "inserted") /\ entry' = [entry EXCEPT ![c] = NewEntry]
    /\ UNCHANGED <<wire, landed, ruled>>

\* Keys are compared before the transaction only.
InsertWithoutIndex(c) ==
    /\ adjuster[c].at = "ready"
    /\ IF Blocked
       THEN MoveTo(c, "answered") /\ UNCHANGED entry
       ELSE /\ MoveTo(c, "inserted")
            /\ entry' = [d \in Adjusters |-> IF d = c THEN NewEntry ELSE Reclaimed(d)]
    /\ UNCHANGED <<wire, landed, ruled>>

\* The transaction: triage again, reclaim, insert under the unique index.
InsertPending(c) ==
    /\ adjuster[c].at = "ready"
    /\ IF Blocked \/ HasRow(KeyOfAdjuster[c])
       THEN MoveTo(c, "answered") /\ UNCHANGED entry
       ELSE /\ MoveTo(c, "inserted")
            /\ entry' = [d \in Adjusters |-> IF d = c THEN NewEntry ELSE Reclaimed(d)]
    /\ UNCHANGED <<wire, landed, ruled>>

MarkAttempt(c) ==
    /\ adjuster[c].at = "inserted"
    /\ \/ SetEntry(c, [entry[c] EXCEPT !.marked = TRUE]) /\ MoveTo(c, "queued")
       \/ FailWith(c, FALSE) /\ UNCHANGED entry
    /\ UNCHANGED <<wire, landed, ruled>>

-----------------------------------------------------------------------------
(* adjustQuota of the client.                                              *)

\* withQuotaAdjustmentLock: one call of the process at a time.
EnterLock(c) ==
    /\ adjuster[c].at = "queued"
    /\ \A d \in Adjusters : adjuster[d].at \notin Holding
    /\ MoveTo(c, IF c \in Debits THEN "reading" ELSE "creating")
    /\ UNCHANGED <<entry, wire, landed, ruled>>

\* A code nobody has redeemed changes no quota; an answer without one does
\* not tell which code there is.
CreateCode(c) ==
    /\ adjuster[c].at = "creating"
    /\ MoveTo(c, "created") \/ FailWith(c, FALSE) \/ FailWith(c, TRUE)
    /\ UNCHANGED <<entry, wire, landed, ruled>>

\* onRedemptionCreated
RecordCode(c) ==
    /\ adjuster[c].at = "created"
    /\ \/ SetEntry(c, [entry[c] EXCEPT !.code = TRUE]) /\ MoveTo(c, "sending")
       \/ FailWith(c, TRUE) /\ UNCHANGED entry
    /\ UNCHANGED <<wire, landed, ruled>>

\* The quota cannot be read, or the debit is larger than it.
ReadQuota(c) ==
    /\ adjuster[c].at = "reading"
    /\ MoveTo(c, "sending") \/ FailWith(c, FALSE)
    /\ UNCHANGED <<entry, wire, landed, ruled>>

\* onQuotaWriteDispatched is not called, so that a lost answer to a debit
\* looks like a failure.
SendUndeclared(c) ==
    /\ adjuster[c].at = "sending"
    /\ adjuster' = [adjuster EXCEPT ![c] = [at |-> "sent", unknown |-> c \notin Debits]]
    /\ wire' = wire \cup {c}
    /\ UNCHANGED <<entry, landed, ruled>>

\* From here on the outcome counts as unknown until New API confirms it.
Send(c) ==
    /\ adjuster[c].at = "sending"
    /\ adjuster' = [adjuster EXCEPT ![c] = [at |-> "sent", unknown |-> TRUE]]
    /\ wire' = wire \cup {c}
    /\ UNCHANGED <<entry, landed, ruled>>

Arrive(c) ==
    /\ c \in wire
    /\ wire' = wire \ {c}
    /\ \/ landed' = [landed EXCEPT ![c] = @ + 1]
       \/ UNCHANGED landed
    /\ UNCHANGED <<entry, adjuster, ruled>>

\* The answer and the quota read after it; any error or timeout otherwise.
Receive(c) ==
    /\ adjuster[c].at = "sent"
    /\ \/ landed[c] > 0 /\ c \notin wire /\ MoveTo(c, "saving")
       \/ FailWith(c, FALSE)
    /\ UNCHANGED <<entry, wire, landed, ruled>>

-----------------------------------------------------------------------------
(* The outcome is written by the row's id, whatever the row says by now.   *)

SaveApplied(c) ==
    /\ adjuster[c].at = "saving"
    /\ \/ /\ SetEntry(c, [entry[c] EXCEPT !.status = "applied", !.code = TRUE])
          /\ MoveTo(c, "auditing")
       \/ FailWith(c, TRUE) /\ UNCHANGED entry
    /\ UNCHANGED <<wire, landed, ruled>>

Audit(c) ==
    /\ adjuster[c].at = "auditing"
    /\ MoveTo(c, "answered") \/ FailWith(c, TRUE)
    /\ UNCHANGED <<entry, wire, landed, ruled>>

\* The second write may fail as well: the row stays as it is.
SaveFailure(c) ==
    /\ adjuster[c].at = "failing"
    /\ \/ SetEntry(c, [entry[c] EXCEPT !.status = IF adjuster[c].unknown
                                                  THEN "reconciliation_required"
                                                  ELSE "failed"])
       \/ UNCHANGED entry
    /\ MoveTo(c, "answered")
    /\ UNCHANGED <<wire, landed, ruled>>

\* Five minutes, which outlast the one statement between row and mark of a
\* call that runs.
GrowStale(c) ==
    /\ c \in Rows /\ adjuster[c].at \notin Running /\ ~entry[c].stale
    /\ entry[c].status = "pending"
    /\ entry' = [entry EXCEPT ![c].stale = TRUE]
    /\ UNCHANGED <<adjuster, wire, landed, ruled>>

\* An administrator has looked at New API and decides.
ResolveQuotaAdjustment(c) ==
    /\ c \in Rows /\ entry[c].status \in Unresolved
    /\ \E verdict \in {"applied", "failed"} : SetEntry(c, [entry[c] EXCEPT !.status = verdict])
    /\ ruled' = ruled \cup {c}
    /\ UNCHANGED <<adjuster, wire, landed>>

\* The process stops; what is on the wire may still arrive.
CrashPortal ==
    /\ \E c \in Adjusters : adjuster[c].at \in Running
    /\ adjuster' = [c \in Adjusters |-> IF adjuster[c].at \in Running
                                        THEN [adjuster[c] EXCEPT !.at = "gone"]
                                        ELSE adjuster[c]]
    /\ UNCHANGED <<entry, wire, landed, ruled>>

AdjusterStep(c) ==
    \/ Look(c) \/ Preflight(c) \/ InsertPending(c) \/ MarkAttempt(c)
    \/ EnterLock(c) \/ CreateCode(c) \/ RecordCode(c) \/ ReadQuota(c)
    \/ Send(c) \/ Receive(c) \/ SaveApplied(c) \/ Audit(c) \/ SaveFailure(c)

QuotaNext ==
    \/ \E c \in Adjusters :
          AdjusterStep(c) \/ Arrive(c) \/ GrowStale(c) \/ ResolveQuotaAdjustment(c)
    \/ CrashPortal

-----------------------------------------------------------------------------
QuotaTypeOK ==
    /\ entry \in [Adjusters -> EntryRows \cup {NoEntry}]
    /\ adjuster \in [Adjusters -> [at : Running \cup {"idle", "answered", "gone"},
                                   unknown : BOOLEAN]]
    /\ wire \subseteq Adjusters /\ ruled \subseteq Adjusters
    /\ landed \in [Adjusters -> Nat]

(* New API's side of a row is known: the quota has been changed once, or   *)
(* has not been and will not be any more.                                  *)
KnownApplied(c) == landed[c] = 1
KnownVoid(c) ==
    /\ landed[c] = 0 /\ c \notin wire
    /\ adjuster[c].at \in {"answered", "gone"}

(***************************************************************************)
(* A row the program closes by itself tells the truth about New API:       *)
(* applied, the quota was changed once; failed, it was not and never will  *)
(* be, so that adjusting again is safe.  Crashes at every await, failed    *)
(* writes, lost and late requests all have to end elsewhere (portal.ts:    *)
(* 2424-2500 and the comment at schema.sqlite.ts:1022).                    *)
(***************************************************************************)
ClosedIsTrue ==
    \A c \in Rows \ ruled :
        /\ entry[c].status = "applied" => KnownApplied(c)
        /\ entry[c].status = "failed"  => KnownVoid(c)

(***************************************************************************)
(* No adjustment starts while the outcome of another is unknown, whatever  *)
(* their keys: the frontend's key lives in memory only and does not keep   *)
(* two calls apart (portal.ts:2181-2240 and 2394-2400).                    *)
(***************************************************************************)
AdjustedWhenKnown ==
    [][\A c \in Adjusters \ Rows : entry'[c] # NoEntry =>
          \A d \in Rows \ ruled : KnownApplied(d) \/ KnownVoid(d)]_quotaVars

(***************************************************************************)
(* Calls under one key change the quota at most once between them, however *)
(* they race, fail, stop or are resolved (portal.ts:2360-2366, 2424-2431). *)
(***************************************************************************)
KeyLandsOnce ==
    \A c, d \in Adjusters :
        /\ landed[c] <= 1
        /\ KeyOfAdjuster[c] = KeyOfAdjuster[d] /\ landed[c] = 1 /\ landed[d] = 1 => c = d
=============================================================================
