---------------------------- MODULE BridgeProofs ----------------------------
(***************************************************************************)
(* Proofs about the New API bridge.  Adjustments of a quota, for any       *)
(* number of calls under any keys: what the rows say of New API is true,   *)
(* however requests are lost or late, writes fail and the process stops.   *)
(* The API keys of a user, for any number of calls on any keys: what was   *)
(* revoked stays revoked.  The quota pool, for any number of passes:       *)
(* nothing is taken away.                                                  *)
(***************************************************************************)
EXTENDS QuotaAdjust, PortalKeys, RuntimePool, TLAPS

\* Places from which the request has not been sent, and those that a call
\* reaches only past the mark on its row.
Unsent == {"idle", "looked", "ready", "inserted", "queued", "creating", "created",
           "reading", "sending"}
PastMark == Holding \cup {"queued", "saving", "auditing"}

\* New API has heard of the call, or may yet.
Heard(c) == c \in wire \/ landed[c] > 0

\* What a call knows of its own request.
Sends(c) ==
    /\ landed[c] <= 1 /\ (c \in wire => landed[c] = 0)
    /\ adjuster[c].at \in Unsent => ~Heard(c)
    /\ adjuster[c].at \in {"saving", "auditing"} => landed[c] = 1
    /\ adjuster[c].at \in {"sent", "saving", "auditing"} => adjuster[c].unknown
    /\ adjuster[c].at = "failing" /\ ~adjuster[c].unknown => ~Heard(c)

\* What the row of a call proves.
Proves(c) ==
    /\ adjuster[c].at \in {"idle", "looked", "ready"} => entry[c] = NoEntry
    /\ entry[c] = NoEntry => /\ adjuster[c].at \in {"idle", "looked", "ready", "answered", "gone"}
                             /\ ~Heard(c)
    /\ entry[c] # NoEntry =>
          /\ adjuster[c].at \in PastMark \/ Heard(c) => entry[c].marked
          /\ entry[c].stale => adjuster[c].at \notin Running /\ entry[c].status = "pending"
          /\ c \notin ruled /\ entry[c].status = "applied" => KnownApplied(c)
          /\ c \notin ruled /\ entry[c].status = "failed" => KnownVoid(c)

\* The unique index on the key.
OneRowPerKey == \A c, d \in Rows : KeyOfAdjuster[c] = KeyOfAdjuster[d] => c = d

QuotaInv ==
    /\ QuotaTypeOK /\ OneRowPerKey
    /\ \A c \in Adjusters : Sends(c) /\ Proves(c)

LEMMA QuotaInvInit == QuotaInit => QuotaInv
<1> SUFFICES ASSUME QuotaInit PROVE QuotaInv
    OBVIOUS
<1> USE QuotaAdjustAssumption DEF QuotaInit
<1>1. QuotaTypeOK
    BY DEF QuotaTypeOK
<1>2. OneRowPerKey
    BY DEF OneRowPerKey, Rows
<1>3. ASSUME NEW c \in Adjusters PROVE Sends(c) /\ Proves(c)
    <2>1. entry[c] = NoEntry /\ adjuster[c].at = "idle" /\ landed[c] = 0 /\ c \notin wire
        OBVIOUS
    <2>2. ~Heard(c) /\ landed[c] <= 1
        BY <2>1 DEF Heard
    <2>3. Sends(c)
        BY <2>1, <2>2 DEF Sends
    <2>4. Proves(c)
        BY <2>1, <2>2 DEF Proves
    <2> QED  BY <2>3, <2>4
<1> QED  BY <1>1, <1>2, <1>3 DEF QuotaInv

-----------------------------------------------------------------------------
(* Types.                                                                  *)

LEMMA QuotaTypeStep ==
    ASSUME QuotaTypeOK, \A c \in Adjusters : Proves(c), QuotaNext
    PROVE  QuotaTypeOK'
<1> USE QuotaAdjustAssumption DEF QuotaTypeOK
<1>1. ASSUME NEW c \in Adjusters, NEW place \in Running \cup {"idle", "answered", "gone"},
             MoveTo(c, place)
      PROVE  adjuster' \in [Adjusters -> [at : Running \cup {"idle", "answered", "gone"},
                                          unknown : BOOLEAN]]
    BY <1>1 DEF MoveTo
<1>2. ASSUME NEW c \in Adjusters, NEW unknown \in BOOLEAN, FailWith(c, unknown)
      PROVE  adjuster' \in [Adjusters -> [at : Running \cup {"idle", "answered", "gone"},
                                          unknown : BOOLEAN]]
    BY <1>2 DEF FailWith, Running
<1>3. ASSUME NEW c \in Adjusters, NEW row \in EntryRows, SetEntry(c, row)
      PROVE  entry' \in [Adjusters -> EntryRows \cup {NoEntry}]
    BY <1>3 DEF SetEntry, EntryRows
<1>4. ASSUME NEW c \in Adjusters, UNCHANGED <<wire, landed, ruled>>,
             \/ \E place \in {"looked", "ready", "inserted", "queued", "creating", "created",
                              "reading", "sending", "saving", "auditing", "answered"} :
                   MoveTo(c, place)
             \/ FailWith(c, TRUE) \/ FailWith(c, FALSE),
             UNCHANGED entry \/ \E row \in EntryRows : SetEntry(c, row)
      PROVE  QuotaTypeOK'
    <2>1. adjuster' \in [Adjusters -> [at : Running \cup {"idle", "answered", "gone"},
                                       unknown : BOOLEAN]]
        BY <1>1, <1>2, <1>4 DEF Running, Holding
    <2>2. entry' \in [Adjusters -> EntryRows \cup {NoEntry}]
        BY <1>3, <1>4
    <2> QED  BY <1>4, <2>1, <2>2
<1>5. ASSUME NEW c \in Adjusters, entry[c] # NoEntry
      PROVE  /\ [entry[c] EXCEPT !.marked = TRUE] \in EntryRows
             /\ [entry[c] EXCEPT !.code = TRUE] \in EntryRows
             /\ \A s \in EntryStatuses : [entry[c] EXCEPT !.status = s] \in EntryRows
             /\ [entry[c] EXCEPT !.status = "applied", !.code = TRUE] \in EntryRows
    BY <1>5 DEF EntryRows, EntryStatuses
<1>6. \A c \in Adjusters :
         adjuster[c].at \notin {"idle", "looked", "ready", "answered", "gone"}
            => entry[c] # NoEntry
    BY DEF Proves
<1>7. ASSUME NEW c \in Adjusters, AdjusterStep(c)
      PROVE  QuotaTypeOK'
    <2>1. CASE Look(c) \/ Preflight(c) \/ EnterLock(c) \/ CreateCode(c) \/ ReadQuota(c)
                 \/ Receive(c) \/ Audit(c)
        BY <1>4, <2>1 DEF Look, Preflight, EnterLock, CreateCode, ReadQuota, Receive, Audit
    <2>2. CASE InsertPending(c)
        <3>1. adjuster' \in [Adjusters -> [at : Running \cup {"idle", "answered", "gone"},
                                           unknown : BOOLEAN]]
            BY <1>1, <2>2 DEF InsertPending, Running
        <3>2. NewEntry \in EntryRows
            BY DEF NewEntry, EntryRows, EntryStatuses, Unresolved
        <3>3. \A d \in Adjusters : Reclaimed(d) \in EntryRows \cup {NoEntry}
            BY DEF Reclaimed, EntryRows, EntryStatuses
        <3>4. entry' \in [Adjusters -> EntryRows \cup {NoEntry}]
            BY <2>2, <3>2, <3>3 DEF InsertPending
        <3> QED  BY <2>2, <3>1, <3>4 DEF InsertPending
    <2>3. CASE MarkAttempt(c)
        BY <1>4, <1>5, <1>6, <2>3 DEF MarkAttempt
    <2>4. CASE RecordCode(c)
        BY <1>4, <1>5, <1>6, <2>4 DEF RecordCode
    <2>5. CASE SaveApplied(c)
        BY <1>4, <1>5, <1>6, <2>5 DEF SaveApplied
    <2>6. CASE SaveFailure(c)
        <3>1. {"reconciliation_required", "failed"} \subseteq EntryStatuses
            BY DEF EntryStatuses, Unresolved
        <3> DEFINE s == IF adjuster[c].unknown THEN "reconciliation_required" ELSE "failed"
        <3>2. s \in EntryStatuses
            BY <3>1
        <3>3. UNCHANGED entry \/ SetEntry(c, [entry[c] EXCEPT !.status = s])
            BY <2>6 DEF SaveFailure
        <3> HIDE DEF s
        <3>4. [entry[c] EXCEPT !.status = s] \in EntryRows
            BY <1>5, <1>6, <2>6, <3>2 DEF SaveFailure
        <3> QED  BY <1>4, <2>6, <3>3, <3>4 DEF SaveFailure
    <2>7. CASE Send(c)
        BY <2>7 DEF Send, Running, Holding
    <2> QED  BY <1>7, <2>1, <2>2, <2>3, <2>4, <2>5, <2>6, <2>7 DEF AdjusterStep
<1>8. ASSUME NEW c \in Adjusters, Arrive(c) PROVE QuotaTypeOK'
    BY <1>8 DEF Arrive
<1>9. ASSUME NEW c \in Adjusters, GrowStale(c) PROVE QuotaTypeOK'
    BY <1>9 DEF GrowStale, Rows, EntryRows
<1>10. ASSUME NEW c \in Adjusters, ResolveQuotaAdjustment(c) PROVE QuotaTypeOK'
    <2>1. \E row \in EntryRows : SetEntry(c, row)
        BY <1>5, <1>10 DEF ResolveQuotaAdjustment, Rows, EntryStatuses
    <2>2. entry' \in [Adjusters -> EntryRows \cup {NoEntry}]
        BY <1>3, <2>1
    <2> QED  BY <1>10, <2>2 DEF ResolveQuotaAdjustment
<1>11. CASE CrashPortal
    BY <1>11 DEF CrashPortal
<1> QED  BY <1>7, <1>8, <1>9, <1>10, <1>11 DEF QuotaNext

-----------------------------------------------------------------------------
(* Requests.                                                               *)

\* Another call's request is none of the step's business.
SameRequest(d) ==
    /\ adjuster'[d] = adjuster[d] /\ landed'[d] = landed[d]
    /\ d \in wire' <=> d \in wire

LEMMA SameSends ==
    ASSUME NEW d \in Adjusters, Sends(d), SameRequest(d)
    PROVE  Sends(d)'
BY DEF Sends, SameRequest, Heard

LEMMA SendsStep ==
    ASSUME QuotaInv, QuotaNext
    PROVE  \A d \in Adjusters : Sends(d)'
<1> USE DEF QuotaTypeOK
<1>0. QuotaTypeOK /\ \A d \in Adjusters : Sends(d)
    BY DEF QuotaInv
\* A call goes on without its request.
<1>1. ASSUME NEW c \in Adjusters, UNCHANGED <<wire, landed>>,
             NEW place \in {"looked", "ready", "inserted", "queued", "creating", "created",
                            "reading", "sending", "answered"},
             adjuster[c].at \in Unsent \/ place = "answered",
             MoveTo(c, place)
      PROVE  \A d \in Adjusters : Sends(d)'
    <2>1. \A d \in Adjusters \ {c} : SameRequest(d)
        BY <1>0, <1>1 DEF MoveTo, SameRequest
    <2>2. adjuster'[c].at = place
        BY <1>0, <1>1 DEF MoveTo
    <2>3. Sends(c)'
        BY <1>0, <1>1, <2>2 DEF Sends, Heard, Unsent
    <2> QED  BY <1>0, <2>1, <2>3, SameSends
<1>2. ASSUME NEW c \in Adjusters, UNCHANGED <<wire, landed>>, NEW unknown \in BOOLEAN,
             FailWith(c, unknown), Heard(c) => adjuster[c].unknown \/ unknown
      PROVE  \A d \in Adjusters : Sends(d)'
    <2>1. \A d \in Adjusters \ {c} : SameRequest(d)
        BY <1>0, <1>2 DEF FailWith, SameRequest
    <2>2. /\ adjuster'[c].at = "failing"
          /\ adjuster'[c].unknown <=> adjuster[c].unknown \/ unknown
        BY <1>0, <1>2 DEF FailWith
    <2>3. Heard(c)' <=> Heard(c)
        BY <1>2 DEF Heard
    <2>4. Sends(c)'
        BY <1>0, <1>2, <2>2, <2>3 DEF Sends, Unsent
    <2> QED  BY <1>0, <2>1, <2>4, SameSends
<1>3. ASSUME NEW c \in Adjusters, AdjusterStep(c)
      PROVE  \A d \in Adjusters : Sends(d)'
    <2>1. CASE Look(c) \/ Preflight(c) \/ InsertPending(c) \/ EnterLock(c)
        BY <1>1, <2>1 DEF Look, Preflight, InsertPending, EnterLock, Unsent
    <2>2. ASSUME adjuster[c].at \in Unsent PROVE ~Heard(c)
        BY <1>0, <2>2 DEF Sends
    <2>3. CASE MarkAttempt(c) \/ CreateCode(c) \/ RecordCode(c) \/ ReadQuota(c)
        BY <1>1, <1>2, <2>2, <2>3 DEF MarkAttempt, CreateCode, RecordCode, ReadQuota, Unsent
    <2>4. CASE Send(c)
        <3>1. \A d \in Adjusters \ {c} : SameRequest(d)
            BY <1>0, <2>4 DEF Send, SameRequest
        <3>2. adjuster'[c].at = "sent" /\ adjuster'[c].unknown
            BY <1>0, <2>4 DEF Send
        <3>3. landed'[c] = 0
            BY <1>0, <2>2, <2>4 DEF Send, Unsent, Heard
        <3>4. Sends(c)'
            BY <3>2, <3>3 DEF Sends, Unsent
        <3> QED  BY <1>0, <3>1, <3>4, SameSends
    <2>5. CASE Receive(c)
        <3>1. adjuster[c].at = "sent" /\ adjuster[c].unknown /\ UNCHANGED <<wire, landed>>
            BY <1>0, <2>5 DEF Receive, Sends
        <3>2. CASE landed[c] > 0 /\ c \notin wire /\ MoveTo(c, "saving")
            <4>1. \A d \in Adjusters \ {c} : SameRequest(d)
                BY <1>0, <3>1, <3>2 DEF MoveTo, SameRequest
            <4>2. adjuster'[c].at = "saving" /\ adjuster'[c].unknown = adjuster[c].unknown
                BY <1>0, <3>2 DEF MoveTo
            <4>3. landed[c] = 1
                BY <1>0, <3>2 DEF Sends
            <4>4. Sends(c)'
                BY <3>1, <3>2, <4>2, <4>3 DEF Sends, Unsent
            <4> QED  BY <1>0, <4>1, <4>4, SameSends
        <3> QED  BY <1>2, <2>5, <3>1, <3>2 DEF Receive
    <2>6. CASE SaveApplied(c)
        <3>1. adjuster[c].at = "saving" /\ landed[c] = 1 /\ adjuster[c].unknown
                 /\ UNCHANGED <<wire, landed>>
            BY <1>0, <2>6 DEF SaveApplied, Sends
        <3>2. CASE MoveTo(c, "auditing")
            <4>1. \A d \in Adjusters \ {c} : SameRequest(d)
                BY <1>0, <3>1, <3>2 DEF MoveTo, SameRequest
            <4>2. adjuster'[c].at = "auditing" /\ adjuster'[c].unknown = adjuster[c].unknown
                BY <1>0, <3>2 DEF MoveTo
            <4>3. c \notin wire
                BY <1>0, <3>1 DEF Sends
            <4>4. Sends(c)'
                BY <3>1, <4>2, <4>3 DEF Sends, Unsent
            <4> QED  BY <1>0, <4>1, <4>4, SameSends
        <3> QED  BY <1>2, <2>6, <3>1, <3>2 DEF SaveApplied
    <2>7. CASE Audit(c) \/ SaveFailure(c)
        BY <1>1, <1>2, <2>7 DEF Audit, SaveFailure
    <2> QED  BY <1>3, <2>1, <2>3, <2>4, <2>5, <2>6, <2>7 DEF AdjusterStep
<1>4. ASSUME NEW c \in Adjusters, Arrive(c)
      PROVE  \A d \in Adjusters : Sends(d)'
    <2>1. \A d \in Adjusters \ {c} : SameRequest(d)
        BY <1>0, <1>4 DEF Arrive, SameRequest
    <2>2. landed[c] = 0 /\ Heard(c)
        BY <1>0, <1>4 DEF Arrive, Sends, Heard
    <2>3. /\ adjuster[c].at \notin Unsent \cup {"saving", "auditing"}
          /\ adjuster[c].at = "failing" => adjuster[c].unknown
          /\ adjuster[c].at = "sent" => adjuster[c].unknown
        BY <1>0, <2>2 DEF Sends
    <2>4. landed'[c] \in {0, 1} /\ c \notin wire' /\ adjuster' = adjuster
        BY <1>0, <1>4, <2>2 DEF Arrive
    <2>5. Sends(c)'
        BY <2>3, <2>4 DEF Sends
    <2> QED  BY <1>0, <2>1, <2>5, SameSends
<1>5. ASSUME NEW c \in Adjusters, GrowStale(c) \/ ResolveQuotaAdjustment(c)
      PROVE  \A d \in Adjusters : Sends(d)'
    <2>1. \A d \in Adjusters : SameRequest(d)
        BY <1>5 DEF GrowStale, ResolveQuotaAdjustment, SameRequest
    <2> QED  BY <1>0, <2>1, SameSends
<1>6. CASE CrashPortal
    <2> SUFFICES ASSUME NEW d \in Adjusters PROVE Sends(d)'
        OBVIOUS
    <2>1. CASE adjuster[d].at \notin Running
        BY <1>0, <1>6, <2>1, SameSends DEF CrashPortal, SameRequest
    <2>2. CASE adjuster[d].at \in Running
        <3>1. adjuster'[d].at = "gone" /\ UNCHANGED <<wire, landed>>
            BY <1>0, <1>6, <2>2 DEF CrashPortal
        <3> QED  BY <1>0, <3>1 DEF Sends, Unsent
    <2> QED  BY <2>1, <2>2
<1> QED  BY <1>3, <1>4, <1>5, <1>6 DEF QuotaNext

-----------------------------------------------------------------------------
(* Rows.                                                                   *)

\* Nor is its row.
SameRow(d) ==
    /\ SameRequest(d) /\ entry'[d] = entry[d]
    /\ d \in ruled' <=> d \in ruled

LEMMA SameProves ==
    ASSUME NEW d \in Adjusters, Proves(d), SameRow(d)
    PROVE  Proves(d)'
BY DEF Proves, SameRow, SameRequest, Heard, KnownApplied, KnownVoid

\* A call that moves on, or ends, leaves the proof of its row as it was.
LEMMA MoveProves ==
    ASSUME NEW c \in Adjusters, Proves(c), adjuster[c].at \in Running \cup {"idle"},
           adjuster'[c].at \in Running \cup {"answered", "gone"},
           adjuster'[c].at \in PastMark => adjuster[c].at \in PastMark,
           adjuster'[c].at \in {"looked", "ready"} <=>
              /\ adjuster[c].at \in {"idle", "looked", "ready"}
              /\ adjuster'[c].at \notin {"answered", "gone"},
           entry'[c] = entry[c], UNCHANGED <<wire, landed>>, ruled' = ruled
    PROVE  Proves(c)'
<1> USE DEF Running, Holding, PastMark
<1>1. Heard(c)' <=> Heard(c)
    BY DEF Heard
<1>2. CASE entry[c] = NoEntry
    BY <1>1, <1>2 DEF Proves
<1>3. CASE entry[c] # NoEntry
    BY <1>1, <1>3 DEF Proves, KnownApplied, KnownVoid
<1> QED  BY <1>2, <1>3

\* A row that does not block, unresolved though it is, is one New API has
\* never heard of and never will.
LEMMA UnblockedIsVoid ==
    ASSUME QuotaInv, NEW d \in Rows, entry[d].status \in Unresolved, ~Blocks(d)
    PROVE  KnownVoid(d) /\ ~Heard(d) /\ adjuster[d].at \notin PastMark
<1> USE DEF Rows
<1>1. QuotaTypeOK /\ Sends(d) /\ Proves(d) /\ entry[d] \in EntryRows
    BY DEF QuotaInv, QuotaTypeOK
<1>2. entry[d].stale /\ ~entry[d].marked
    BY DEF Blocks
<1>3. adjuster[d].at \notin Running /\ ~Heard(d) /\ adjuster[d].at \notin PastMark
    BY <1>1, <1>2 DEF Proves
<1>4. adjuster[d].at \in {"answered", "gone"}
    BY <1>1, <1>3 DEF Proves, QuotaTypeOK
<1>5. landed[d] = 0 /\ d \notin wire
    BY <1>1, <1>3 DEF Heard, QuotaTypeOK
<1> QED  BY <1>3, <1>4, <1>5 DEF KnownVoid

LEMMA InsertProves ==
    ASSUME QuotaInv, NEW c \in Adjusters, InsertPending(c), ~Blocked,
           MoveTo(c, "inserted"),
           entry' = [d \in Adjusters |-> IF d = c THEN NewEntry ELSE Reclaimed(d)]
    PROVE  \A d \in Adjusters : Proves(d)'
<1>0. QuotaTypeOK /\ \A d \in Adjusters : Sends(d) /\ Proves(d)
    BY DEF QuotaInv
<1>a. adjuster[c].at = "ready" /\ UNCHANGED <<wire, landed, ruled>>
    BY DEF InsertPending
<1>1. Proves(c)'
    <2>1. entry[c] = NoEntry /\ ~Heard(c)
        BY <1>0, <1>a DEF Proves
    <2>2. ~Heard(c)' /\ adjuster'[c].at = "inserted" /\ entry'[c] = NewEntry
        BY <1>0, <1>a, <2>1 DEF Heard, MoveTo, QuotaTypeOK
    <2>3. entry'[c].status = "pending" /\ ~entry'[c].stale
        BY <2>2 DEF NewEntry
    <2>4. NewEntry # NoEntry
        <3>1. NewEntry \in EntryRows
            BY DEF NewEntry, EntryRows, EntryStatuses, Unresolved
        <3> QED  BY <3>1, QuotaAdjustAssumption
    <2> QED  BY <2>2, <2>3, <2>4 DEF Proves, PastMark, Holding
<1>2. ASSUME NEW d \in Adjusters \ {c} PROVE Proves(d)'
    <2>1. entry'[d] = Reclaimed(d) /\ SameRequest(d) /\ (d \in ruled' <=> d \in ruled)
        BY <1>0, <1>a DEF MoveTo, SameRequest, QuotaTypeOK
    <2>2. CASE entry[d] # NoEntry /\ entry[d].status \in Unresolved
        <3>1. KnownVoid(d) /\ ~Heard(d) /\ adjuster[d].at \notin PastMark
            BY <2>2, UnblockedIsVoid DEF Rows, Blocked
        <3>2. KnownVoid(d)' /\ ~Heard(d)' /\ adjuster'[d].at \notin PastMark
            BY <2>1, <3>1 DEF KnownVoid, Heard, SameRequest
        <3>3. entry[d] \in EntryRows
            BY <1>0, <2>2 DEF QuotaTypeOK
        <3>4. entry'[d].status = "failed" /\ ~entry'[d].stale /\ entry'[d] \in EntryRows
            <4>1. entry'[d] = [entry[d] EXCEPT !.status = "failed", !.stale = FALSE]
                BY <2>1, <2>2 DEF Reclaimed
            <4>2. "failed" \in EntryStatuses
                BY DEF EntryStatuses
            <4> QED  BY <3>3, <4>1, <4>2 DEF EntryRows
        <3>5. entry'[d] # NoEntry
            BY <3>4, QuotaAdjustAssumption
        <3>6. adjuster'[d].at \in {"answered", "gone"}
            BY <3>2 DEF KnownVoid
        <3> QED  BY <3>2, <3>4, <3>5, <3>6 DEF Proves
    <2>3. CASE ~(entry[d] # NoEntry /\ entry[d].status \in Unresolved)
        <3>1. SameRow(d)
            BY <2>1, <2>3 DEF Reclaimed, SameRow
        <3> QED  BY <1>0, <3>1, SameProves
    <2> QED  BY <2>2, <2>3
<1> QED  BY <1>1, <1>2

\* A call that writes to its row and leaves the status as it is.
LEMMA WriteProves ==
    ASSUME QuotaInv, NEW c \in Rows, adjuster[c].at \in {"inserted", "created"},
           NEW place \in {"queued", "sending"}, MoveTo(c, place),
           NEW row \in EntryRows, SetEntry(c, row), row.status = entry[c].status, row.marked,
           UNCHANGED <<wire, landed>>, ruled' = ruled
    PROVE  Proves(c)'
<1> USE DEF Rows
<1>1. QuotaTypeOK /\ Sends(c) /\ Proves(c)
    BY DEF QuotaInv
<1>2. /\ adjuster'[c].at = place
      /\ entry'[c] = [row EXCEPT !.stale = FALSE]
    BY <1>1 DEF MoveTo, SetEntry, QuotaTypeOK
<1>3. entry'[c].status = entry[c].status /\ entry'[c].marked /\ ~entry'[c].stale
    BY <1>2 DEF EntryRows
<1>4. Heard(c)' <=> Heard(c)
    BY DEF Heard
<1>5. c \notin ruled => entry[c].status # "failed"
    BY <1>1 DEF Proves, KnownVoid
<1>6. c \notin ruled /\ entry[c].status = "applied" => landed[c] = 1
    BY <1>1 DEF Proves, KnownApplied
<1>7. entry[c] # NoEntry
    OBVIOUS
<1>8. entry'[c] # NoEntry => Proves(c)'
    BY <1>2, <1>3, <1>5, <1>6 DEF Proves, KnownApplied
<1>9. [row EXCEPT !.stale = FALSE] \in EntryRows
    BY DEF EntryRows
<1> QED  BY <1>2, <1>8, <1>9, QuotaAdjustAssumption

LEMMA ProvesStep ==
    ASSUME QuotaInv, QuotaNext
    PROVE  \A d \in Adjusters : Proves(d)'
<1>0. QuotaTypeOK /\ \A d \in Adjusters : Sends(d) /\ Proves(d)
    BY DEF QuotaInv
<1> USE DEF QuotaTypeOK
<1>a. ASSUME NEW c \in Adjusters, \A d \in Adjusters \ {c} : SameRow(d), Proves(c)'
      PROVE  \A d \in Adjusters : Proves(d)'
    BY <1>0, <1>a, SameProves
\* A call moves on without touching its row.
<1>1. ASSUME NEW c \in Adjusters, UNCHANGED <<entry, wire, landed, ruled>>,
             adjuster[c].at \in Running \cup {"idle"},
             NEW place \in Running \cup {"answered", "gone"},
             place \in PastMark => adjuster[c].at \in PastMark,
             place \in {"looked", "ready"} <=>
                 /\ adjuster[c].at \in {"idle", "looked", "ready"}
                 /\ place \notin {"answered", "gone"},
             \/ MoveTo(c, place)
             \/ place = "failing" /\ \E unknown \in BOOLEAN : FailWith(c, unknown)
      PROVE  \A d \in Adjusters : Proves(d)'
    <2>1. adjuster'[c].at = place
        BY <1>0, <1>1 DEF MoveTo, FailWith
    <2>2. \A d \in Adjusters \ {c} : adjuster'[d] = adjuster[d]
        BY <1>0, <1>1 DEF MoveTo, FailWith
    <2>3. \A d \in Adjusters \ {c} : SameRow(d)
        BY <1>1, <2>2 DEF SameRow, SameRequest
    <2>4. Proves(c)'
        BY <1>0, <1>1, <2>1, MoveProves
    <2> QED  BY <1>a, <2>3, <2>4
<1> USE DEF Running, Holding, PastMark
<1>2. ASSUME NEW c \in Adjusters, adjuster[c].at \notin {"idle", "looked", "ready", "answered", "gone"}
      PROVE  /\ c \in Rows /\ entry[c] \in EntryRows
             /\ adjuster[c].at \in PastMark => entry[c].marked
    BY <1>0, <1>2 DEF Proves, Rows
<1>3. ASSUME NEW c \in Adjusters, NEW row, NEW place, SetEntry(c, row), MoveTo(c, place),
             UNCHANGED <<wire, landed, ruled>>
      PROVE  \A d \in Adjusters \ {c} : SameRow(d)
    BY <1>0, <1>3 DEF SetEntry, MoveTo, SameRow, SameRequest
<1>4. ASSUME NEW c \in Adjusters, AdjusterStep(c)
      PROVE  \A d \in Adjusters : Proves(d)'
    <2>1. CASE Look(c) \/ Preflight(c)
        BY <1>1, <2>1 DEF Look, Preflight
    <2>2. CASE EnterLock(c) \/ Audit(c)
        BY <1>1, <2>2 DEF EnterLock, Audit
    <2>3. CASE CreateCode(c) \/ ReadQuota(c)
        BY <1>1, <2>3 DEF CreateCode, ReadQuota
    <2>4. CASE Receive(c)
        BY <1>1, <2>4 DEF Receive
    <2>5. CASE InsertPending(c)
        <3>1. CASE MoveTo(c, "answered") /\ UNCHANGED entry
            BY <1>1, <2>5, <3>1 DEF InsertPending
        <3> QED  BY <2>5, <3>1, InsertProves DEF InsertPending
    <2>6. CASE MarkAttempt(c)
        <3>1. CASE FailWith(c, FALSE) /\ UNCHANGED entry
            BY <1>1, <2>6, <3>1 DEF MarkAttempt
        <3>2. CASE SetEntry(c, [entry[c] EXCEPT !.marked = TRUE]) /\ MoveTo(c, "queued")
            <4> DEFINE row == [entry[c] EXCEPT !.marked = TRUE]
            <4>1. c \in Rows /\ entry[c] \in EntryRows
                BY <1>2, <2>6 DEF MarkAttempt
            <4>2. row \in EntryRows /\ row.status = entry[c].status /\ row.marked
                BY <4>1 DEF EntryRows
            <4>3. Proves(c)'
                BY <2>6, <3>2, <4>1, <4>2, WriteProves DEF MarkAttempt
            <4> QED  BY <1>3, <1>a, <2>6, <3>2, <4>3 DEF MarkAttempt
        <3> QED  BY <2>6, <3>1, <3>2 DEF MarkAttempt
    <2>7. CASE RecordCode(c)
        <3>1. CASE FailWith(c, TRUE) /\ UNCHANGED entry
            BY <1>1, <2>7, <3>1 DEF RecordCode
        <3>2. CASE SetEntry(c, [entry[c] EXCEPT !.code = TRUE]) /\ MoveTo(c, "sending")
            <4> DEFINE row == [entry[c] EXCEPT !.code = TRUE]
            <4>1. c \in Rows /\ entry[c] \in EntryRows /\ entry[c].marked
                BY <1>2, <2>7 DEF RecordCode
            <4>2. row \in EntryRows /\ row.status = entry[c].status /\ row.marked
                BY <4>1 DEF EntryRows
            <4>3. Proves(c)'
                BY <2>7, <3>2, <4>1, <4>2, WriteProves DEF RecordCode
            <4> QED  BY <1>3, <1>a, <2>7, <3>2, <4>3 DEF RecordCode
        <3> QED  BY <2>7, <3>1, <3>2 DEF RecordCode
    <2>8. CASE Send(c)
        <3>1. \A d \in Adjusters \ {c} : SameRow(d)
            BY <1>0, <2>8 DEF Send, SameRow, SameRequest
        <3>2. adjuster'[c].at = "sent" /\ entry' = entry /\ landed' = landed /\ ruled' = ruled
            BY <1>0, <2>8 DEF Send
        <3>3. entry[c] # NoEntry /\ entry[c].marked
            BY <1>2, <2>8 DEF Send, Rows
        <3>4. Proves(c)'
            BY <1>0, <2>8, <3>2, <3>3 DEF Send, Proves, KnownApplied, KnownVoid
        <3> QED  BY <1>a, <3>1, <3>4
    <2>9. CASE SaveApplied(c)
        <3>1. CASE FailWith(c, TRUE) /\ UNCHANGED entry
            BY <1>1, <2>9, <3>1 DEF SaveApplied
        <3>2. CASE /\ SetEntry(c, [entry[c] EXCEPT !.status = "applied", !.code = TRUE])
                   /\ MoveTo(c, "auditing")
            <4>1. c \in Rows /\ entry[c] \in EntryRows /\ entry[c].marked /\ landed[c] = 1
                BY <1>0, <1>2, <2>9 DEF SaveApplied, Sends
            <4>2. /\ entry'[c] = [entry[c] EXCEPT !.status = "applied", !.code = TRUE, !.stale = FALSE]
                  /\ adjuster'[c].at = "auditing" /\ landed' = landed
                BY <1>0, <2>9, <3>2 DEF SaveApplied, SetEntry, MoveTo
            <4>3. /\ entry'[c].status = "applied" /\ entry'[c].marked = entry[c].marked
                  /\ ~entry'[c].stale
                BY <4>1, <4>2 DEF EntryRows
            <4>4. entry'[c] \in EntryRows
                <5>1. "applied" \in EntryStatuses
                    BY DEF EntryStatuses
                <5> QED  BY <4>1, <4>2, <5>1 DEF EntryRows
            <4>5. Proves(c)'
                BY <4>1, <4>2, <4>3, <4>4, QuotaAdjustAssumption DEF Proves, KnownApplied
            <4> QED  BY <1>3, <1>a, <2>9, <3>2, <4>5 DEF SaveApplied
        <3> QED  BY <2>9, <3>1, <3>2 DEF SaveApplied
    <2>10. CASE SaveFailure(c)
        <3> DEFINE s == IF adjuster[c].unknown THEN "reconciliation_required" ELSE "failed"
        <3>1. CASE UNCHANGED entry
            BY <1>1, <2>10, <3>1 DEF SaveFailure
        <3>2. CASE SetEntry(c, [entry[c] EXCEPT !.status = s])
            <4>1. /\ c \in Rows /\ entry[c] \in EntryRows
                  /\ Heard(c) => entry[c].marked
                  /\ ~adjuster[c].unknown => ~Heard(c)
                BY <1>0, <1>2, <2>10 DEF SaveFailure, Sends, Proves, Rows
            <4>2. /\ entry'[c] = [entry[c] EXCEPT !.status = s, !.stale = FALSE]
                  /\ adjuster'[c].at = "answered" /\ UNCHANGED <<wire, landed, ruled>>
                BY <1>0, <2>10, <3>2 DEF SaveFailure, SetEntry, MoveTo
            <4>3. /\ entry'[c].status = s /\ entry'[c].marked = entry[c].marked
                  /\ ~entry'[c].stale
                BY <4>1, <4>2 DEF EntryRows
            <4>4. entry'[c] \in EntryRows
                <5>1. s \in EntryStatuses
                    BY DEF EntryStatuses, Unresolved
                <5> QED  BY <4>1, <4>2, <5>1 DEF EntryRows
            <4>5. s = "failed" => KnownVoid(c)'
                BY <1>0, <4>1, <4>2 DEF KnownVoid, Heard
            <4>6. s # "applied" /\ (Heard(c)' <=> Heard(c))
                BY <4>2 DEF Heard
            <4> HIDE DEF s
            <4>7. Proves(c)'
                BY <4>1, <4>2, <4>3, <4>4, <4>5, <4>6, QuotaAdjustAssumption DEF Proves
            <4> QED  BY <1>3, <1>a, <2>10, <3>2, <4>7 DEF SaveFailure
        <3> QED  BY <2>10, <3>1, <3>2 DEF SaveFailure
    <2> QED  BY <1>4, <2>1, <2>2, <2>3, <2>4, <2>5, <2>6, <2>7, <2>8, <2>9, <2>10 DEF AdjusterStep
<1>5. ASSUME NEW c \in Adjusters, Arrive(c)
      PROVE  \A d \in Adjusters : Proves(d)'
    <2>1. \A d \in Adjusters \ {c} : SameRow(d)
        BY <1>0, <1>5 DEF Arrive, SameRow, SameRequest
    <2>2. Heard(c) /\ landed[c] = 0 /\ c \in wire
        BY <1>0, <1>5 DEF Arrive, Sends, Heard
    <2>3. /\ entry[c] # NoEntry /\ entry[c].marked
          /\ adjuster[c].at \notin {"idle", "looked", "ready"}
          /\ c \notin ruled => entry[c].status \notin {"applied", "failed"}
        BY <1>0, <2>2 DEF Proves, KnownApplied, KnownVoid
    <2>4. UNCHANGED <<entry, adjuster, ruled>>
        BY <1>5 DEF Arrive
    <2>5. Proves(c)'
        BY <1>0, <2>3, <2>4 DEF Proves
    <2> QED  BY <1>a, <2>1, <2>5
<1>6. ASSUME NEW c \in Adjusters, GrowStale(c)
      PROVE  \A d \in Adjusters : Proves(d)'
    <2>1. \A d \in Adjusters \ {c} : SameRow(d)
        BY <1>0, <1>6 DEF GrowStale, SameRow, SameRequest
    <2>2. /\ c \in Rows /\ entry[c] \in EntryRows /\ entry[c].status = "pending"
          /\ adjuster[c].at \notin Running /\ UNCHANGED <<adjuster, wire, landed, ruled>>
        BY <1>0, <1>6 DEF GrowStale, Rows
    <2>3. entry'[c] = [entry[c] EXCEPT !.stale = TRUE]
        BY <1>0, <1>6 DEF GrowStale
    <2>4. entry'[c].status = "pending" /\ entry'[c].marked = entry[c].marked
        BY <2>2, <2>3 DEF EntryRows
    <2>5. entry'[c] # NoEntry
        BY <2>2, <2>3, QuotaAdjustAssumption DEF EntryRows
    <2>6. Heard(c)' <=> Heard(c)
        BY <2>2 DEF Heard
    <2>7. Proves(c)'
        BY <1>0, <2>2, <2>4, <2>5, <2>6 DEF Proves, Rows
    <2> QED  BY <1>a, <2>1, <2>7
<1>7. ASSUME NEW c \in Adjusters, ResolveQuotaAdjustment(c)
      PROVE  \A d \in Adjusters : Proves(d)'
    <2>1. \A d \in Adjusters \ {c} : SameRow(d)
        BY <1>0, <1>7 DEF ResolveQuotaAdjustment, SetEntry, SameRow, SameRequest
    <2>2. /\ c \in Rows /\ entry[c] \in EntryRows /\ c \in ruled'
          /\ UNCHANGED <<adjuster, wire, landed>>
        BY <1>0, <1>7 DEF ResolveQuotaAdjustment, Rows
    <2>3. PICK verdict \in {"applied", "failed"} :
             entry'[c] = [entry[c] EXCEPT !.status = verdict, !.stale = FALSE]
        BY <1>0, <1>7 DEF ResolveQuotaAdjustment, SetEntry
    <2>4. entry'[c].marked = entry[c].marked /\ ~entry'[c].stale
        BY <2>2, <2>3 DEF EntryRows
    <2>5. entry'[c] \in EntryRows
        <3>1. verdict \in EntryStatuses
            BY DEF EntryStatuses
        <3> QED  BY <2>2, <2>3, <3>1 DEF EntryRows
    <2>6. Heard(c)' <=> Heard(c)
        BY <2>2 DEF Heard
    <2>7. Proves(c)'
        BY <1>0, <2>2, <2>4, <2>5, <2>6, QuotaAdjustAssumption DEF Proves, Rows
    <2> QED  BY <1>a, <2>1, <2>7
<1>8. CASE CrashPortal
    <2> SUFFICES ASSUME NEW d \in Adjusters PROVE Proves(d)'
        OBVIOUS
    <2>1. CASE adjuster[d].at \notin Running
        BY <1>0, <1>8, <2>1, SameProves DEF CrashPortal, SameRow, SameRequest
    <2>2. CASE adjuster[d].at \in Running
        <3>1. adjuster'[d].at = "gone" /\ UNCHANGED <<entry, wire, landed, ruled>>
            BY <1>0, <1>8, <2>2 DEF CrashPortal
        <3> QED  BY <1>0, <2>2, <3>1, MoveProves
    <2> QED  BY <2>1, <2>2
<1> QED  BY <1>4, <1>5, <1>6, <1>7, <1>8 DEF QuotaNext

-----------------------------------------------------------------------------
(* The unique index.                                                       *)

\* Only the transaction that inserts adds a row.
LEMMA RowsGrow ==
    ASSUME QuotaInv, QuotaNext
    PROVE  \/ Rows' \subseteq Rows
           \/ \E c \in Adjusters : /\ ~Blocked /\ ~HasRow(KeyOfAdjuster[c])
                                   /\ Rows' \subseteq Rows \cup {c}
<1>0. QuotaTypeOK /\ \A d \in Adjusters : Proves(d)
    BY DEF QuotaInv
<1>1. UNCHANGED entry => Rows' \subseteq Rows
    BY DEF Rows
<1>2. ASSUME NEW c \in Rows, NEW row, SetEntry(c, row)
      PROVE  Rows' \subseteq Rows
    BY <1>0, <1>2 DEF SetEntry, Rows, QuotaTypeOK
<1>3. ASSUME NEW c \in Adjusters, adjuster[c].at \notin {"idle", "looked", "ready", "answered", "gone"}
      PROVE  c \in Rows
    BY <1>0, <1>3 DEF Proves, Rows
<1>4. ASSUME NEW c \in Adjusters, AdjusterStep(c)
      PROVE  \/ Rows' \subseteq Rows
             \/ /\ ~Blocked /\ ~HasRow(KeyOfAdjuster[c])
                /\ Rows' \subseteq Rows \cup {c}
    <2>1. CASE InsertPending(c)
        <3>1. CASE ~Blocked /\ ~HasRow(KeyOfAdjuster[c])
            <4>1. entry' = [d \in Adjusters |-> IF d = c THEN NewEntry ELSE Reclaimed(d)]
                BY <2>1, <3>1 DEF InsertPending
            <4>2. \A d \in Adjusters : entry[d] = NoEntry => Reclaimed(d) = NoEntry
                BY DEF Reclaimed
            <4>3. Rows' \subseteq Rows \cup {c}
                BY <4>1, <4>2 DEF Rows
            <4> QED  BY <3>1, <4>3
        <3> QED  BY <1>1, <2>1, <3>1 DEF InsertPending
    <2>2. CASE MarkAttempt(c) \/ RecordCode(c) \/ SaveApplied(c) \/ SaveFailure(c)
        <3>1. c \in Rows
            BY <1>3, <2>2 DEF MarkAttempt, RecordCode, SaveApplied, SaveFailure
        <3> QED  BY <1>1, <1>2, <2>2, <3>1 DEF MarkAttempt, RecordCode, SaveApplied, SaveFailure
    <2>3. CASE \/ Look(c) \/ Preflight(c) \/ EnterLock(c) \/ CreateCode(c) \/ ReadQuota(c)
               \/ Send(c) \/ Receive(c) \/ Audit(c)
        BY <1>1, <2>3 DEF Look, Preflight, EnterLock, CreateCode, ReadQuota, Send, Receive, Audit
    <2> QED  BY <1>4, <2>1, <2>2, <2>3 DEF AdjusterStep
<1>5. ASSUME NEW c \in Adjusters, Arrive(c) \/ GrowStale(c) \/ ResolveQuotaAdjustment(c)
      PROVE  Rows' \subseteq Rows
    <2>1. CASE Arrive(c)
        BY <1>1, <2>1 DEF Arrive
    <2>2. CASE GrowStale(c)
        BY <1>0, <2>2 DEF GrowStale, Rows, QuotaTypeOK
    <2>3. CASE ResolveQuotaAdjustment(c)
        BY <1>2, <2>3 DEF ResolveQuotaAdjustment
    <2> QED  BY <1>5, <2>1, <2>2, <2>3
<1>6. CASE CrashPortal
    BY <1>1, <1>6 DEF CrashPortal
<1> QED  BY <1>4, <1>5, <1>6 DEF QuotaNext

LEMMA OneRowStep ==
    ASSUME QuotaInv, QuotaNext
    PROVE  OneRowPerKey'
<1>0. OneRowPerKey
    BY DEF QuotaInv
<1>1. CASE Rows' \subseteq Rows
    BY <1>0, <1>1 DEF OneRowPerKey
<1>2. ASSUME NEW c \in Adjusters, ~HasRow(KeyOfAdjuster[c]), Rows' \subseteq Rows \cup {c}
      PROVE  OneRowPerKey'
    BY <1>0, <1>2 DEF OneRowPerKey, HasRow
<1> QED  BY <1>1, <1>2, RowsGrow

LEMMA QuotaInvStep == QuotaInv /\ [QuotaNext]_quotaVars => QuotaInv'
<1> SUFFICES ASSUME QuotaInv, [QuotaNext]_quotaVars PROVE QuotaInv'
    OBVIOUS
<1>1. CASE QuotaNext
    <2>1. QuotaTypeOK'
        BY <1>1, QuotaTypeStep DEF QuotaInv
    <2> QED  BY <1>1, <2>1, SendsStep, ProvesStep, OneRowStep DEF QuotaInv
<1>2. CASE UNCHANGED quotaVars
    <2>1. \A d \in Adjusters : SameRow(d)
        BY <1>2 DEF quotaVars, SameRow, SameRequest
    <2>2. \A d \in Adjusters : Sends(d)' /\ Proves(d)'
        BY <2>1, SameSends, SameProves DEF QuotaInv, SameRow
    <2>3. OneRowPerKey' /\ QuotaTypeOK'
        BY <1>2 DEF QuotaInv, quotaVars, OneRowPerKey, Rows, QuotaTypeOK
    <2> QED  BY <2>2, <2>3 DEF QuotaInv
<1> QED  BY <1>1, <1>2

LEMMA QuotaInvariant == QuotaInit /\ [][QuotaNext]_quotaVars => []QuotaInv
BY QuotaInvInit, QuotaInvStep, PTL

-----------------------------------------------------------------------------
(* The theorems.                                                           *)

\* A row that adjustPortalQuota has closed by itself as applied was applied
\* at New API exactly once, and one it has closed as failed never was and
\* never will be: for any number of calls, crashes and lost requests.
THEOREM ClosedRowsAreTrue ==
    QuotaInit /\ [][QuotaNext]_quotaVars => []ClosedIsTrue
<1>1. QuotaInv => ClosedIsTrue
    BY DEF QuotaInv, Proves, ClosedIsTrue, Rows
<1> QED  BY <1>1, QuotaInvariant, PTL

\* All calls under one idempotency key change the quota at most once between
\* them: the index allows one row for a key, and New API hears of a call only
\* past its row.
THEOREM KeysLandOnce ==
    QuotaInit /\ [][QuotaNext]_quotaVars => []KeyLandsOnce
<1>1. QuotaInv => KeyLandsOnce
    <2> SUFFICES ASSUME QuotaInv, NEW c \in Adjusters, NEW d \in Adjusters
                 PROVE  /\ landed[c] <= 1
                        /\ KeyOfAdjuster[c] = KeyOfAdjuster[d] /\ landed[c] = 1 /\ landed[d] = 1
                              => c = d
        BY DEF KeyLandsOnce
    <2>1. landed[c] <= 1
        BY DEF QuotaInv, Sends
    <2>2. \A e \in Adjusters : landed[e] = 1 => e \in Rows
        BY DEF QuotaInv, Proves, Heard, Rows
    <2> QED  BY <2>1, <2>2 DEF QuotaInv, OneRowPerKey
<1> QED  BY <1>1, QuotaInvariant, PTL

\* A row is inserted only when New API's side of every other row that no
\* administrator has ruled on is known: the triage inside the transaction
\* lets no attempt of unknown outcome pass, whatever its key.
THEOREM AdjustmentsStartKnown ==
    QuotaInit /\ [][QuotaNext]_quotaVars => AdjustedWhenKnown
<1>1. QuotaInv /\ [QuotaNext]_quotaVars =>
         [\A c \in Adjusters \ Rows : entry'[c] # NoEntry =>
             \A d \in Rows \ ruled : KnownApplied(d) \/ KnownVoid(d)]_quotaVars
    <2> SUFFICES ASSUME QuotaInv, QuotaNext, NEW c \in Adjusters \ Rows, entry'[c] # NoEntry,
                        NEW d \in Rows \ ruled
                 PROVE  KnownApplied(d) \/ KnownVoid(d)
        OBVIOUS
    <2>1. c \in Rows' \ Rows
        BY DEF Rows
    <2>2. ~Blocked
        BY <2>1, RowsGrow
    <2>3. Proves(d) /\ entry[d] \in EntryRows /\ entry[d] # NoEntry
        BY DEF QuotaInv, QuotaTypeOK, Rows
    <2>4. CASE entry[d].status \in Unresolved
        BY <2>2, <2>4, UnblockedIsVoid DEF Blocked
    <2>5. CASE entry[d].status \in {"applied", "failed"}
        BY <2>3, <2>5 DEF Proves
    <2> QED  BY <2>3, <2>4, <2>5 DEF EntryRows, EntryStatuses
<1> QED  BY <1>1, QuotaInvariant, PTL DEF AdjustedWhenKnown

-----------------------------------------------------------------------------
(***************************************************************************)
(* The API keys of one user.                                               *)
(***************************************************************************)
RowStatuses == {"absent", "active", "disabled", "deleted"}
KeyCallShapes == [op : {"create", "disable", "delete"}, key : ApiKeys, at : KeyStages]

KeysTypeOK ==
    /\ keyRow \in [ApiKeys -> RowStatuses]
    /\ keyCall \in [KeyCalls -> KeyCallShapes]

\* A creation has its key to itself until it has inserted it.
KeysAreFresh ==
    \A c \in KeyCalls : keyCall[c].op = "create" =>
        /\ keyCall[c].key \in LocalKeys
        /\ keyCall[c].at \in {"new", "look", "insert"} => keyRow[keyCall[c].key] = "absent"
        /\ \A d \in KeyCalls \ {c} :
              keyCall[d].op = "create" => keyCall[d].key # keyCall[c].key

\* What a call knows of its key, however old what it has read is.
CallKnows(c) ==
    /\ At(c, "delete", "delete") => keyRow[keyCall[c].key] # "absent"
    /\ At(c, "delete", "sent") => keyCall[c].key \in LegacyKeys
    /\ At(c, "delete", "save") => keyCall[c].key \in LegacyKeys \ remoteKeys
    /\ keyCall[c].at \in {"audit", "told"} /\ keyCall[c].op = "delete"
          => keyRow[keyCall[c].key] = "deleted"
    /\ keyCall[c].at \in {"audit", "told"} /\ keyCall[c].op = "disable"
          => keyRow[keyCall[c].key] \in {"disabled", "deleted"}

\* A legacy key has its row, hidden only if New API has forgotten the token.
HiddenIsGone ==
    \A k \in LegacyKeys :
        keyRow[k] # "absent" /\ (keyRow[k] = "deleted" => k \notin remoteKeys)

KeysInv ==
    /\ KeysTypeOK /\ KeysAreFresh /\ HiddenIsGone
    /\ \A c \in KeyCalls : CallKnows(c)

LEMMA KeysInvInit == KeysInit => KeysInv
<1> SUFFICES ASSUME KeysInit PROVE KeysInv
    OBVIOUS
<1> USE PortalKeysAssumption DEF KeysInit
<1>1. KeysTypeOK
    <2>1. keyRow \in [ApiKeys -> RowStatuses]
        BY DEF RowStatuses
    <2>2. keyCall \in [KeyCalls -> KeyCallShapes]
        BY DEF KeyCallShapes, KeyStages
    <2> QED  BY <2>1, <2>2 DEF KeysTypeOK
<1>2. KeysAreFresh
    BY DEF KeysAreFresh, Present
<1>3. HiddenIsGone
    BY DEF HiddenIsGone, Present
<1>4. ASSUME NEW c \in KeyCalls PROVE CallKnows(c)
    <2>1. keyCall[c].at = "new"
        OBVIOUS
    <2> QED  BY <2>1 DEF CallKnows, At
<1> QED  BY <1>1, <1>2, <1>3, <1>4 DEF KeysInv


\* A row goes from absent to active, only by its own creation, and from there
\* to disabled and deleted, a legacy one when New API has forgotten its token.
RowsForward(c) ==
    \A k \in ApiKeys : keyRow'[k] # keyRow[k] =>
        /\ keyRow'[k] # "absent" /\ keyRow[k] # "deleted"
        /\ keyRow[k] = "disabled" => keyRow'[k] = "deleted"
        /\ keyRow[k] = "absent" => At(c, "create", "insert") /\ keyCall[c].key = k
        /\ keyRow'[k] = "deleted" /\ k \in LegacyKeys => k \notin remoteKeys

\* Rows that only go forward leave what the other calls know as it is.
LEMMA ForwardKeeps ==
    ASSUME KeysInv, NEW c \in KeyCalls, NEW stage \in KeyStages, KeyGoes(c, stage),
           keyRow' \in [ApiKeys -> RowStatuses], UNCHANGED remoteKeys, RowsForward(c),
           stage \in {"new", "look", "insert"} /\ keyCall[c].op = "create"
              => keyCall[c].at \in {"new", "look", "insert"} /\ UNCHANGED keyRow,
           CallKnows(c)'
    PROVE  KeysInv'
<1> USE PortalKeysAssumption DEF KeysInv, KeysTypeOK
<1>1. /\ keyCall' \in [KeyCalls -> KeyCallShapes]
      /\ \A d \in KeyCalls : /\ keyCall'[d].op = keyCall[d].op
                             /\ keyCall'[d].key = keyCall[d].key
                             /\ d # c => keyCall'[d].at = keyCall[d].at
      /\ keyCall'[c].at = stage
    BY DEF KeyGoes, KeyCallShapes
<1>2. \A d \in KeyCalls : keyCall[d].key \in ApiKeys
    BY DEF KeyCallShapes
<1>3. KeysAreFresh'
    <2> SUFFICES ASSUME NEW d \in KeyCalls, keyCall'[d].op = "create"
                 PROVE  /\ keyCall'[d].key \in LocalKeys
                        /\ keyCall'[d].at \in {"new", "look", "insert"}
                              => keyRow'[keyCall'[d].key] = "absent"
                        /\ \A e \in KeyCalls \ {d} :
                              keyCall'[e].op = "create" => keyCall'[e].key # keyCall'[d].key
        BY DEF KeysAreFresh
    <2>1. /\ keyCall[d].key \in LocalKeys
          /\ keyCall[d].at \in {"new", "look", "insert"} => keyRow[keyCall[d].key] = "absent"
          /\ \A e \in KeyCalls \ {d} :
                keyCall[e].op = "create" => keyCall[e].key # keyCall[d].key
        BY <1>1 DEF KeysAreFresh
    <2>2. ASSUME keyCall'[d].at \in {"new", "look", "insert"}
          PROVE  keyRow'[keyCall'[d].key] = "absent"
        <3>1. CASE d = c
            BY <1>1, <2>1, <2>2, <3>1
        <3>2. CASE d # c
            <4>1. keyRow[keyCall[d].key] = "absent"
                BY <1>1, <2>1, <2>2, <3>2
            <4>2. keyRow'[keyCall[d].key] = keyRow[keyCall[d].key]
                BY <1>1, <1>2, <2>1, <3>2, <4>1 DEF RowsForward, At
            <4> QED  BY <1>1, <4>1, <4>2
        <3> QED  BY <3>1, <3>2
    <2> QED  BY <1>1, <2>1, <2>2
<1>4. HiddenIsGone'
    BY DEF HiddenIsGone, RowsForward
<1>5. ASSUME NEW d \in KeyCalls PROVE CallKnows(d)'
    <2>1. CASE d = c
        BY <2>1
    <2>2. CASE d # c
        <3>1. CallKnows(d)
            OBVIOUS
        <3>2. keyCall[d].key \in ApiKeys
            BY <1>2
        <3>3. /\ keyRow[keyCall[d].key] # "absent" => keyRow'[keyCall[d].key] # "absent"
              /\ keyRow[keyCall[d].key] = "deleted" => keyRow'[keyCall[d].key] = "deleted"
              /\ keyRow[keyCall[d].key] = "disabled"
                    => keyRow'[keyCall[d].key] \in {"disabled", "deleted"}
            BY <3>2 DEF RowsForward
        <3> QED  BY <1>1, <2>2, <3>1, <3>3 DEF CallKnows, At
    <2> QED  BY <2>1, <2>2
<1> QED  BY <1>1, <1>3, <1>4, <1>5

\* What each step does to the row of its key, and what its call then knows.
LEMMA KeysInvStep == KeysInv /\ [KeysNext]_keyVars => KeysInv'
<1> SUFFICES ASSUME KeysInv, [KeysNext]_keyVars PROVE KeysInv'
    OBVIOUS
<1> USE PortalKeysAssumption
<1>1. CASE UNCHANGED keyVars
    BY <1>1 DEF keyVars, KeysInv, KeysTypeOK, KeysAreFresh, HiddenIsGone, CallKnows, At
<1>2. ASSUME NEW c \in KeyCalls, ArriveDeletion(c) PROVE KeysInv'
    <2>1. UNCHANGED <<keyRow, keyCall>> /\ remoteKeys' \subseteq remoteKeys
        BY <1>2 DEF ArriveDeletion
    <2> QED  BY <2>1 DEF KeysInv, KeysTypeOK, KeysAreFresh, HiddenIsGone, CallKnows, At
<1>3. ASSUME NEW c \in KeyCalls, NEW stage \in KeyStages, KeyGoes(c, stage),
             UNCHANGED <<keyRow, remoteKeys>>, CallKnows(c)',
             stage \in {"new", "look", "insert"} /\ keyCall[c].op = "create"
                => keyCall[c].at \in {"new", "look"}
      PROVE  KeysInv'
    <2>1. RowsForward(c)
        BY <1>3 DEF RowsForward
    <2> QED  BY <1>3, <2>1, ForwardKeeps DEF KeysInv, KeysTypeOK
<1>4. ASSUME NEW c \in KeyCalls, NEW stage \in KeyStages, KeyGoes(c, stage)
      PROVE  /\ keyCall[c].key \in ApiKeys /\ CallKnows(c)
             /\ keyCall'[c].op = keyCall[c].op /\ keyCall'[c].key = keyCall[c].key
             /\ keyCall'[c].at = stage
             /\ keyCall[c].at \in KeyStages
    BY <1>4 DEF KeyGoes, KeysInv, KeysTypeOK, KeyCallShapes
<1>5. ASSUME NEW c \in KeyCalls, NEW status \in RowStatuses, WriteKey(c, status),
             keyCall[c].key \in ApiKeys
      PROVE  /\ keyRow' \in [ApiKeys -> RowStatuses]
             /\ keyRow'[keyCall[c].key] = status
             /\ \A k \in ApiKeys : k # keyCall[c].key => keyRow'[k] = keyRow[k]
    BY <1>5 DEF WriteKey, KeysInv, KeysTypeOK
<1>6. ASSUME NEW c \in KeyCalls,
             CallKey(c) \/ LookForName(c) \/ LookToDisable(c) \/ LookToDelete(c)
      PROVE  KeysInv'
    <2>1. PICK stage \in {"look", "insert", "disable", "delete", "told", "failed"} :
             KeyGoes(c, stage)
        BY <1>6 DEF CallKey, LookForName, LookToDisable, LookToDelete
    <2>2. stage \in KeyStages /\ UNCHANGED <<keyRow, remoteKeys>>
             /\ keyCall[c].at \in {"new", "look"}
        BY <1>6 DEF CallKey, LookForName, LookToDisable, LookToDelete, KeyStages, At
    <2>3. /\ stage = "delete" => keyRow[keyCall[c].key] # "absent"
          /\ stage = "told" /\ keyCall[c].op = "delete" => keyRow[keyCall[c].key] = "deleted"
          /\ stage = "told" /\ keyCall[c].op = "disable" => keyRow[keyCall[c].key] = "disabled"
        <3>1. keyCall'[c].at = stage
            BY <1>4, <2>1, <2>2
        <3>2. CASE CallKey(c) \/ LookForName(c)
            BY <1>4, <2>1, <2>2, <3>1, <3>2 DEF CallKey, LookForName, At, KeyStages
        <3>3. CASE LookToDisable(c)
            BY <1>4, <2>1, <2>2, <3>1, <3>3 DEF LookToDisable, At, KeyStages
        <3>4. CASE LookToDelete(c)
            BY <1>4, <2>1, <2>2, <3>1, <3>4 DEF LookToDelete, At, KeyStages
        <3> QED  BY <1>6, <3>2, <3>3, <3>4
    <2>4. CallKnows(c)'
        BY <1>4, <2>1, <2>2, <2>3 DEF CallKnows, At
    <2> QED  BY <1>3, <2>1, <2>2, <2>4
<1>7. ASSUME NEW c \in KeyCalls, InsertKey(c) PROVE KeysInv'
    <2>1. keyCall[c].op = "create" /\ keyCall[c].at = "insert" /\ UNCHANGED remoteKeys
        BY <1>7 DEF InsertKey, At
    <2>2. CASE KeyGoes(c, "failed") /\ UNCHANGED keyRow
        <3>1. "failed" \in KeyStages
            BY DEF KeyStages
        <3>2. CallKnows(c)'
            BY <1>4, <2>2, <3>1 DEF CallKnows, At
        <3> QED  BY <1>3, <2>1, <2>2, <3>1, <3>2
    <2>3. CASE KeyGoes(c, "audit") /\ WriteKey(c, "active")
        <3>1. "audit" \in KeyStages /\ "active" \in RowStatuses
            BY DEF KeyStages, RowStatuses
        <3>2. /\ keyRow[keyCall[c].key] = "absent" /\ keyCall[c].key \in ApiKeys
            BY <1>4, <2>1, <2>3, <3>1 DEF KeysInv, KeysAreFresh
        <3>3. RowsForward(c)
            BY <1>5, <2>1, <2>3, <3>1, <3>2 DEF RowsForward, At
        <3>4. CallKnows(c)'
            BY <1>4, <2>1, <2>3, <3>1 DEF CallKnows, At
        <3> QED  BY <1>5, <2>1, <2>3, <3>1, <3>2, <3>3, <3>4, ForwardKeeps
    <2> QED  BY <1>7, <2>2, <2>3 DEF InsertKey
<1>8. ASSUME NEW c \in KeyCalls, DisableIfActive(c) PROVE KeysInv'
    <2>1. keyCall[c].op = "disable" /\ keyCall[c].at = "disable" /\ UNCHANGED remoteKeys
        BY <1>8 DEF DisableIfActive, At
    <2>2. CASE KeyGoes(c, "look") /\ UNCHANGED keyRow
        <3>1. "look" \in KeyStages
            BY DEF KeyStages
        <3>2. CallKnows(c)'
            BY <1>4, <2>2, <3>1 DEF CallKnows, At
        <3> QED  BY <1>3, <2>1, <2>2, <3>1, <3>2
    <2>3. CASE /\ keyRow[keyCall[c].key] = "active"
               /\ WriteKey(c, "disabled") /\ KeyGoes(c, "audit")
        <3>1. "audit" \in KeyStages /\ "disabled" \in RowStatuses
            BY DEF KeyStages, RowStatuses
        <3>2. keyCall[c].key \in ApiKeys
            BY <1>4, <2>3, <3>1
        <3>3. RowsForward(c)
            BY <1>5, <2>3, <3>1, <3>2 DEF RowsForward
        <3>4. CallKnows(c)'
            BY <1>4, <1>5, <2>1, <2>3, <3>1, <3>2 DEF CallKnows, At
        <3> QED  BY <1>5, <2>1, <2>3, <3>1, <3>2, <3>3, <3>4, ForwardKeeps
    <2> QED  BY <1>8, <2>2, <2>3 DEF DisableIfActive
<1>9. ASSUME NEW c \in KeyCalls, DeleteLocal(c) \/ SaveDeletion(c) PROVE KeysInv'
    <2>1. /\ keyCall[c].op = "delete" /\ keyCall[c].at \in {"delete", "save"}
          /\ UNCHANGED remoteKeys
        BY <1>9 DEF DeleteLocal, SaveDeletion, At
    <2>2. ASSUME NEW stage \in {"look", "told"}, KeyGoes(c, stage), UNCHANGED keyRow,
                 keyRow[keyCall[c].key] = "deleted"
          PROVE  KeysInv'
        <3>1. stage \in KeyStages
            BY DEF KeyStages
        <3>2. /\ keyCall'[c].op = "delete" /\ keyCall'[c].key = keyCall[c].key
              /\ keyCall'[c].at \in {"look", "told"}
            BY <1>4, <2>1, <2>2, <3>1
        <3>3. CallKnows(c)'
            BY <2>2, <3>2 DEF CallKnows, At
        <3> QED  BY <1>3, <2>1, <2>2, <3>1, <3>3
    <2>3. CASE /\ keyRow[keyCall[c].key] # "deleted"
               /\ WriteKey(c, "deleted") /\ KeyGoes(c, "audit")
        <3>1. "audit" \in KeyStages /\ "deleted" \in RowStatuses
            BY DEF KeyStages, RowStatuses
        <3>2. keyCall[c].key \in ApiKeys /\ CallKnows(c)
            BY <1>4, <2>3, <3>1
        <3>3. /\ keyRow[keyCall[c].key] # "absent"
              /\ keyCall[c].key \in LegacyKeys => keyCall[c].key \notin remoteKeys
            <4>1. CASE DeleteLocal(c)
                BY <3>2, <4>1 DEF DeleteLocal, LocalKeys, CallKnows
            <4>2. CASE SaveDeletion(c)
                BY <3>2, <4>2 DEF SaveDeletion, CallKnows, KeysInv, HiddenIsGone
            <4> QED  BY <1>9, <4>1, <4>2
        <3>4. RowsForward(c)
            BY <1>5, <2>3, <3>1, <3>2, <3>3 DEF RowsForward
        <3>5. CallKnows(c)'
            BY <1>4, <1>5, <2>1, <2>3, <3>1, <3>2 DEF CallKnows, At
        <3> QED  BY <1>5, <2>1, <2>3, <3>1, <3>2, <3>4, <3>5, ForwardKeeps
    <2> QED  BY <1>9, <2>2, <2>3 DEF DeleteLocal, SaveDeletion
<1>10. ASSUME NEW c \in KeyCalls,
              SendDeletion(c) \/ ReceiveDeletion(c) \/ AuditKey(c) \/ KeyCallStops(c)
       PROVE  KeysInv'
    <2>1. PICK stage \in {"sent", "save", "told", "failed"} : KeyGoes(c, stage)
        BY <1>10 DEF SendDeletion, ReceiveDeletion, AuditKey, KeyCallStops
    <2>2. stage \in KeyStages /\ UNCHANGED <<keyRow, remoteKeys>>
        BY <1>10 DEF SendDeletion, ReceiveDeletion, AuditKey, KeyCallStops, KeyStages
    <2>3. /\ stage = "sent" => At(c, "delete", "delete") /\ keyCall[c].key \in LegacyKeys
          /\ stage = "save" => At(c, "delete", "sent") /\ keyCall[c].key \notin remoteKeys
          /\ stage = "told" => keyCall[c].at = "audit"
        <3>1. keyCall'[c].at = stage
            BY <1>4, <2>1, <2>2
        <3>2. ASSUME NEW s \in KeyStages, KeyGoes(c, s) PROVE s = stage
            BY <1>4, <3>1, <3>2
        <3>3. {"sent", "save", "told", "failed"} \subseteq KeyStages
            BY DEF KeyStages
        <3> QED  BY <1>10, <3>2, <3>3
                 DEF SendDeletion, ReceiveDeletion, AuditKey, KeyCallStops
    <2>4. CallKnows(c)'
        BY <1>4, <2>1, <2>2, <2>3 DEF CallKnows, At
    <2> QED  BY <1>3, <2>1, <2>2, <2>4
<1> QED  BY <1>1, <1>2, <1>6, <1>7, <1>8, <1>9, <1>10 DEF KeysNext


(***************************************************************************)
(* A key that the user was told is deleted or disabled is so, and a legacy *)
(* key hidden as deleted works no more at New API: for any number of calls *)
(* and keys, whatever fails and however late a deletion arrives there.     *)
(***************************************************************************)
THEOREM RevocationsHold == KeysInit /\ [][KeysNext]_keyVars => []RevokedStaysRevoked
<1>1. KeysInv => RevokedStaysRevoked
    BY DEF KeysInv, HiddenIsGone, CallKnows, At, RevokedStaysRevoked
<1> QED  BY <1>1, KeysInvInit, KeysInvStep, PTL
-----------------------------------------------------------------------------
(***************************************************************************)
(* The runtime quota pool of one user.                                     *)
(***************************************************************************)
PassShapes == [for : PoolTasks, at : PoolStages, first : BOOLEAN, found : PoolStatuses]

PoolTypeOK ==
    /\ poolQuota \in Int
    /\ poolRow \in [provisioned : BOOLEAN, status : PoolStatuses]
    /\ poolPass \in [Passes -> PassShapes]
    /\ overriding \subseteq Passes /\ credited \subseteq Passes
    /\ provisions \in Nat

\* What an override rests on: it, and the pass about to send it, know the
\* quota as low, or it has been credited since.
LowUnlessCredited ==
    \A p \in Passes :
        PoolAt(p, "write") \/ p \in overriding => poolQuota <= Target \/ p \in credited

ProvisionedOnce == provisions = (IF poolRow.provisioned THEN 1 ELSE 0)

PoolInv == PoolTypeOK /\ LowUnlessCredited /\ ProvisionedOnce

LEMMA PoolInvInit == PoolInit => PoolInv
<1> SUFFICES ASSUME PoolInit PROVE PoolInv
    OBVIOUS
<1> USE RuntimePoolAssumption DEF PoolInit
<1>1. NoPass \in PassShapes /\ NoPass.at = "idle"
    BY DEF NoPass, PassShapes, PoolTasks, PoolStages, PoolStatuses
<1>2. PoolTypeOK
    BY <1>1 DEF PoolTypeOK, PoolStatuses
<1>3. LowUnlessCredited
    BY <1>1 DEF LowUnlessCredited, PoolAt
<1> QED  BY <1>2, <1>3 DEF PoolInv, ProvisionedOnce

\* A step of one pass that leaves the quota and the overrides as they are.
LEMMA PassKeeps ==
    ASSUME PoolInv, NEW p \in Passes, NEW pass \in PassShapes,
           poolPass' = [poolPass EXCEPT ![p] = pass],
           UNCHANGED <<poolQuota, overriding>>,
           credited' = credited \/ credited' = credited \ ({p} \ overriding),
           pass.at = "write" => poolQuota <= Target,
           poolRow' \in [provisioned : BOOLEAN, status : PoolStatuses],
           provisions' \in Nat, ProvisionedOnce'
    PROVE  PoolInv'
<1> USE DEF PoolInv, PoolTypeOK
<1>1. PoolTypeOK'
    OBVIOUS
<1>2. LowUnlessCredited'
    BY DEF LowUnlessCredited, PoolAt
<1> QED  BY <1>1, <1>2

LEMMA PoolInvStep == PoolInv /\ [PoolNext]_poolVars => PoolInv'
<1> SUFFICES ASSUME PoolInv, [PoolNext]_poolVars PROVE PoolInv'
    OBVIOUS
<1> USE RuntimePoolAssumption
<1>1. CASE UNCHANGED poolVars
    BY <1>1 DEF poolVars, PoolInv, PoolTypeOK, LowUnlessCredited, ProvisionedOnce, PoolAt
<1>2. CASE UseQuota
    BY <1>2 DEF UseQuota, PoolInv, PoolTypeOK, LowUnlessCredited, ProvisionedOnce, PoolAt
<1>3. CASE CreditQuota
    <2>1. poolQuota' \in Int
        BY <1>3 DEF CreditQuota, PoolInv, PoolTypeOK
    <2> QED  BY <1>3, <2>1
             DEF CreditQuota, PoolInv, PoolTypeOK, LowUnlessCredited, ProvisionedOnce
<1>4. ASSUME NEW p \in Passes, PoolStep(p) PROVE PoolInv'
    <2>0. poolPass[p] \in PassShapes /\ NoPass \in PassShapes /\ NoPass.at = "idle"
        BY DEF PoolInv, PoolTypeOK, NoPass, PassShapes, PoolTasks, PoolStages, PoolStatuses
    <2>1. ASSUME NEW stage \in PoolStages \ {"write"}, PoolGoes(p, stage),
                 UNCHANGED <<poolQuota, poolRow, overriding, credited, provisions>>
          PROVE  PoolInv'
        <3> DEFINE pass == [poolPass[p] EXCEPT !.at = stage]
        <3>1. pass \in PassShapes /\ pass.at = stage
            BY <2>0 DEF PassShapes
        <3>2. poolPass' = [poolPass EXCEPT ![p] = pass]
            BY <2>1 DEF PoolGoes, PoolInv, PoolTypeOK
        <3>3. ProvisionedOnce'
            BY <2>1 DEF PoolInv, ProvisionedOnce
        <3> HIDE DEF pass
        <3> QED  BY <2>1, <3>1, <3>2, <3>3, PassKeeps DEF PoolInv, PoolTypeOK
    <2>2. ASSUME PoolEnds(p), UNCHANGED <<poolQuota, overriding, credited>>,
                 poolRow' \in [provisioned : BOOLEAN, status : PoolStatuses],
                 provisions' \in Nat, ProvisionedOnce'
          PROVE  PoolInv'
        BY <2>0, <2>2, PassKeeps DEF PoolEnds
    <2>3. ASSUME PoolEnds(p),
                 UNCHANGED <<poolQuota, poolRow, overriding, credited, provisions>>
          PROVE  PoolInv'
        BY <2>2, <2>3 DEF PoolInv, PoolTypeOK, ProvisionedOnce
    <2>4. CASE StartPass(p)
        <3>1. PICK for \in PoolTasks :
                 poolPass' = [poolPass EXCEPT ![p].for = for,
                                 ![p].at = IF for = "worker" THEN "read" ELSE "scan"]
            BY <2>4 DEF StartPass
        <3> DEFINE pass == [poolPass[p] EXCEPT !.for = for,
                               !.at = IF for = "worker" THEN "read" ELSE "scan"]
        <3>2. pass \in PassShapes /\ pass.at # "write"
            BY <2>0 DEF PassShapes, PoolStages
        <3>3. poolPass' = [poolPass EXCEPT ![p] = pass]
            BY <3>1 DEF PoolInv, PoolTypeOK
        <3>4. ProvisionedOnce'
            BY <2>4 DEF StartPass, PoolInv, ProvisionedOnce
        <3> HIDE DEF pass
        <3> QED  BY <2>4, <3>2, <3>3, <3>4, PassKeeps DEF StartPass, PoolInv, PoolTypeOK
    <2>5. CASE ScanBinding(p)
        BY <2>1, <2>3, <2>5 DEF ScanBinding, PoolStages
    <2>6. CASE ReadPool(p)
        <3>1. CASE PoolEnds(p)
            BY <2>3, <2>6, <3>1 DEF ReadPool
        <3>2. CASE poolPass' = [poolPass EXCEPT ![p].at = "measure", ![p].first = TRUE]
            <4> DEFINE pass == [poolPass[p] EXCEPT !.at = "measure", !.first = TRUE]
            <4>1. pass \in PassShapes /\ pass.at # "write"
                BY <2>0 DEF PassShapes, PoolStages
            <4>2. poolPass' = [poolPass EXCEPT ![p] = pass]
                BY <3>2 DEF PoolInv, PoolTypeOK
            <4>3. ProvisionedOnce'
                BY <2>6 DEF ReadPool, PoolInv, ProvisionedOnce
            <4> HIDE DEF pass
            <4> QED  BY <2>6, <4>1, <4>2, <4>3, PassKeeps DEF ReadPool, PoolInv, PoolTypeOK
        <3> QED  BY <2>6, <3>1, <3>2 DEF ReadPool
    <2>7. CASE MeasureQuota(p)
        <3> DEFINE writes == MayOverride(p) /\ poolQuota < LowMark
                   pass == [poolPass[p] EXCEPT !.found = ClassifyQuota(poolQuota),
                               !.at = IF writes THEN "write" ELSE "save"]
        <3>1. ClassifyQuota(poolQuota) \in PoolStatuses
            BY DEF PoolInv, PoolTypeOK, ClassifyQuota, PoolStatuses
        <3>2. pass \in PassShapes /\ (pass.at = "write" => writes)
            BY <2>0, <3>1 DEF PassShapes, PoolStages
        <3>3. poolPass' = [poolPass EXCEPT ![p] = pass]
            BY <2>7 DEF MeasureQuota, PoolInv, PoolTypeOK
        <3>4. writes => poolQuota <= Target
            BY DEF PoolInv, PoolTypeOK
        <3>5. ProvisionedOnce'
            BY <2>7 DEF MeasureQuota, PoolInv, ProvisionedOnce
        <3> HIDE DEF pass, writes
        <3> QED  BY <2>7, <3>2, <3>3, <3>4, <3>5, PassKeeps
                 DEF MeasureQuota, PoolInv, PoolTypeOK
    <2>8. CASE SendOverride(p)
        <3>1. poolPass' = [poolPass EXCEPT ![p] = [poolPass[p] EXCEPT !.at = "sent"]]
            BY <2>8 DEF SendOverride, PoolGoes, PoolInv, PoolTypeOK
        <3>2. [poolPass[p] EXCEPT !.at = "sent"] \in PassShapes
            BY <2>0 DEF PassShapes, PoolStages
        <3>3. PoolTypeOK'
            BY <2>8, <3>1, <3>2 DEF SendOverride, PoolInv, PoolTypeOK
        <3>4. LowUnlessCredited'
            BY <2>8, <3>1 DEF SendOverride, PoolInv, PoolTypeOK, LowUnlessCredited, PoolAt
        <3> QED  BY <2>8, <3>3, <3>4 DEF SendOverride, PoolInv, ProvisionedOnce
    <2>9. CASE ArriveOverride(p)
        <3>1. CASE UNCHANGED <<poolQuota, poolPass>>
            BY <2>9, <3>1 DEF ArriveOverride, PoolInv, PoolTypeOK, LowUnlessCredited,
                              ProvisionedOnce, PoolAt
        <3>2. CASE /\ poolQuota' = Target
                   /\ PoolGoes(p, "confirm") \/ UNCHANGED poolPass
            <4>1. [poolPass[p] EXCEPT !.at = "confirm"] \in PassShapes
                BY <2>0 DEF PassShapes, PoolStages
            <4>2. poolPass' \in [Passes -> PassShapes]
                BY <3>2, <4>1 DEF PoolGoes, PoolInv, PoolTypeOK
            <4>3. LowUnlessCredited'
                BY <3>2 DEF LowUnlessCredited
            <4> QED  BY <2>9, <3>2, <4>2, <4>3
                     DEF ArriveOverride, PoolInv, PoolTypeOK, ProvisionedOnce
        <3> QED  BY <2>9, <3>1, <3>2 DEF ArriveOverride
    <2>10. CASE ConfirmOverride(p)
        <3>1. CASE PoolGoes(p, "failed")
            BY <2>1, <2>10, <3>1 DEF ConfirmOverride, PoolStages
        <3>2. CASE poolPass' = [poolPass EXCEPT ![p].at = "save",
                                    ![p].found = ClassifyQuota(Target)]
            <4> DEFINE pass == [poolPass[p] EXCEPT !.at = "save",
                                   !.found = ClassifyQuota(Target)]
            <4>1. ClassifyQuota(Target) \in PoolStatuses
                BY DEF ClassifyQuota, PoolStatuses
            <4>2. pass \in PassShapes /\ pass.at # "write"
                BY <2>0, <4>1 DEF PassShapes, PoolStages
            <4>3. poolPass' = [poolPass EXCEPT ![p] = pass]
                BY <3>2 DEF PoolInv, PoolTypeOK
            <4>4. ProvisionedOnce'
                BY <2>10 DEF ConfirmOverride, PoolInv, ProvisionedOnce
            <4> HIDE DEF pass
            <4> QED  BY <2>10, <4>2, <4>3, <4>4, PassKeeps
                     DEF ConfirmOverride, PoolInv, PoolTypeOK
        <3> QED  BY <2>10, <3>1, <3>2 DEF ConfirmOverride
    <2>11. CASE SavePool(p)
        <3>1. poolPass[p].found \in PoolStatuses
            BY <2>0 DEF PassShapes
        <3>2. poolRow' \in [provisioned : BOOLEAN, status : PoolStatuses]
            <4>1. CASE poolRow' = [provisioned |-> TRUE, status |-> poolPass[p].found]
                BY <3>1, <4>1
            <4>2. CASE poolRow' = [poolRow EXCEPT !.status = poolPass[p].found]
                BY <3>1, <4>2 DEF PoolInv, PoolTypeOK
            <4>3. CASE UNCHANGED poolRow
                BY <4>3 DEF PoolInv, PoolTypeOK
            <4> QED  BY <2>11, <4>1, <4>2, <4>3 DEF SavePool
        <3>3. provisions' \in Nat /\ ProvisionedOnce'
            BY <2>11 DEF SavePool, PoolInv, PoolTypeOK, ProvisionedOnce
        <3> QED  BY <2>2, <2>11, <3>2, <3>3 DEF SavePool
    <2>12. CASE PoolFails(p)
        BY <2>1, <2>12 DEF PoolFails, PoolStages
    <2>13. CASE SavePoolError(p)
        <3>1. /\ poolRow' \in [provisioned : BOOLEAN, status : PoolStatuses]
              /\ poolRow'.provisioned = poolRow.provisioned
            BY <2>13 DEF SavePoolError, PoolInv, PoolTypeOK, PoolStatuses
        <3>2. provisions' \in Nat /\ ProvisionedOnce'
            BY <2>13, <3>1 DEF SavePoolError, PoolInv, PoolTypeOK, ProvisionedOnce
        <3> QED  BY <2>2, <2>13, <3>1, <3>2 DEF SavePoolError
    <2>14. CASE PoolStops(p)
        BY <2>3, <2>14 DEF PoolStops
    <2> QED  BY <1>4, <2>4, <2>5, <2>6, <2>7, <2>8, <2>9, <2>10, <2>11, <2>12, <2>13, <2>14
             DEF PoolStep
<1> QED  BY <1>1, <1>2, <1>3, <1>4 DEF PoolNext

(***************************************************************************)
(* No override is on its way that would take from a user more than a       *)
(* credit its pass has not seen, and a pool is provisioned once: for any   *)
(* number of passes that race, stop and are repeated, and any marks.       *)
(***************************************************************************)
THEOREM PoolIsOnlyRaised == PoolInit /\ [][PoolNext]_poolVars => []PoolOnlyRaised
<1>1. PoolInv => PoolOnlyRaised
    BY DEF PoolInv, PoolTypeOK, LowUnlessCredited, ProvisionedOnce, PoolOnlyRaised
<1> QED  BY <1>1, PoolInvInit, PoolInvStep, PTL
=============================================================================
