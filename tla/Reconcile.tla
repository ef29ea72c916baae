----------------------------- MODULE Reconcile ------------------------------
(***************************************************************************)
(* The reconcile worker (src/src/features/gateway/server/reconcile.ts): it *)
(* reads New API's usage log slice by slice behind a watermark, compares   *)
(* each entry with the request ledger and records what has no request.     *)
(* Several processes run it under the job lock; a process that lost the    *)
(* lock in the middle of a pass goes on until its next heartbeat.          *)
(*                                                                         *)
(* An entry of the log carries the time of the call and may be inserted up *)
(* to Delay later.  New API lists a slice newest insertion first, so that  *)
(* an insertion between two pages moves the entries of the later pages.    *)
(* Meters, prices and amounts are abstracted: reconcileSettled "compared"  *)
(* the row, whatever the verdict.                                          *)
(***************************************************************************)
EXTENDS JobLock, Sequences, FiniteSets

CONSTANTS
    Requests,    \* calls of New API, by newapi_request_id
    Users, Owner,
    Bound,       \* users whose binding is active
    Mixes,       \* what the calls may be, see Kinds
    OldLog,      \* entries from before the first pass
    NoTime,      \* reconcile_watermark_at IS NULL, a call not in the log
    Slice, Overlap, Lookback, MinSlice,        \* in units of the clock
    PageSize, PageLimit, MaxSlices,
    Delay,       \* bound: how late an entry is inserted
    MaxTime,     \* bound: the clock
    MaxFaults    \* bound: stalls, crashes and errors

\*   sync      a request of the gateway, answered by its handler
\*   task      a request whose row a gateway_task points to
\*   rowless   made with a runtime credential (rk_...), but not by a request
\*   external  made with another token
Kinds == {"sync", "task", "rowless", "external"}

ASSUME ReconcileAssumption ==
    /\ Mixes \subseteq [Requests -> Kinds]
    /\ OldLog \in Seq([call : Requests, time : {0}])
    /\ Owner \in [Requests -> Users] /\ Bound \subseteq Users
    /\ NoTime \notin Int
    /\ {Slice, MinSlice, PageSize, PageLimit, MaxSlices} \subseteq Nat \ {0}
    /\ {Overlap, Lookback, Delay, MaxTime, MaxFaults} \subseteq Nat

VARIABLES
    clock,
    kind,        \* what each call is
    log,         \* New API's usage log in the order of insertion
    ledger,      \* request_ledger rows of the calls
    orphans,     \* reconcile_orphan_observation, by newapi_request_id
    watermark,   \* gateway_job_lock.reconcile_watermark_at
    since,       \* history: where the passes begun without a watermark start
    job,         \* what each process's pass has read and where it stands
    read,        \* history: calls whose entry was processed to the end
    degraded,    \* history: a slice was finished by the user fallback
    faults

dataVars == <<ledger, orphans, watermark, since, read, degraded>>
vars     == <<lockVars, dataVars, clock, kind, log, job, faults>>

RowStatuses == {"none", "open", "settled", "failed_unbilled"}
Verdicts ==
    {"pending", "compared", "waived_by_missing_usage", "waived_by_failure"}

\* captured is the time newapi_request_id was written.
Rows ==
    [status : RowStatuses, captured : Int \cup {NoTime},
     telemetry : BOOLEAN, verdict : Verdicts]

Logged == {log[i].call : i \in DOMAIN log}
CallTime(r) == LET i == CHOOSE i \in DOMAIN log : log[i].call = r IN log[i].time

\*   idle    between two passes       page    about to fetch a page
\*   entry   about to read the row of the next entry
\*   act     has read it
\*   waived  markFailedUnbilled changed the row, its verdict is not written
\*   done    the slice is complete, the watermark not moved yet
Stages == {"idle", "page", "entry", "act", "waived", "done", "dead"}

NoJob ==
    [stage |-> "idle", mark |-> 0, queue |-> <<>>, slices |-> 0,
     source |-> "admin", list |-> Users, more |-> {}, page |-> 1, logs |-> <<>>,
     full |-> FALSE, status |-> "none"]

Init ==
    /\ LockInit
    /\ clock = 0
    /\ kind \in Mixes
    /\ log = OldLog
    /\ ledger = [r \in Requests |->
          [status |-> IF kind[r] \in {"sync", "task"} THEN "open" ELSE "none",
           captured |-> NoTime, telemetry |-> FALSE, verdict |-> "pending"]]
    /\ orphans = {}
    /\ watermark = NoTime
    /\ since = 0
    /\ job = [w \in Workers |-> NoJob]
    /\ read = {}
    /\ degraded = FALSE
    /\ faults = 0

Fault == faults < MaxFaults /\ faults' = faults + 1

-----------------------------------------------------------------------------
(* New API, the request handlers and time.                                 *)

Advance ==
    /\ clock < MaxTime
    /\ clock' = clock + 1
    /\ UNCHANGED <<lockVars, dataVars, kind, log, job, faults>>

\* New API inserts the entry of a call served up to Delay ago.
WriteLog(r, time) ==
    /\ r \notin Logged
    /\ time \in (clock - Delay)..clock /\ time >= 0
    /\ log' = Append(log, [call |-> r, time |-> time])
    /\ UNCHANGED <<lockVars, dataVars, clock, kind, job, faults>>

\* The handler writes the call's id, settles the row or gives it up.
HandlerWrites(r) ==
    /\ ledger[r].status = "open"
    /\ \/ /\ ledger[r].captured = NoTime
          /\ ledger' = [ledger EXCEPT ![r].captured = clock]
       \/ /\ ledger[r].captured # NoTime
          /\ ledger' = [ledger EXCEPT ![r].status = "settled"]
       \/ ledger' = [ledger EXCEPT ![r].status = "failed_unbilled"]
    /\ UNCHANGED <<lockVars, clock, kind, log, orphans, watermark, since, job,
                   read, degraded, faults>>

HolderIsDead == holder # NoOne /\ job[holder].stage = "dead"

HolderStale ==
    /\ HolderIsDead /\ FiveMinutesPass
    /\ UNCHANGED <<dataVars, clock, kind, log, job, faults>>

\* A live holder makes no heartbeat for five minutes while it awaits a write.
\* Anywhere else it asks for the lock before it does anything.
Stall ==
    /\ FiveMinutesPass /\ Fault
    /\ job[holder].stage \in {"act", "waived", "done"}
    /\ UNCHANGED <<dataVars, clock, kind, log, job>>

Crash(w) ==
    /\ Fault
    /\ job[w].stage # "dead"
    /\ \E v \in Workers \ {w} : job[v].stage # "dead"
    /\ job' = [job EXCEPT ![w] = [NoJob EXCEPT !.stage = "dead"]]
    /\ UNCHANGED <<lockVars, dataVars, clock, kind, log>>

-----------------------------------------------------------------------------
(* One pass of runReconcileSyncOnce.                                       *)

\* The slices from the watermark less the overlap to now.
SlicesBetween(start, now) ==
    LET n == (now - start + Slice - 1) \div Slice
        End(i) == IF start + i * Slice < now THEN start + i * Slice ELSE now
    IN [i \in 1..n |-> [start |-> start + (i - 1) * Slice, end |-> End(i)]]

Goto(w, stage) == job' = [job EXCEPT ![w].stage = stage]

EndPass(w) == job' = [job EXCEPT ![w] = NoJob]

\* The statements of a tick outside the workers fail: the tick's catch.
TickFails(w) ==
    /\ Fault
    /\ job[w].stage = "idle"
    /\ ForgetLock(w)
    /\ UNCHANGED <<dataVars, clock, kind, log, job>>

Later(a, b) == IF a = NoTime \/ a < b THEN b ELSE a

\* tick and runWorker take or renew the lock, then the pass reads the clock
\* and the watermark.  Without a watermark what lies before its first slice
\* is never read.
BeginFrom(w, mark, start) ==
    /\ job[w].stage = "idle"
    /\ IF owns[w] THEN RenewNow(w) ELSE AcquireJobLock(w)
    /\ IF owns'[w] /\ start < clock
       THEN /\ job' = [job EXCEPT ![w].stage = "page", ![w].mark = mark,
                                  ![w].queue = SlicesBetween(start, clock)]
            /\ since' = IF watermark = NoTime THEN Later(since, start) ELSE since
       ELSE UNCHANGED <<job, since>>
    /\ UNCHANGED <<ledger, orphans, watermark, read, degraded, clock, kind, log,
                   faults>>

Mark == IF watermark = NoTime THEN clock - Lookback ELSE watermark

\* The pass begins where the last one ended, without the overlap.
StartAtWatermark(w) ==
    BeginFrom(w, Mark, IF watermark = NoTime THEN Mark - Overlap ELSE Mark)

StartPass(w) == BeginFrom(w, Mark, Mark - Overlap)

\* The entries New API finds in a slice, both ends included: positions in the log.
Listed(slice, users) ==
    {i \in DOMAIN log : /\ log[i].time \in slice.start..slice.end
                        /\ Owner[log[i].call] \in users}

\* The latest insertion comes first.
Rank(i, listed) == Cardinality({j \in listed : j >= i})

PageOf(listed, p) ==
    LET before == (p - 1) * PageSize
        left   == Cardinality(listed) - before
    IN [k \in 1..(IF left < PageSize THEN left ELSE PageSize) |->
           log[CHOOSE i \in listed : Rank(i, listed) = before + k].call]

\* A slice with too many pages is halved; one of the least width is not.
Overflows(w) ==
    LET slice == Head(job[w].queue) IN
    job[w].page = PageLimit + 1 /\ slice.end - slice.start > MinSlice

Halves(slice) ==
    LET middle == (slice.start + slice.end) \div 2
    IN <<[start |-> slice.start, end |-> middle], [start |-> middle, end |-> slice.end]>>

\* The lists a pass has not read yet: New API's whole log, or, when that or
\* the processing of one of its entries fails, the logs of the users with an
\* active binding, one by one.  A slice is complete after the last list.
FromAdmin(j) == [j EXCEPT !.stage = "page", !.source = "admin", !.list = Users,
                          !.more = {}, !.page = 1, !.logs = <<>>]

\* After an empty page or its last entry, without an await: the next page, the
\* next list or the end of the slice.
AfterPage(w, full) ==
    LET rest == [job[w] EXCEPT !.logs = <<>>, !.full = FALSE, !.status = "none"] IN
    IF full
    THEN job' = [job EXCEPT ![w] = [rest EXCEPT !.stage = "page", !.page = @ + 1]]
    ELSE IF rest.more = {}
    THEN job' = [job EXCEPT ![w] = [rest EXCEPT !.stage = "done", !.page = 1]]
    ELSE \E u \in rest.more :
            job' = [job EXCEPT ![w] = [rest EXCEPT
                      !.stage = "page", !.list = {u}, !.more = @ \ {u}, !.page = 1]]

\* The slice is left at the first error.
GiveUpSlice(w) == Goto(w, "done") /\ degraded' = TRUE

FallBack(w) ==
    /\ IF Bound = {}
       THEN Goto(w, "done")
       ELSE \E u \in Bound :
              job' = [job EXCEPT ![w].stage = "page", ![w].source = "user",
                                 ![w].list = {u}, ![w].more = Bound \ {u},
                                 ![w].page = 1, ![w].logs = <<>>,
                                 ![w].full = FALSE, ![w].status = "none"]
    /\ degraded' = TRUE

\* An error is caught once, by processSlice.
Caught(w) ==
    IF job[w].source = "admin" THEN FallBack(w)
    ELSE EndPass(w) /\ UNCHANGED degraded

\* processSlice or processFallback: one page, unless the lock is lost.
FetchPage(w) ==
    LET slice == Head(job[w].queue)
        items == PageOf(Listed(slice, job[w].list), job[w].page)
        full  == Len(items) = PageSize
    IN /\ job[w].stage = "page"
       /\ KeepAlive(w)
       /\ CASE ~owns'[w] -> EndPass(w)
            [] owns'[w] /\ Overflows(w) ->
                 job' = [job EXCEPT ![w] = [FromAdmin(job[w]) EXCEPT
                                              !.queue = Halves(slice) \o Tail(@)]]
            [] owns'[w] /\ ~Overflows(w) /\ items = <<>> -> AfterPage(w, full)
            [] OTHER ->
                 job' = [job EXCEPT ![w].stage = "entry", ![w].logs = items,
                                    ![w].full = full]
       /\ UNCHANGED <<dataVars, clock, kind, log, faults>>

\* processUsageLog up to the row: found by its New API id, or not at all.
ReadEntry(w) ==
    /\ job[w].stage = "entry"
    /\ KeepAlive(w)
    /\ IF ~owns'[w] THEN EndPass(w)
       ELSE LET row == ledger[Head(job[w].logs)] IN
            job' = [job EXCEPT ![w].stage = "act",
                      ![w].status = IF row.captured = NoTime THEN "none"
                                    ELSE row.status]
    /\ UNCHANGED <<dataVars, clock, kind, log, faults>>

\* The entry is processed.
Processed(w) ==
    /\ read' = read \cup {Head(job[w].logs)}
    /\ IF Len(job[w].logs) > 1
       THEN job' = [job EXCEPT ![w].stage = "entry", ![w].logs = Tail(@),
                               ![w].status = "none"]
       ELSE AfterPage(w, job[w].full)

Observe(r) ==
    orphans' = IF kind[r] = "external" THEN orphans ELSE orphans \cup {r}

Compare(r) ==
    ledger' = [ledger EXCEPT ![r].telemetry = TRUE, ![r].verdict = "compared"]

\* The handler was faster than markFailedUnbilled; the row is read again.
CompareAnyRow(r) == Compare(r)

LeaveTheRow(r) == UNCHANGED ledger

LostTheRow(r) ==
    IF ledger[r].status = "settled" THEN Compare(r) ELSE UNCHANGED ledger

\* processUsageLog: the first write after the row has been read.  Only an open
\* row is looked at again, by the condition of markFailedUnbilled and, when
\* that fails, by a second read.
WriteEntry(w) ==
    LET r == Head(job[w].logs)
        row == ledger[r]
    IN /\ job[w].stage = "act"
       /\ \/ /\ job[w].status = "none"
             /\ Observe(r) /\ Processed(w) /\ UNCHANGED ledger
          \/ /\ job[w].status = "settled"
             /\ Compare(r) /\ Processed(w) /\ UNCHANGED orphans
          \/ /\ job[w].status = "open" /\ kind[r] = "task"
             /\ ledger' = [ledger EXCEPT ![r].telemetry = TRUE]
             /\ Processed(w) /\ UNCHANGED orphans
          \/ /\ job[w].status = "open" /\ kind[r] # "task" /\ row.status = "open"
             /\ ledger' = [ledger EXCEPT ![r].status = "failed_unbilled"]
             /\ Goto(w, "waived") /\ UNCHANGED <<orphans, read>>
          \/ /\ job[w].status = "open" /\ kind[r] # "task" /\ row.status # "open"
             /\ LostTheRow(r) /\ Processed(w) /\ UNCHANGED orphans
          \/ /\ job[w].status = "failed_unbilled"
             /\ ledger' = [ledger EXCEPT ![r].telemetry = TRUE,
                                         ![r].verdict = "waived_by_failure"]
             /\ Processed(w) /\ UNCHANGED orphans
       /\ UNCHANGED <<lockVars, watermark, since, degraded, clock, kind, log, faults>>

\* The second write, after a row has been waived.
WriteWaiver(w) ==
    /\ job[w].stage = "waived"
    /\ ledger' = [ledger EXCEPT ![Head(job[w].logs)].telemetry = TRUE,
                                ![Head(job[w].logs)].verdict = "waived_by_missing_usage"]
    /\ Processed(w)
    /\ UNCHANGED <<lockVars, orphans, watermark, since, degraded, clock, kind, log,
                   faults>>

\* New API, the database or the heartbeat fails.
PassFails(w) ==
    /\ Fault
    /\ \/ job[w].stage \in {"page", "act", "waived"} /\ UNCHANGED lockVars
       \/ job[w].stage \in {"page", "entry"} /\ HeartbeatThrows(w)
    /\ Caught(w)
    /\ UNCHANGED <<ledger, orphans, watermark, since, read, clock, kind, log>>

\* The next slice, unless this pass has completed as many as it may.
NextSlice(w, mark) ==
    LET rest == Tail(job[w].queue) IN
    IF rest = <<>> \/ job[w].slices + 1 >= MaxSlices
    THEN EndPass(w)
    ELSE job' = [job EXCEPT ![w] = [FromAdmin(job[w]) EXCEPT
                    !.queue = rest, !.slices = @ + 1, !.mark = mark]]

\* updateWatermarkMonotonic at the end of a slice.
MoveWatermark(w) ==
    LET mark == Later(job[w].mark, Head(job[w].queue).end) IN
    /\ job[w].stage = "done"
    /\ watermark' = Later(watermark, mark)
    /\ NextSlice(w, mark)
    /\ UNCHANGED <<lockVars, ledger, orphans, since, read, degraded, clock, kind, log,
                   faults>>

-----------------------------------------------------------------------------
Work(w) ==
    \/ StartPass(w) \/ FetchPage(w) \/ ReadEntry(w) \/ WriteEntry(w)
    \/ WriteWaiver(w) \/ MoveWatermark(w)

Next ==
    \/ Advance \/ HolderStale \/ Stall
    \/ \E r \in Requests : HandlerWrites(r)
    \/ \E r \in Requests, time \in 0..MaxTime : WriteLog(r, time)
    \/ \E w \in Workers : Work(w) \/ Crash(w) \/ TickFails(w) \/ PassFails(w)

\* The timers of a live process fire and its calls return; a dead holder's
\* heartbeat grows old.
Fairness ==
    /\ WF_vars(HolderStale)
    /\ \A w \in Workers : WF_vars(Work(w))

Spec == Init /\ [][Next]_vars /\ Fairness

-----------------------------------------------------------------------------
ReconcileTypeOK ==
    /\ LockTypeOK
    /\ clock \in 0..MaxTime
    /\ \A i \in DOMAIN log : log[i].call \in Requests /\ log[i].time \in 0..clock
    /\ kind \in Mixes
    /\ ledger \in [Requests -> Rows]
    /\ orphans \subseteq Requests /\ read \subseteq Requests
    /\ watermark \in Int \cup {NoTime} /\ since \in 0..clock
    /\ \A w \in Workers :
          /\ job[w].stage \in Stages
          /\ job[w].status \in RowStatuses
          /\ \A i \in DOMAIN job[w].logs : job[w].logs[i] \in Requests
          /\ job[w].stage \notin {"idle", "dead"} =>
                job[w].queue # <<>>

\* Calls the user fallback cannot see.
Unseen(r) == degraded /\ Owner[r] \notin Bound

(***************************************************************************)
(* The watermark leaves no call behind.  A pass starts Overlap before the  *)
(* watermark, so what is older is never listed again: it must have been    *)
(* processed by then, although entries are inserted late and between two   *)
(* pages, slices are halved, and a replaced process still moves the        *)
(* watermark.  Only what lies before the first pass's lookback is left.    *)
(* runReconcileSyncOnce, updateWatermarkMonotonic.                         *)
(***************************************************************************)
NothingLeftBehind ==
    \A r \in Logged :
        /\ watermark # NoTime
        /\ CallTime(r) >= since /\ CallTime(r) < watermark - Overlap
        => r \in read \/ Unseen(r)

(***************************************************************************)
(* A processed entry leaves a trace: the row carries New API's figures, or *)
(* the call is recorded as an orphan, or it was not made by the gateway;   *)
(* only a row that its handler gave up in the same moment has none.        *)
(***************************************************************************)
ReadLeavesTrace ==
    \A r \in read :
        \/ ledger[r].telemetry
        \/ r \in orphans
        \/ kind[r] = "external"
        \/ ledger[r].status = "failed_unbilled"

\* The verdict fits the row: what was compared is settled, what was waived is
\* not, though row and verdict are written in separate statements and up to
\* three writers move the row in between.
VerdictFitsRow ==
    \A r \in Requests :
        /\ ledger[r].verdict = "compared" => ledger[r].status = "settled"
        /\ ledger[r].verdict \in {"waived_by_missing_usage", "waived_by_failure"} =>
              ledger[r].status = "failed_unbilled"

\* The watermark never moves back, even when a process that was replaced long
\* ago finishes its slice.
WatermarkMonotonic ==
    [][watermark # NoTime =>
          /\ watermark' # NoTime
          /\ watermark' >= watermark]_watermark

(***************************************************************************)
(* Every settled request is compared with New API's log: whoever of the    *)
(* handler, the log and the worker comes first, provided that the call's   *)
(* id was stored no later than Overlap after the call.  Asynchronous tasks *)
(* settle later than their entry is listed and are left out.               *)
(***************************************************************************)
SettledIsCompared ==
    \A r \in Requests :
        ( /\ r \in Logged
          /\ ledger[r].status = "settled" /\ kind[r] = "sync"
          /\ ledger[r].captured <= CallTime(r) + Overlap )
        ~> \/ ledger[r].verdict = "compared"
           \/ Unseen(r)
           \/ r \in Logged /\ CallTime(r) < since

(***************************************************************************)
(* The worker catches up: once no time passes, the watermark arrives at    *)
(* now, in as many passes as it takes.  A test says so ("every pass moves  *)
(* the watermark on, in the end it has caught up").  It does not when the  *)
(* overlap alone holds more entries than the slices of one pass can list:  *)
(* the halves of a slice count as slices, and the next pass begins with    *)
(* the same overlap.                                                       *)
(***************************************************************************)
CatchesUp ==
    clock = MaxTime ~> watermark # NoTime /\ watermark >= MaxTime
=============================================================================
