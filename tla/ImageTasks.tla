----------------------------- MODULE ImageTasks -----------------------------
(***************************************************************************)
(* Asynchronous image requests: the branch of the request handler that     *)
(* submits a task to New API instead of relaying an answer, and the worker *)
(* that polls the task and settles its request                             *)
(* (src/src/features/gateway/server/handler.ts and image-tasks.ts).        *)
(*                                                                         *)
(* Every request of this module is asynchronous.  It enters, is admitted   *)
(* and is swept like any other, by the actions of Gateway; only what       *)
(* follows New API's response differs.  The reconcile worker leaves a row  *)
(* with a task alone, and no row gets its New API id without a task.       *)
(*                                                                         *)
(* A poll is the processing of one claimed task.  Several run at once: a   *)
(* batch outlives its 30 s leases, and the job lock does not stop a worker *)
(* that has lost it in the middle of a task.                               *)
(***************************************************************************)
EXTENDS Gateway

CONSTANTS
    Polls,        \* polls that may run at once
    MaxFaults     \* bound: exceptions, failed queries and abandoned polls

ASSUME ImageTasksAssumption == MaxFaults \in Nat

VARIABLES
    task,         \* gateway_task.status, "none" when the request has no task
    leased,       \* its lease has not expired
    upstream,     \* the task at New API
    poll,         \* what each poll has read and decided
    faults        \* number of faults so far

taskVars  == <<task, leased, upstream, poll, faults>>
imageVars == <<vars, taskVars>>

ActiveTasks   == {"submitted", "processing", "meter_pending"}
TerminalTasks == {"completed", "failed_unbilled"}
TaskStatuses  == {"none", "submission_unknown"} \cup ActiveTasks \cup TerminalTasks

\*   unmetered   images delivered, token usage missing or contradictory
\*   completed   images delivered, usage worth usage[r]
\*   failed      failed, or completed without an image
\*   gone        New API no longer knows the task
UpstreamStates ==
    {"submitted", "processing", "unmetered", "completed", "failed", "gone"}

\*   claimed    New API not asked yet
\*   retry      retryTask is about to write the status in next
\*   failing    failTaskUnbilled is about to run
\*   complete   completeTask is about to read the row
\*   settling   settleRow has read an unresolved row
\*   finalized  settleRow answered already_finalized
PollStages == {"claimed", "retry", "failing", "complete", "settling", "finalized"}

NoPoll == [stage |-> "none"]
Polling == [stage : PollStages, task : Requests, seen : ActiveTasks, next : ActiveTasks]

ImageInit ==
    /\ GatewayInit
    /\ task = [r \in Requests |-> "none"]
    /\ leased = [r \in Requests |-> FALSE]
    /\ upstream = [r \in Requests |-> "submitted"]
    /\ poll = [p \in Polls |-> NoPoll]
    /\ faults = 0

Fault == faults < MaxFaults /\ faults' = faults + 1

-----------------------------------------------------------------------------
(* Submission.  Every exit is early(): the in-flight slot is released and  *)
(* a refused request is marked failed by Reject of Gateway.                *)

\* early() after the last terminal write.
Leave(r) ==
    /\ Goto(r, "done")
    /\ Cleanup(r)
    /\ UNCHANGED <<walletVars, answer, usage, workerVars, crashes>>

\* registerUnknownImageSubmission, or its retries run out: the row stays open.
RegisterUnknown(r) ==
    /\ \/ task' = [task EXCEPT ![r] = "submission_unknown"]
       \/ UNCHANGED task
    /\ UNCHANGED <<requestVars, leased, upstream, poll, faults>>

\* No response: nobody knows whether New API accepted the task.
SubmitNoResponse(r) ==
    /\ pc[r] = "forwarding"
    /\ RegisterUnknown(r)
    /\ Leave(r)

\* New API refused the task, or marking the credential invalid failed.
SubmitRefused(r) ==
    /\ pc[r] = "responded"
    /\ answer[r].outcome # "ok"
    /\ Goto(r, "rejecting")
    /\ UNCHANGED <<walletVars, requestVars, held, inflight, answer, usage,
                   workerVars, crashes, taskVars>>

\* The response has no task id or no request id.
SubmitUnreadable(r) ==
    /\ pc[r] = "responded"
    /\ answer[r].outcome = "ok"
    /\ RegisterUnknown(r)
    /\ Leave(r)

\* registerAcceptedImageTask: the New API id and the task in one transaction,
\* or neither.
RegisterAccepted(r) ==
    /\ pc[r] = "responded"
    /\ answer[r].outcome = "ok" /\ answer[r].id # NoId
    /\ \/ /\ CaptureRequestId(r, answer[r].id)
          /\ task' = [task EXCEPT ![r] = "submitted"]
       \/ UNCHANGED <<requestVars, task>>
    /\ UNCHANGED <<leased, upstream, poll, faults>>
    /\ Leave(r)

-----------------------------------------------------------------------------
(* New API.                                                                *)

\* Its task moves forward; a missing usage may be supplied later, and an old
\* task is forgotten.
UpstreamMove(r) ==
    /\ task[r] \in ActiveTasks
    /\ \/ /\ upstream[r] = "submitted"
          /\ upstream' = [upstream EXCEPT ![r] = "processing"]
          /\ UNCHANGED usage
       \/ /\ upstream[r] = "processing"
          /\ \E s \in {"unmetered", "failed"} : upstream' = [upstream EXCEPT ![r] = s]
          /\ UNCHANGED usage
       \/ /\ upstream[r] \in {"processing", "unmetered"}
          /\ upstream' = [upstream EXCEPT ![r] = "completed"]
          /\ \E worth \in 1..MaxCharge : usage' = [usage EXCEPT ![r] = worth]
       \/ /\ upstream[r] # "gone"
          /\ upstream' = [upstream EXCEPT ![r] = "gone"]
          /\ UNCHANGED usage
    /\ UNCHANGED <<walletVars, requestVars, pc, held, inflight, answer, workerVars,
                   crashes, task, leased, poll, faults>>

-----------------------------------------------------------------------------
(* Polls.                                                                  *)

\* A step of poll p that writes neither a request row nor a wallet.
PollsOnly == UNCHANGED <<vars, upstream>>

SetPoll(p, stage) == poll' = [poll EXCEPT ![p].stage = stage]
EndPoll(p) == poll' = [poll EXCEPT ![p] = NoPoll]

SetTask(r, s) ==
    /\ task' = [task EXCEPT ![r] = s]
    /\ leased' = [leased EXCEPT ![r] = FALSE]

\* claimDueTasks.
Claim(p, r) ==
    /\ poll[p] = NoPoll
    /\ task[r] \in ActiveTasks
    /\ ~leased[r]
    /\ leased' = [leased EXCEPT ![r] = TRUE]
    /\ poll' = [poll EXCEPT ![p] = [stage |-> "claimed", task |-> r,
                                    seen |-> task[r], next |-> task[r]]]
    /\ UNCHANGED <<task, faults>>
    /\ PollsOnly

LeaseExpires(r) ==
    /\ leased[r]
    /\ leased' = [leased EXCEPT ![r] = FALSE]
    /\ UNCHANGED <<task, poll, faults>>
    /\ PollsOnly

\* fetchNewApiTask and the switch on the snapshot's status.
Fetch(p) ==
    /\ poll[p].stage = "claimed"
    /\ LET there == upstream[poll[p].task]
           Retry(s) == poll' = [poll EXCEPT ![p].stage = "retry", ![p].next = s]
       IN  \/ there \in {"submitted", "processing"} /\ Retry(there)
           \/ there = "unmetered" /\ Retry("meter_pending")
           \/ there = "completed" /\ SetPoll(p, "complete")
           \/ there \in {"failed", "gone"} /\ SetPoll(p, "failing")
    /\ UNCHANGED <<task, leased, faults>>
    /\ PollsOnly

\* Any exception, a failed query, a pending credential, a 404 before the
\* tenth poll: retryTask with the status the claim returned.
PollError(p) ==
    /\ poll[p].stage \in PollStages
    /\ Fault
    /\ poll' = [poll EXCEPT ![p].stage = "retry", ![p].next = poll[p].seen]
    /\ UNCHANGED <<task, leased>>
    /\ PollsOnly

\* retryTask fails too, or keepAlive reports that the job lock is lost.
Abandon(p) ==
    /\ poll[p].stage \in {"claimed", "retry"}
    /\ Fault
    /\ EndPoll(p)
    /\ UNCHANGED <<task, leased>>
    /\ PollsOnly

\* The WHERE clause names the task only.
RetryAnyTask(p) ==
    /\ poll[p].stage = "retry"
    /\ SetTask(poll[p].task, poll[p].next)
    /\ EndPoll(p)
    /\ UNCHANGED faults
    /\ PollsOnly

\* retryTask gives the lease back, whoever holds it now.
RetryTask(p) ==
    /\ poll[p].stage = "retry"
    /\ IF task[poll[p].task] \in ActiveTasks
       THEN SetTask(poll[p].task, poll[p].next)
       ELSE UNCHANGED <<task, leased>>
    /\ EndPoll(p)
    /\ UNCHANGED faults
    /\ PollsOnly

\* The task ends only with the row it closes itself.
FailOnlyUnresolved(p) ==
    LET r == poll[p].task
    IN  /\ poll[p].stage = "failing"
        /\ MarkFailedUnbilled(r)
        /\ IF status[r] \in Unresolved
           THEN SetTask(r, "failed_unbilled")
           ELSE UNCHANGED <<task, leased>>
        /\ EndPoll(p)
        /\ UNCHANGED <<walletVars, handlerVars, workerVars, crashes, upstream, faults>>

\* The row is written whatever its status.
FailAnyRow(p) ==
    LET r == poll[p].task
    IN  /\ poll[p].stage = "failing"
        /\ MarkAnyFailed(r)
        /\ SetTask(r, "failed_unbilled")
        /\ EndPoll(p)
        /\ UNCHANGED <<walletVars, handlerVars, workerVars, crashes, upstream, faults>>

\* failTaskUnbilled: the row and the task in one transaction; a settled row
\* is left alone, with its task.
FailTaskUnbilled(p) ==
    LET r == poll[p].task
    IN  /\ poll[p].stage = "failing"
        /\ MarkFailedUnbilled(r)
        /\ IF status'[r] = "failed_unbilled"
           THEN SetTask(r, "failed_unbilled")
           ELSE UNCHANGED <<task, leased>>
        /\ EndPoll(p)
        /\ UNCHANGED <<walletVars, handlerVars, workerVars, crashes, upstream, faults>>

\* completeTask: settleRow reads the row again.
CompleteRead(p) ==
    /\ poll[p].stage = "complete"
    /\ SetPoll(p, IF status[poll[p].task] \in Terminal THEN "finalized" ELSE "settling")
    /\ UNCHANGED <<task, leased, faults>>
    /\ PollsOnly

\* The settlement carries the task along (onSettled), or meets a terminal row.
CompleteSettle(p) ==
    LET r == poll[p].task
    IN  /\ poll[p].stage = "settling"
        /\ \/ /\ SettleInTx(r, usage[r])
              /\ SetTask(r, "completed")
              /\ EndPoll(p)
           \/ /\ status[r] \in Terminal
              /\ SetPoll(p, "finalized")
              /\ UNCHANGED <<walletVars, requestVars, task, leased>>
        /\ UNCHANGED <<handlerVars, workerVars, crashes, upstream, faults>>

\* A terminal row is taken for a settled one.
FinishAlways(p) ==
    /\ poll[p].stage = "finalized"
    /\ SetTask(poll[p].task, "completed")
    /\ EndPoll(p)
    /\ UNCHANGED faults
    /\ PollsOnly

\* already_finalized: the task follows a settled row; with a waived one it is
\* left as it is, lease included.
FinishFinalized(p) ==
    /\ poll[p].stage = "finalized"
    /\ IF status[poll[p].task] = "settled"
       THEN SetTask(poll[p].task, "completed")
       ELSE UNCHANGED <<task, leased>>
    /\ EndPoll(p)
    /\ UNCHANGED faults
    /\ PollsOnly

-----------------------------------------------------------------------------
ImageCrash ==
    /\ Crash
    /\ poll' = [p \in Polls |-> NoPoll]
    /\ UNCHANGED <<task, leased, upstream, faults>>

SubmitStep(r) ==
    \/ (Authenticate(r) \/ EarlyReturn(r) \/ Admit(r) \/ Respond(r) \/ Reject(r))
          /\ UNCHANGED taskVars
    \/ SubmitNoResponse(r) \/ SubmitRefused(r) \/ SubmitUnreadable(r)
    \/ RegisterAccepted(r)

PollStep(p) ==
    \/ Fetch(p) \/ RetryTask(p) \/ FailTaskUnbilled(p)
    \/ CompleteRead(p) \/ CompleteSettle(p) \/ FinishFinalized(p)

ImageNext ==
    \/ \E r \in Requests :
          \/ (Enter(r) \/ Sweep(r)) /\ UNCHANGED taskVars
          \/ SubmitStep(r) \/ UpstreamMove(r) \/ LeaseExpires(r)
          \/ \E p \in Polls : Claim(p, r)
    \/ \E p \in Polls : PollStep(p) \/ PollError(p) \/ Abandon(p)
    \/ WalletEvent /\ UNCHANGED taskVars
    \/ ImageCrash

(***************************************************************************)
(* Handlers and polls that run go on and leases run out.  A task that is   *)
(* due again and again is claimed: the candidates of a batch exclude the   *)
(* leased ones, so no task is passed over for ever (strong fairness).      *)
(* Nothing is assumed of New API's task.                                   *)
(***************************************************************************)
ImageFairness ==
    /\ \A r \in Requests :
          /\ WF_imageVars(SubmitStep(r))
          /\ WF_imageVars(Sweep(r) /\ UNCHANGED taskVars)
          /\ WF_imageVars(LeaseExpires(r))
          /\ SF_imageVars(\E p \in Polls : Claim(p, r))
    /\ \A p \in Polls : WF_imageVars(PollStep(p))

ImageSafetySpec == ImageInit /\ [][ImageNext]_imageVars

ImageSpec == ImageSafetySpec /\ ImageFairness

-----------------------------------------------------------------------------
ImageTypeOK ==
    /\ TypeOK
    /\ task \in [Requests -> TaskStatuses]
    /\ leased \in [Requests -> BOOLEAN]
    /\ upstream \in [Requests -> UpstreamStates]
    /\ poll \in [Polls -> Polling \cup {NoPoll}]
    /\ faults \in 0..MaxFaults

(***************************************************************************)
(* gateway_task and request_ledger agree whichever poll, of however many,  *)
(* comes last and whether the sweeper came before: a task is completed     *)
(* exactly when its request is settled, a failed task means a waived       *)
(* request, and a task that may still be polled has its New API id.        *)
(***************************************************************************)
TaskMatchesRow ==
    \A r \in Requests :
        /\ task[r] = "completed" <=> status[r] = "settled"
        /\ task[r] = "failed_unbilled" => status[r] = "failed_unbilled"
        /\ task[r] \in ActiveTasks => newapiRequestId[r] # NoId

\* What a client was told at the end of a task is never taken back: a late
\* poll, working on an old claim, changes neither a completed nor a failed task.
TasksAreFinal ==
    [][\A r \in Requests :
          task[r] \in TerminalTasks => task'[r] = task[r]]_taskVars

(***************************************************************************)
(* A task that failed upstream, or that New API has forgotten, ends as     *)
(* failed here, also when the sweeper has closed its request before.       *)
(***************************************************************************)
FailuresReported ==
    \A r \in Requests :
        task[r] \in ActiveTasks /\ upstream[r] \in {"failed", "gone"}
            ~> task[r] \in TerminalTasks

-----------------------------------------------------------------------------
(***************************************************************************)
(* "Your application then polls that task until it reaches a terminal      *)
(* state" (content/docs/common/image-tasks.mdx): a task that New API has   *)
(* completed, usage included, ends here too while New API remembers it.    *)
(***************************************************************************)
CompletionsReported ==
    \A r \in Requests :
        task[r] \in ActiveTasks /\ upstream[r] = "completed"
            ~> task[r] \in TerminalTasks \/ upstream[r] = "gone"
=============================================================================
