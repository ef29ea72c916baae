-------------------------- MODULE ImageTasksProofs --------------------------
(***************************************************************************)
(* Theorems about ImageTasks, for any number of requests, of polls that    *)
(* run at once, of faults and of crashes.                                  *)
(***************************************************************************)
EXTENDS ImageTasks, GatewayProofs

Submitted(r) ==
    \/ SubmitNoResponse(r) \/ SubmitRefused(r) \/ SubmitUnreadable(r)
    \/ RegisterAccepted(r)

(***************************************************************************)
(* A step is one of the synchronous gateway (or none) as far as Gateway's  *)
(* variables go, a submission, a move of New API's task, or one of the two *)
(* poll steps that write the request's row.                                *)
(***************************************************************************)
LEMMA ImageSteps ==
    ASSUME [ImageNext]_imageVars
    PROVE  \/ [GatewayNext]_vars
           \/ \E r \in Requests : Submitted(r) \/ UpstreamMove(r)
           \/ \E p \in Polls : FailTaskUnbilled(p) \/ CompleteSettle(p)
<1>1. ASSUME NEW r \in Requests,
             \/ Enter(r) \/ Sweep(r) \/ Authenticate(r) \/ EarlyReturn(r)
             \/ Admit(r) \/ Respond(r) \/ Reject(r)
      PROVE  GatewayNext
    BY <1>1 DEF GatewayNext, HandlerStep
<1>2. ASSUME NEW r \in Requests,
             LeaseExpires(r) \/ \E p \in Polls : Claim(p, r)
      PROVE  UNCHANGED vars
    BY <1>2 DEF LeaseExpires, Claim, PollsOnly
<1>3. ASSUME NEW p \in Polls,
             \/ Fetch(p) \/ RetryTask(p) \/ CompleteRead(p) \/ FinishFinalized(p)
             \/ PollError(p) \/ Abandon(p)
      PROVE  UNCHANGED vars
    BY <1>3 DEF Fetch, RetryTask, CompleteRead, FinishFinalized, PollError, Abandon,
                PollsOnly
<1>4. ASSUME ImageCrash \/ WalletEvent
      PROVE  GatewayNext
    BY <1>4 DEF ImageCrash, GatewayNext
<1>5. CASE UNCHANGED imageVars
    BY <1>5 DEF imageVars
<1> QED  BY <1>1, <1>2, <1>3, <1>4, <1>5 DEF ImageNext, SubmitStep, PollStep, Submitted

\* A poll that is under way has a request.
LEMMA PollType ==
    ASSUME ImageTypeOK, NEW p \in Polls, poll[p].stage \in PollStages
    PROVE  /\ poll[p] \in Polling
           /\ poll[p].task \in Requests
           /\ {poll[p].seen, poll[p].next} \subseteq ActiveTasks
<1>1. poll[p] \in Polling \cup {NoPoll}
    BY DEF ImageTypeOK
<1>2. poll[p] # NoPoll
    BY DEF NoPoll, PollStages
<1> QED  BY <1>1, <1>2 DEF Polling

(***************************************************************************)
(* Polls and submissions, too, take the steps of the tables only.          *)
(***************************************************************************)
LEMMA ImageTables ==
    ASSUME ImageTypeOK, [ImageNext]_imageVars
    PROVE  LedgerStep(WalletRefs) \/ UNCHANGED tableVars
<1> USE DEF tableVars
<1>1. TypeOK
    BY DEF ImageTypeOK
<1>2. ASSUME NEW r \in Requests, Submitted(r)
      PROVE  LedgerStep(WalletRefs) \/ UNCHANGED tableVars
    <2>1. UNCHANGED walletVars
        BY <1>2 DEF Submitted, SubmitNoResponse, SubmitRefused, SubmitUnreadable,
                    RegisterAccepted, Leave
    <2>2. CASE UNCHANGED requestVars
        BY <2>1, <2>2
    <2>3. CASE answer[r].id # NoId /\ CaptureRequestId(r, answer[r].id)
        <3>1. answer[r].id \in RequestIds
            BY <1>1, <2>3 DEF TypeOK
        <3> QED  BY <2>1, <2>3, <3>1 DEF LedgerStep
    <2> QED  BY <1>2, <2>2, <2>3
             DEF Submitted, SubmitNoResponse, SubmitRefused, SubmitUnreadable,
                 RegisterAccepted, RegisterUnknown
<1>3. ASSUME NEW r \in Requests, UpstreamMove(r)
      PROVE  UNCHANGED tableVars
    BY <1>3 DEF UpstreamMove
<1>4. ASSUME NEW p \in Polls, FailTaskUnbilled(p)
      PROVE  LedgerStep(WalletRefs)
    <2>1. poll[p].task \in Requests
        BY <1>4, PollType DEF FailTaskUnbilled, PollStages
    <2> QED  BY <1>4, <2>1 DEF FailTaskUnbilled, LedgerStep
<1>5. ASSUME NEW p \in Polls, CompleteSettle(p)
      PROVE  LedgerStep(WalletRefs) \/ UNCHANGED tableVars
    <2>1. poll[p].task \in Requests
        BY <1>5, PollType DEF CompleteSettle, PollStages
    <2>2. usage[poll[p].task] \in 0..MaxCharge
        BY <1>1, <2>1 DEF TypeOK
    <2> QED  BY <1>5, <2>1, <2>2 DEF CompleteSettle, LedgerStep
<1> QED  BY <1>1, <1>2, <1>3, <1>4, <1>5, ImageSteps, GatewayTables

-----------------------------------------------------------------------------
(* Types.                                                                  *)

TaskTypeOK ==
    /\ task \in [Requests -> TaskStatuses]
    /\ leased \in [Requests -> BOOLEAN]
    /\ upstream \in [Requests -> UpstreamStates]
    /\ poll \in [Polls -> Polling \cup {NoPoll}]
    /\ faults \in 0..MaxFaults

\* The handlers' variables keep their types under the new steps as well.
LEMMA ImageHandlerType ==
    ASSUME ImageTypeOK, [ImageNext]_imageVars
    PROVE  HandlerTypeOK' /\ WorkerTypeOK'
<1> USE RequestLedgerAssumption
<1>1. TypeOK /\ HandlerTypeOK /\ WorkerTypeOK
    BY TypeParts DEF ImageTypeOK
<1>2. ASSUME UNCHANGED <<workerVars, crashes>>
      PROVE  WorkerTypeOK'
    BY <1>1, <1>2 DEF workerVars, WorkerTypeOK
<1>3. CASE [GatewayNext]_vars
    BY <1>1, <1>3, HandlerTypeStep, WorkerTypeStep
<1>4. ASSUME NEW r \in Requests, Submitted(r)
      PROVE  HandlerTypeOK' /\ WorkerTypeOK'
    <2>1. UNCHANGED <<answer, usage, workerVars, crashes>>
        BY <1>4 DEF Submitted, SubmitNoResponse, SubmitRefused, SubmitUnreadable,
                    RegisterAccepted, Leave
    <2>2. \E state \in HandlerStates : Goto(r, state)
        BY <1>4 DEF Submitted, SubmitNoResponse, SubmitRefused, SubmitUnreadable,
                    RegisterAccepted, Leave, HandlerStates
    <2>3. Cleanup(r) \/ UNCHANGED <<held, inflight>>
        BY <1>4 DEF Submitted, SubmitNoResponse, SubmitRefused, SubmitUnreadable,
                    RegisterAccepted, Leave
    <2>4. pc' \in [Requests -> HandlerStates]
        BY <1>1, <2>2, GotoType DEF HandlerTypeOK
    <2>5. held' \in [Requests -> BOOLEAN] /\ inflight' \in Nat
        BY <1>1, <2>3, CleanupType DEF HandlerTypeOK
    <2> QED  BY <1>1, <1>2, <2>1, <2>4, <2>5 DEF HandlerTypeOK
<1>5. ASSUME NEW r \in Requests, UpstreamMove(r)
      PROVE  HandlerTypeOK' /\ WorkerTypeOK'
    <2>1. UNCHANGED <<pc, held, inflight, answer, workerVars, crashes>>
        BY <1>5 DEF UpstreamMove
    <2>2. usage' \in [Requests -> 0..MaxCharge]
        BY <1>1, <1>5 DEF UpstreamMove, HandlerTypeOK
    <2> QED  BY <1>1, <1>2, <2>1, <2>2 DEF HandlerTypeOK
<1>6. ASSUME NEW p \in Polls, FailTaskUnbilled(p) \/ CompleteSettle(p)
      PROVE  HandlerTypeOK' /\ WorkerTypeOK'
    <2>1. UNCHANGED <<handlerVars, workerVars, crashes>>
        BY <1>6 DEF FailTaskUnbilled, CompleteSettle
    <2> QED  BY <1>1, <1>2, <2>1 DEF handlerVars, HandlerTypeOK
<1> QED  BY <1>3, <1>4, <1>5, <1>6, ImageSteps

\* A task changes its status to one of the statuses.
LEMMA SetTaskType ==
    ASSUME TaskTypeOK, NEW r \in Requests, NEW s \in TaskStatuses,
           SetTask(r, s) \/ UNCHANGED <<task, leased>>
    PROVE  task' \in [Requests -> TaskStatuses] /\ leased' \in [Requests -> BOOLEAN]
BY DEF TaskTypeOK, SetTask

\* A poll moves on to one of its stages, or ends.
LEMMA SetPollType ==
    ASSUME ImageTypeOK, NEW p \in Polls, NEW stage \in PollStages,
           poll[p].stage \in PollStages, SetPoll(p, stage) \/ EndPoll(p)
    PROVE  poll' \in [Polls -> Polling \cup {NoPoll}]
<1>1. poll \in [Polls -> Polling \cup {NoPoll}]
    BY DEF ImageTypeOK
<1>2. [poll[p] EXCEPT !.stage = stage] \in Polling
    BY PollType DEF Polling
<1>3. CASE SetPoll(p, stage)
    <2>1. poll' = [poll EXCEPT ![p] = [poll[p] EXCEPT !.stage = stage]]
        BY <1>3 DEF SetPoll
    <2> QED  BY <1>1, <1>2, <2>1
<1>4. CASE EndPoll(p)
    BY <1>1, <1>4 DEF EndPoll
<1> QED  BY <1>3, <1>4

\* A poll decides to retry with a status of an active task.
LEMMA RetryType ==
    ASSUME ImageTypeOK, NEW p \in Polls, NEW s \in ActiveTasks,
           poll[p].stage \in PollStages,
           poll' = [poll EXCEPT ![p].stage = "retry", ![p].next = s]
    PROVE  poll' \in [Polls -> Polling \cup {NoPoll}]
<1>1. poll \in [Polls -> Polling \cup {NoPoll}]
    BY DEF ImageTypeOK
<1>2. [poll[p] EXCEPT !.stage = "retry", !.next = s] \in Polling
    BY PollType DEF Polling, PollStages
<1>3. poll' = [poll EXCEPT ![p] = [poll[p] EXCEPT !.stage = "retry", !.next = s]]
    OBVIOUS
<1> QED  BY <1>1, <1>2, <1>3

(***************************************************************************)
(* Every step keeps the variables of tasks and polls in their types.       *)
(***************************************************************************)
LEMMA TaskTypeStep ==
    ASSUME ImageTypeOK, [ImageNext]_imageVars
    PROVE  TaskTypeOK'
<1> USE ImageTasksAssumption DEF TaskTypeOK
<1>1. TaskTypeOK
    BY DEF ImageTypeOK
<1>2. CASE UNCHANGED taskVars
    BY <1>1, <1>2 DEF taskVars
<1>3. ASSUME NEW r \in Requests, Submitted(r)
      PROVE  TaskTypeOK'
    <2>1. UNCHANGED <<leased, upstream, poll, faults>>
        BY <1>3 DEF Submitted, SubmitNoResponse, SubmitRefused, SubmitUnreadable,
                    RegisterAccepted, RegisterUnknown, taskVars
    <2>2. UNCHANGED task \/ \E s \in TaskStatuses : task' = [task EXCEPT ![r] = s]
        BY <1>3 DEF Submitted, SubmitNoResponse, SubmitRefused, SubmitUnreadable,
                    RegisterAccepted, RegisterUnknown, taskVars, TaskStatuses, ActiveTasks
    <2> QED  BY <1>1, <2>1, <2>2
<1>4. ASSUME NEW r \in Requests, UpstreamMove(r)
      PROVE  TaskTypeOK'
    <2>1. UNCHANGED <<task, leased, poll, faults>>
        BY <1>4 DEF UpstreamMove
    <2>2. \E s \in UpstreamStates : upstream' = [upstream EXCEPT ![r] = s]
        BY <1>4 DEF UpstreamMove, UpstreamStates
    <2> QED  BY <1>1, <2>1, <2>2
<1>5. ASSUME NEW r \in Requests, LeaseExpires(r)
      PROVE  TaskTypeOK'
    BY <1>1, <1>5 DEF LeaseExpires, PollsOnly
<1>6. ASSUME NEW p \in Polls, NEW r \in Requests, Claim(p, r)
      PROVE  TaskTypeOK'
    <2>1. [stage |-> "claimed", task |-> r, seen |-> task[r], next |-> task[r]] \in Polling
        BY <1>6 DEF Claim, Polling, PollStages
    <2> QED  BY <1>1, <1>6, <2>1 DEF Claim, PollsOnly
<1>7. ASSUME NEW p \in Polls, Fetch(p)
      PROVE  TaskTypeOK'
    <2>1. UNCHANGED <<task, leased, faults, upstream>> /\ poll[p].stage \in PollStages
        BY <1>7 DEF Fetch, PollsOnly, PollStages
    <2>2. \/ \E s \in ActiveTasks :
                poll' = [poll EXCEPT ![p].stage = "retry", ![p].next = s]
          \/ \E stage \in PollStages : SetPoll(p, stage)
        BY <1>7 DEF Fetch, ActiveTasks, PollStages
    <2>3. poll' \in [Polls -> Polling \cup {NoPoll}]
        BY <2>1, <2>2, RetryType, SetPollType
    <2> QED  BY <1>1, <2>1, <2>3
<1>8. ASSUME NEW p \in Polls, PollError(p)
      PROVE  TaskTypeOK'
    <2>1. poll' \in [Polls -> Polling \cup {NoPoll}]
        BY <1>8, PollType, RetryType DEF PollError
    <2>2. faults' \in 0..MaxFaults
        BY <1>1, <1>8 DEF PollError, Fault
    <2> QED  BY <1>1, <1>8, <2>1, <2>2 DEF PollError, PollsOnly
<1>9. ASSUME NEW p \in Polls, Abandon(p)
      PROVE  TaskTypeOK'
    <2>1. poll' \in [Polls -> Polling \cup {NoPoll}]
        BY <1>1, <1>9 DEF Abandon, EndPoll
    <2>2. faults' \in 0..MaxFaults
        BY <1>1, <1>9 DEF Abandon, Fault
    <2> QED  BY <1>1, <1>9, <2>1, <2>2 DEF Abandon, PollsOnly
<1>10. ASSUME NEW p \in Polls, CompleteRead(p)
       PROVE  TaskTypeOK'
    <2>1. /\ poll[p].stage \in PollStages
          /\ \E stage \in PollStages : SetPoll(p, stage)
        BY <1>10 DEF CompleteRead, PollStages
    <2> QED  BY <1>1, <1>10, <2>1, SetPollType DEF CompleteRead, PollsOnly
<1>11. ASSUME NEW p \in Polls,
              \/ RetryTask(p) \/ FailTaskUnbilled(p) \/ CompleteSettle(p)
              \/ FinishFinalized(p)
       PROVE  TaskTypeOK'
    <2>1. poll[p].stage \in PollStages
        BY <1>11 DEF RetryTask, FailTaskUnbilled, CompleteSettle, FinishFinalized,
                     PollStages
    <2>2. poll[p].task \in Requests /\ poll[p].next \in ActiveTasks
        BY <2>1, PollType
    <2>3. /\ UNCHANGED <<upstream, faults>>
          /\ \E stage \in PollStages : SetPoll(p, stage) \/ EndPoll(p)
        BY <1>11 DEF RetryTask, FailTaskUnbilled, CompleteSettle, FinishFinalized,
                     PollsOnly, PollStages
    <2>4. \/ \E s \in TaskStatuses : SetTask(poll[p].task, s)
          \/ UNCHANGED <<task, leased>>
        BY <1>11, <2>2 DEF RetryTask, FailTaskUnbilled, CompleteSettle, FinishFinalized,
                           TaskStatuses, TerminalTasks
    <2> QED  BY <1>1, <2>1, <2>2, <2>3, <2>4, SetTaskType, SetPollType
<1>12. ASSUME ImageCrash
       PROVE  TaskTypeOK'
    BY <1>1, <1>12 DEF ImageCrash
<1>13. CASE UNCHANGED imageVars
    BY <1>2, <1>13 DEF imageVars
<1> QED  BY <1>2, <1>3, <1>4, <1>5, <1>6, <1>7, <1>8, <1>9, <1>10, <1>11, <1>12, <1>13
         DEF ImageNext, SubmitStep, PollStep, Submitted

\* Every step keeps the type invariant.
LEMMA ImageTypeStep ==
    ASSUME ImageTypeOK, [ImageNext]_imageVars
    PROVE  ImageTypeOK'
<1>1. LedgerTypeOK(WalletRefs)'
    BY TypeParts, ImageTables, TablesType DEF ImageTypeOK
<1>2. TypeOK'
    BY <1>1, ImageHandlerType DEF TypeOK, LedgerTypeOK, HandlerTypeOK, WorkerTypeOK
<1> QED  BY <1>2, TaskTypeStep DEF ImageTypeOK, TaskTypeOK

\* Tasks and polls start well-typed.
LEMMA ImageInitType == ImageInit => ImageTypeOK
BY InitType, ImageTasksAssumption DEF ImageInit, ImageTypeOK, TaskStatuses, UpstreamStates

(***************************************************************************)
(* The type invariant: a poll, whatever it has read, works on a request    *)
(* that exists and carries the status of a task that could be claimed.     *)
(***************************************************************************)
THEOREM ImageTypeCorrect == ImageSafetySpec => []ImageTypeOK
BY ImageInitType, ImageTypeStep, PTL DEF ImageSafetySpec

-----------------------------------------------------------------------------
(* Money, with tasks that settle.                                          *)

\* The invariant of the tables holds with image tasks as well.
LEMMA ImageTableInvariant == ImageSafetySpec => []TableInv
<1>1. ImageInit => TableInv
    BY InitTables DEF ImageInit
<1>2. TableInv /\ ImageTypeOK /\ [ImageNext]_imageVars => TableInv'
    BY ImageTables, ImageTypeStep, TablesStep DEF ImageTypeOK
<1> QED  BY <1>1, <1>2, ImageTypeCorrect, PTL DEF ImageSafetySpec

(***************************************************************************)
(* Image requests keep the promise too: polls that overlap, the sweeper    *)
(* and the settlement charge an accepted request once or waive it.         *)
(***************************************************************************)
THEOREM ImageImplementsBillingSafely == ImageSafetySpec => Billing!BillingSafety
<1>1. ImageInit => Billing!BillingInit
    BY InitBills DEF ImageInit
<1>2. TableInv /\ ImageTypeOK /\ [ImageNext]_imageVars
         => [Billing!BillingNext]_(Billing!billingVars)
    BY ImageTables, TablesBill
<1> QED  BY <1>1, <1>2, ImageTypeCorrect, ImageTableInvariant, PTL
         DEF ImageSafetySpec, Billing!BillingSafety

(***************************************************************************)
(* A wallet is the sum of its ledger when tasks settle requests as well,   *)
(* whichever of the overlapping polls writes the charge.                   *)
(***************************************************************************)
THEOREM ImageMoneyConserved == ImageSafetySpec => []WalletConserved
BY ImageTableInvariant, PTL DEF TableInv

(***************************************************************************)
(* Two polls that both saw a completed task, a poll and the sweeper, or a  *)
(* poll that outlived its lease: the request is charged once, for its      *)
(* row's amount, and only when it is settled.                              *)
(***************************************************************************)
THEOREM ImageChargedOnce == ImageSafetySpec => []SettledIffCharged
BY ImageTableInvariant, PTL DEF TableInv

(***************************************************************************)
(* An image request occupies its user's risk slot from admission until its *)
(* task ends; the slots never exceed the limit all the same.               *)
(***************************************************************************)
THEOREM ImageRiskLimited == ImageSafetySpec => []RiskSlotsBounded
BY ImageTableInvariant, PTL DEF TableInv

(***************************************************************************)
(* A settled or waived image request is not written again by a poll that   *)
(* claimed its task before.                                                *)
(***************************************************************************)
THEOREM ImageTerminalRowsAreFinal == ImageSafetySpec => TerminalIsFinal
<1>1. ImageTypeOK /\ [ImageNext]_imageVars =>
         [\A r \in Requests : status[r] \in Terminal =>
             /\ status'[r] = status[r]
             /\ charged'[r] = charged[r]
             /\ newapiRequestId'[r] = newapiRequestId[r]]_requestVars
    BY ImageTables, TypeParts, LedgerStepFinal DEF ImageTypeOK, tableVars, requestVars
<1> QED  BY <1>1, ImageTypeCorrect, PTL DEF ImageSafetySpec, TerminalIsFinal

(***************************************************************************)
(* No call New API served is attributed to two image requests, whose ids   *)
(* are written late, in one transaction with the task, if at all.          *)
(***************************************************************************)
THEOREM ImageAttributedOnce == ImageSafetySpec => []OneRowPerUpstreamCall
BY ImageTableInvariant, PTL DEF TableInv

(***************************************************************************)
(* A wallet that the charge of a finished task drives below the threshold  *)
(* is frozen with it, whichever poll writes the charge, and no task takes  *)
(* money from another user; else only an administrator takes any.          *)
(***************************************************************************)
THEOREM ImageOverdraftsFreeze == ImageSafetySpec => OverdraftFreezes
<1>1. ImageTypeOK /\ [ImageNext]_imageVars =>
         [\A u \in Users : balance'[u] < balance[u] =>
             \/ DebitsOf(u)' # DebitsOf(u) /\ UNCHANGED requestVars
             \/ /\ \E r \in Requests : /\ Owner[r] = u
                                       /\ status[r] \in Unresolved
                                       /\ status'[r] = "settled"
                                       /\ balance'[u] = balance[u] - charged'[r]
                /\ balance'[u] < -FreezeThreshold => frozen'[u] # "none"
         ]_<<walletVars, requestVars>>
    BY ImageTables, TypeParts, LedgerStepOverdraft DEF ImageTypeOK, tableVars
<1> QED  BY <1>1, ImageTypeCorrect, PTL DEF ImageSafetySpec, OverdraftFreezes

-----------------------------------------------------------------------------
(* In-flight slots.                                                        *)

\* Every step keeps the slot invariant of Gateway.
LEMMA ImageSlotStep ==
    ASSUME ImageTypeOK, SlotInv, [ImageNext]_imageVars
    PROVE  SlotInv'
<1>1. TypeOK
    BY DEF ImageTypeOK
<1>2. ASSUME UNCHANGED <<pc, held, inflight>>
      PROVE  SlotInv'
    <2>1. InflightExact'
        BY <1>2 DEF SlotInv, InflightExact, Running
    <2> QED  BY <1>2, <2>1 DEF SlotInv
<1>3. ASSUME NEW r \in Requests, Submitted(r)
      PROVE  SlotInv'
    <2>1. CASE SubmitRefused(r)
        <3>1. Goto(r, "rejecting") /\ UNCHANGED <<held, inflight>>
            BY <2>1 DEF SubmitRefused
        <3> QED  BY <1>1, <3>1, MoveKeepsSlots DEF HandlerStates, Holding, Entering
    <2>2. CASE Leave(r)
        <3>1. Goto(r, "done") /\ Cleanup(r)
            BY <2>2 DEF Leave
        <3> QED  BY <1>1, <3>1, CleanupKeepsSlots DEF HandlerStates, Entering
    <2> QED  BY <1>3, <2>1, <2>2
             DEF Submitted, SubmitNoResponse, SubmitUnreadable, RegisterAccepted
<1>4. ASSUME NEW r \in Requests, UpstreamMove(r)
      PROVE  UNCHANGED <<pc, held, inflight>>
    BY <1>4 DEF UpstreamMove
<1>5. ASSUME NEW p \in Polls, FailTaskUnbilled(p) \/ CompleteSettle(p)
      PROVE  UNCHANGED <<pc, held, inflight>>
    BY <1>5 DEF FailTaskUnbilled, CompleteSettle, handlerVars
<1> QED  BY <1>1, <1>2, <1>3, <1>4, <1>5, ImageSteps, SlotStep

(***************************************************************************)
(* The in-flight counter stays exact when requests leave early with a task *)
(* instead of relaying an answer.                                          *)
(***************************************************************************)
THEOREM ImageInflightExact == ImageSafetySpec => []InflightExact
<1>1. ImageInit => SlotInv
    BY InitSlots DEF ImageInit
<1>2. SlotInv => InflightExact
    BY DEF SlotInv
<1> QED  BY <1>1, <1>2, ImageSlotStep, ImageTypeCorrect, PTL DEF ImageSafetySpec

-----------------------------------------------------------------------------
(* How far a wallet can go into debt.                                      *)

(***************************************************************************)
(* A task keeps its request's risk slot long after the handler has left,   *)
(* so a submission moves no exposure and a settlement by a poll pays for   *)
(* itself with the slot it gives back.                                     *)
(***************************************************************************)
LEMMA ImageHeadroomStep ==
    ASSUME ImageTypeOK, ImageTypeOK', SlotInv', RiskSlotsBounded', Headroom,
           [ImageNext]_imageVars
    PROVE  Headroom'
<1>1. TypeOK /\ TypeOK'
    BY DEF ImageTypeOK
<1>2. ASSUME NEW u \in Users, UNCHANGED <<balance, walletLedger>>
      PROVE  Backed(u) <= Backed(u)'
    BY <1>1, <1>2, BackedKept DEF TypeOK
<1>3. CASE [GatewayNext]_vars
    BY <1>1, <1>3, HeadroomStep
<1>4. ASSUME NEW r \in Requests, Submitted(r)
      PROVE  Headroom'
    <2>1. UNCHANGED <<balance, walletLedger>>
        BY <1>4 DEF Submitted, SubmitNoResponse, SubmitRefused, SubmitUnreadable,
                    RegisterAccepted, Leave, walletVars
    <2>2. status' = status
        BY <1>4 DEF Submitted, SubmitNoResponse, SubmitRefused, SubmitUnreadable,
                    RegisterAccepted, RegisterUnknown, CaptureRequestId, requestVars
    <2>3. Goto(r, "done") \/ Goto(r, "rejecting")
        BY <1>4 DEF Submitted, SubmitNoResponse, SubmitRefused, SubmitUnreadable,
                    RegisterAccepted, Leave
    <2>4. \A q \in Requests : pc'[q] = "ready" => pc[q] = "ready"
        BY <1>1, <2>3 DEF Goto, TypeOK
    <2> QED  BY <1>1, <1>2, <2>1, <2>2, <2>4, QuietHeadroom
<1>5. ASSUME NEW r \in Requests, UpstreamMove(r)
      PROVE  Headroom'
    <2>1. UNCHANGED <<balance, walletLedger, status, pc>>
        BY <1>5 DEF UpstreamMove, walletVars, requestVars
    <2> QED  BY <1>1, <1>2, <2>1, QuietHeadroom
<1>6. ASSUME NEW p \in Polls, FailTaskUnbilled(p)
      PROVE  Headroom'
    <2>1. UNCHANGED <<balance, walletLedger, pc>> /\ MarkFailedUnbilled(poll[p].task)
        BY <1>6 DEF FailTaskUnbilled, walletVars, handlerVars
    <2>2. \A q \in Requests : status'[q] \in Unresolved => status[q] \in Unresolved
        BY <1>1, <2>1 DEF MarkFailedUnbilled, TypeOK, RequestTypeOK, Unresolved
    <2> QED  BY <1>1, <1>2, <2>1, <2>2, QuietHeadroom
<1>7. ASSUME NEW p \in Polls, CompleteSettle(p)
      PROVE  Headroom'
    <2>1. UNCHANGED pc
        BY <1>7 DEF CompleteSettle, handlerVars
    <2>2. poll[p].task \in Requests
        BY <1>7, PollType DEF CompleteSettle, PollStages
    <2>3. CASE SettleInTx(poll[p].task, usage[poll[p].task])
        BY <1>1, <2>1, <2>2, <2>3, SettleHeadroom
    <2>4. CASE UNCHANGED <<walletVars, requestVars>>
        BY <1>1, <1>2, <2>1, <2>4, QuietHeadroom DEF walletVars, requestVars
    <2> QED  BY <1>7, <2>3, <2>4 DEF CompleteSettle
<1> QED  BY <1>3, <1>4, <1>5, <1>6, <1>7, ImageSteps

(***************************************************************************)
(* The debt of a wallet keeps its bound when requests are settled minutes  *)
(* after their handlers left, by any number of polls.                      *)
(***************************************************************************)
THEOREM ImageDebtBounded == ImageSafetySpec => []OverdraftBounded
<1>1. ImageInit => SlotInv /\ Headroom
    BY InitSlots, InitHeadroom DEF ImageInit
<1>2. /\ TableInv => RiskSlotsBounded
      /\ ImageTypeOK => TypeOK
    BY DEF TableInv, ImageTypeOK
<1> QED  BY <1>1, <1>2, HeadroomBounds, ImageSlotStep, ImageHeadroomStep,
            ImageTypeCorrect, ImageTableInvariant, PTL DEF ImageSafetySpec

-----------------------------------------------------------------------------
(* Tasks and rows.                                                         *)

\* A task exists once its handler is gone, and so it is for the task of a
\* poll: a submission never meets a task.
TaskInv ==
    /\ TaskMatchesRow
    /\ \A r \in Requests : task[r] # "none" => HandlerGone(r)
    /\ \A p \in Polls : poll[p] # NoPoll => HandlerGone(poll[p].task)

\* Only a settlement settles: what a step that keeps the tasks may do to the
\* rows and the handlers.
Harmless ==
    \A r \in Requests :
        /\ status'[r] = "settled" <=> status[r] = "settled"
        /\ status[r] = "failed_unbilled" => status'[r] = "failed_unbilled"
        /\ newapiRequestId'[r] = newapiRequestId[r]
        /\ HandlerGone(r) => HandlerGone(r)'

\* A poll may move on or end; it never changes over to another task.
PollsStay ==
    \A p \in Polls : poll'[p] # NoPoll =>
        poll[p] # NoPoll /\ poll'[p].task = poll[p].task

\* What TasksAreFinal asks of a step.
Final ==
    \A r \in Requests : task[r] \in TerminalTasks => task'[r] = task[r]

\* A step that leaves tasks alone and is harmless to the rows.
LEMMA HarmlessKeepsTasks ==
    ASSUME ImageTypeOK, TaskInv, Harmless, PollsStay, UNCHANGED task
    PROVE  TaskInv' /\ Final
<1>1. \A p \in Polls : poll[p] # NoPoll => poll[p].task \in Requests
    BY DEF ImageTypeOK, Polling
<1>2. TaskMatchesRow'
    BY DEF TaskInv, TaskMatchesRow, Harmless
<1>3. \A r \in Requests : task'[r] # "none" => HandlerGone(r)'
    BY DEF TaskInv, Harmless
<1>4. \A p \in Polls : poll'[p] # NoPoll => HandlerGone(poll[p].task)'
    BY <1>1 DEF TaskInv, Harmless, PollsStay, HandlerGone
<1> QED  BY <1>2, <1>3, <1>4 DEF TaskInv, Final

\* Closing a row unbilled is harmless to the tasks.
LEMMA MarkHarmless ==
    ASSUME TypeOK, NEW r \in Requests, MarkOrGiveUp(r),
           \A q \in Requests : HandlerGone(q) => HandlerGone(q)'
    PROVE  Harmless
BY DEF MarkOrGiveUp, MarkFailedUnbilled, requestVars, Harmless, Unresolved, TypeOK,
       RequestTypeOK

\* A handler that is not gone yet takes a step: those that are gone stay so.
LEMMA GoneStays ==
    ASSUME TypeOK, NEW r \in Requests, ~HandlerGone(r), NEW state, Goto(r, state)
    PROVE  \A q \in Requests : HandlerGone(q) => HandlerGone(q)'
BY DEF HandlerGone, Goto, TypeOK

(***************************************************************************)
(* The steps that image requests share with the others are harmless.       *)
(***************************************************************************)
LEMMA SharedHarmless ==
    ASSUME TypeOK,
           \/ \E r \in Requests :
                 \/ Enter(r) \/ Sweep(r) \/ Authenticate(r) \/ EarlyReturn(r)
                 \/ Admit(r) \/ Respond(r) \/ Reject(r)
           \/ WalletEvent
           \/ Crash
    PROVE  Harmless
<1>1. ASSUME UNCHANGED requestVars, \A q \in Requests : HandlerGone(q) => HandlerGone(q)'
      PROVE  Harmless
    BY <1>1 DEF requestVars, Harmless
<1>2. ASSUME NEW r \in Requests,
             \/ Enter(r) \/ Authenticate(r) \/ EarlyReturn(r) \/ Respond(r)
      PROVE  Harmless
    <2>1. /\ UNCHANGED requestVars
          /\ ~HandlerGone(r)
          /\ \E state : Goto(r, state)
        BY <1>2 DEF Enter, Authenticate, EarlyReturn, Respond, HandlerGone
    <2> QED  BY <1>1, <2>1, GoneStays
<1>3. ASSUME NEW r \in Requests, Admit(r)
      PROVE  Harmless
    <2>1. \A q \in Requests : HandlerGone(q) => HandlerGone(q)'
        BY <1>3, GoneStays DEF Admit, HandlerGone
    <2> QED  BY <1>3, <2>1 DEF Admit, AdmitRequest, Harmless, TypeOK, RequestTypeOK
<1>4. ASSUME NEW r \in Requests, Reject(r)
      PROVE  Harmless
    <2>1. \A q \in Requests : HandlerGone(q) => HandlerGone(q)'
        BY <1>4, GoneStays DEF Reject, HandlerGone
    <2> QED  BY <1>4, <2>1, MarkHarmless DEF Reject
<1>5. ASSUME NEW r \in Requests, Sweep(r)
      PROVE  Harmless
    <2>1. \A q \in Requests : HandlerGone(q) => HandlerGone(q)'
        BY <1>5 DEF Sweep, handlerVars, HandlerGone
    <2> QED  BY <1>5, <2>1, MarkHarmless DEF Sweep, MarkOrGiveUp
<1>6. ASSUME WalletEvent
      PROVE  Harmless
    BY <1>1, <1>6, WalletEventRequests, WalletEventElsewhere DEF handlerVars, HandlerGone
<1>7. ASSUME Crash
      PROVE  Harmless
    BY <1>1, <1>7 DEF Crash, HandlerGone, Running
<1> QED  BY <1>2, <1>3, <1>4, <1>5, <1>6, <1>7

\* A poll keeps its task or ends.
LEMMA PollStays ==
    ASSUME ImageTypeOK, NEW p \in Polls, poll[p].stage \in PollStages,
           \/ EndPoll(p)
           \/ \E stage \in PollStages : SetPoll(p, stage)
           \/ \E s \in ActiveTasks :
                 poll' = [poll EXCEPT ![p].stage = "retry", ![p].next = s]
    PROVE  PollsStay
<1>1. poll \in [Polls -> Polling \cup {NoPoll}] /\ poll[p] \in Polling
    BY PollType DEF ImageTypeOK
<1>2. poll[p] # NoPoll
    BY DEF NoPoll, PollStages
<1>3. ASSUME EndPoll(p)
      PROVE  PollsStay
    BY <1>1, <1>3 DEF EndPoll, PollsStay
<1>4. ASSUME NEW stage \in PollStages, SetPoll(p, stage)
      PROVE  PollsStay
    <2>1. poll'[p].task = poll[p].task /\ \A q \in Polls \ {p} : poll'[q] = poll[q]
        BY <1>1, <1>4 DEF SetPoll, Polling
    <2> QED  BY <1>2, <2>1 DEF PollsStay
<1>5. ASSUME NEW s \in ActiveTasks,
             poll' = [poll EXCEPT ![p].stage = "retry", ![p].next = s]
      PROVE  PollsStay
    <2>1. poll'[p].task = poll[p].task /\ \A q \in Polls \ {p} : poll'[q] = poll[q]
        BY <1>1, <1>5 DEF Polling
    <2> QED  BY <1>2, <2>1 DEF PollsStay
<1> QED  BY <1>3, <1>4, <1>5

\* A step on one task keeps the invariant and the final tasks if it leaves
\* that task in agreement with its row.
LEMMA OneTask ==
    ASSUME ImageTypeOK, TaskInv, PollsStay, NEW r \in Requests,
           \A q \in Requests \ {r} :
              /\ task'[q] = task[q] /\ status'[q] = status[q]
              /\ newapiRequestId'[q] = newapiRequestId[q]
              /\ HandlerGone(q) => HandlerGone(q)',
           HandlerGone(r)',
           task'[r] = "completed" <=> status'[r] = "settled",
           task'[r] = "failed_unbilled" => status'[r] = "failed_unbilled",
           task'[r] \in ActiveTasks => newapiRequestId'[r] # NoId,
           task[r] \in TerminalTasks => task'[r] = task[r]
    PROVE  TaskInv' /\ Final
<1>1. \A p \in Polls : poll[p] # NoPoll => poll[p].task \in Requests
    BY DEF ImageTypeOK, Polling
<1>2. TaskMatchesRow' /\ Final
    BY DEF TaskInv, TaskMatchesRow, Final
<1>3. \A q \in Requests : task'[q] # "none" => HandlerGone(q)'
    BY DEF TaskInv
<1>4. \A p \in Polls : poll'[p] # NoPoll => HandlerGone(poll[p].task)'
    BY <1>1 DEF TaskInv, PollsStay, HandlerGone
<1> QED  BY <1>2, <1>3, <1>4 DEF TaskInv

(***************************************************************************)
(* A submission writes the task of its own request, which has none yet.    *)
(***************************************************************************)
LEMMA SubmittedKeepsTasks ==
    ASSUME ImageTypeOK, TaskInv, NEW r \in Requests, Submitted(r)
    PROVE  TaskInv' /\ Final
<1>1. TypeOK /\ task \in [Requests -> TaskStatuses]
    BY DEF ImageTypeOK
<1>2. PollsStay
    BY DEF Submitted, SubmitNoResponse, SubmitRefused, SubmitUnreadable,
           RegisterAccepted, RegisterUnknown, taskVars, PollsStay
<1>3. ~HandlerGone(r) /\ task[r] = "none" /\ status[r] # "settled"
    <2>1. pc[r] \in {"forwarding", "responded"}
        BY DEF Submitted, SubmitNoResponse, SubmitRefused, SubmitUnreadable,
               RegisterAccepted
    <2>2. ~HandlerGone(r)
        BY <2>1 DEF HandlerGone
    <2> QED  BY <2>2 DEF TaskInv, TaskMatchesRow
<1>4. \E state : Goto(r, state)
    BY DEF Submitted, SubmitNoResponse, SubmitRefused, SubmitUnreadable,
           RegisterAccepted, Leave
<1>5. \A q \in Requests : HandlerGone(q) => HandlerGone(q)'
    BY <1>1, <1>3, <1>4, GoneStays
<1>6. CASE UNCHANGED <<requestVars, task>>
    <2>1. Harmless
        BY <1>5, <1>6 DEF Harmless, requestVars
    <2> QED  BY <1>2, <1>6, <2>1, HarmlessKeepsTasks
<1>7. ASSUME Leave(r)
      PROVE  HandlerGone(r)'
    BY <1>1, <1>7 DEF Leave, Goto, HandlerGone, TypeOK
<1>8. CASE Leave(r) /\ UNCHANGED requestVars /\ task' = [task EXCEPT ![r] = "submission_unknown"]
    <2>1. /\ task'[r] = "submission_unknown"
          /\ \A q \in Requests \ {r} : task'[q] = task[q]
        BY <1>1, <1>8
    <2> QED  BY <1>2, <1>3, <1>5, <1>7, <1>8, <2>1, OneTask
             DEF requestVars, ActiveTasks, TerminalTasks
<1>9. CASE /\ Leave(r)
           /\ answer[r].id # NoId /\ CaptureRequestId(r, answer[r].id)
           /\ task' = [task EXCEPT ![r] = "submitted"]
    <2>1. /\ task'[r] = "submitted"
          /\ \A q \in Requests \ {r} : task'[q] = task[q]
        BY <1>1, <1>9
    <2>2. /\ status' = status /\ status[r] = "open" /\ newapiRequestId'[r] # NoId
          /\ \A q \in Requests \ {r} : newapiRequestId'[q] = newapiRequestId[q]
        BY <1>1, <1>9 DEF CaptureRequestId, TypeOK, RequestTypeOK
    <2> QED  BY <1>2, <1>3, <1>5, <1>7, <1>9, <2>1, <2>2, OneTask
             DEF TerminalTasks
<1> QED  BY <1>6, <1>8, <1>9
         DEF Submitted, SubmitNoResponse, SubmitRefused, SubmitUnreadable,
             RegisterAccepted, RegisterUnknown, taskVars

(***************************************************************************)
(* The poll steps that write a task: each leaves it in agreement with its  *)
(* row, whatever has become of the row since the poll looked at it.        *)
(***************************************************************************)
LEMMA WritesKeepTasks ==
    ASSUME ImageTypeOK, TaskInv, NEW p \in Polls,
           \/ RetryTask(p) \/ FailTaskUnbilled(p) \/ CompleteSettle(p)
           \/ FinishFinalized(p)
    PROVE  TaskInv' /\ Final
<1> DEFINE r == poll[p].task
<1>1. /\ TypeOK
      /\ task \in [Requests -> TaskStatuses]
      /\ status \in [Requests -> Statuses]
    BY DEF ImageTypeOK, TypeOK, RequestTypeOK
<1>2. poll[p].stage \in PollStages
    BY DEF RetryTask, FailTaskUnbilled, CompleteSettle, FinishFinalized, PollStages
<1>3. r \in Requests /\ poll[p].next \in ActiveTasks /\ poll[p] # NoPoll
    BY <1>2, PollType DEF NoPoll, PollStages
<1>4. PollsStay
    <2>1. EndPoll(p) \/ \E stage \in PollStages : SetPoll(p, stage)
        BY DEF RetryTask, FailTaskUnbilled, CompleteSettle, FinishFinalized, PollStages
    <2> QED  BY <1>2, <2>1, PollStays
<1>5. UNCHANGED pc
    BY DEF RetryTask, FailTaskUnbilled, CompleteSettle, FinishFinalized, PollsOnly,
           vars, handlerVars
<1>6. /\ task[r] = "completed" <=> status[r] = "settled"
      /\ task[r] = "failed_unbilled" => status[r] = "failed_unbilled"
      /\ task[r] \in ActiveTasks => newapiRequestId[r] # NoId
      /\ HandlerGone(r)
    BY <1>3 DEF TaskInv, TaskMatchesRow
<1>7. CASE UNCHANGED <<requestVars, task>>
    <2>1. Harmless
        BY <1>5, <1>7 DEF Harmless, requestVars, HandlerGone
    <2> QED  BY <1>4, <1>7, <2>1, HarmlessKeepsTasks
<1>8. CASE UNCHANGED requestVars /\ task[r] \in ActiveTasks
           /\ task' = [task EXCEPT ![r] = poll[p].next]
    <2>1. /\ task'[r] \in ActiveTasks
          /\ \A q \in Requests \ {r} : task'[q] = task[q]
        BY <1>1, <1>3, <1>8
    <2> QED  BY <1>3, <1>4, <1>5, <1>6, <1>8, <2>1, OneTask
             DEF requestVars, ActiveTasks, TerminalTasks, HandlerGone
<1>9. CASE UNCHANGED requestVars /\ status[r] = "settled"
           /\ task' = [task EXCEPT ![r] = "completed"]
    <2>1. task' = task
        BY <1>1, <1>3, <1>6, <1>9
    <2> QED  BY <1>7, <1>9, <2>1
<1>10. CASE MarkFailedUnbilled(r) /\ status'[r] # "failed_unbilled" /\ UNCHANGED task
    <2>1. UNCHANGED requestVars
        BY <1>1, <1>3, <1>10 DEF MarkFailedUnbilled, Unresolved, requestVars
    <2> QED  BY <1>7, <1>10, <2>1
<1>11. CASE MarkFailedUnbilled(r) /\ status'[r] = "failed_unbilled"
            /\ task' = [task EXCEPT ![r] = "failed_unbilled"]
    <2>1. /\ task'[r] = "failed_unbilled" /\ status[r] # "settled"
          /\ \A q \in Requests \ {r} : task'[q] = task[q] /\ status'[q] = status[q]
          /\ newapiRequestId' = newapiRequestId
        BY <1>1, <1>3, <1>11 DEF MarkFailedUnbilled, Unresolved
    <2> QED  BY <1>3, <1>4, <1>5, <1>6, <1>11, <2>1, OneTask
             DEF ActiveTasks, TerminalTasks, HandlerGone
<1>12. CASE SettleInTx(r, usage[r])
            /\ task' = [task EXCEPT ![r] = "completed"]
    <2>1. /\ task'[r] = "completed" /\ status'[r] = "settled" /\ status[r] \in Unresolved
          /\ \A q \in Requests \ {r} : task'[q] = task[q] /\ status'[q] = status[q]
          /\ newapiRequestId' = newapiRequestId
        BY <1>1, <1>3, <1>12 DEF SettleInTx
    <2> QED  BY <1>3, <1>4, <1>5, <1>6, <1>12, <2>1, OneTask
             DEF ActiveTasks, TerminalTasks, HandlerGone, Unresolved
<1>13. ASSUME RetryTask(p)
       PROVE  TaskInv' /\ Final
    BY <1>7, <1>8, <1>13 DEF RetryTask, SetTask, PollsOnly, vars
<1>14. ASSUME FinishFinalized(p)
       PROVE  TaskInv' /\ Final
    BY <1>7, <1>9, <1>14 DEF FinishFinalized, SetTask, PollsOnly, vars
<1>15. ASSUME FailTaskUnbilled(p)
       PROVE  TaskInv' /\ Final
    BY <1>10, <1>11, <1>15 DEF FailTaskUnbilled, SetTask
<1>16. ASSUME CompleteSettle(p)
       PROVE  TaskInv' /\ Final
    BY <1>7, <1>12, <1>16 DEF CompleteSettle, SetTask
<1> QED  BY <1>13, <1>14, <1>15, <1>16

\* claimDueTasks takes a task that may still be polled.
LEMMA ClaimKeepsTasks ==
    ASSUME ImageTypeOK, TaskInv, NEW p \in Polls, NEW r \in Requests, Claim(p, r)
    PROVE  TaskInv' /\ Final
<1>1. UNCHANGED <<task, requestVars, pc>>
    BY DEF Claim, PollsOnly, vars, handlerVars
<1>2. HandlerGone(r)
    BY DEF Claim, TaskInv, ActiveTasks
<1>3. \A q \in Polls : poll'[q] = poll[q] \/ poll'[q].task = r
    BY DEF Claim, ImageTypeOK
<1>4. \A q \in Polls : poll'[q] # NoPoll => HandlerGone(poll[q].task)'
    BY <1>1, <1>2, <1>3 DEF TaskInv, HandlerGone
<1>5. TaskMatchesRow' /\ Final
    BY <1>1 DEF TaskInv, TaskMatchesRow, requestVars, Final
<1>6. \A q \in Requests : task'[q] # "none" => HandlerGone(q)'
    BY <1>1 DEF TaskInv, HandlerGone
<1> QED  BY <1>4, <1>5, <1>6 DEF TaskInv

\* The poll steps that only look, fail or end.
LEMMA LooksKeepTasks ==
    ASSUME ImageTypeOK, TaskInv, NEW p \in Polls,
           Fetch(p) \/ CompleteRead(p) \/ PollError(p) \/ Abandon(p)
    PROVE  TaskInv' /\ Final
<1>1. UNCHANGED <<task, requestVars, pc>>
    BY DEF Fetch, CompleteRead, PollError, Abandon, PollsOnly, vars, handlerVars
<1>2. Harmless
    BY <1>1 DEF Harmless, requestVars, HandlerGone
<1>3. poll[p].stage \in PollStages
    BY DEF Fetch, CompleteRead, PollError, Abandon, PollStages
<1>4. poll[p].seen \in ActiveTasks
    BY <1>3, PollType
<1>5. \/ EndPoll(p)
      \/ \E stage \in PollStages : SetPoll(p, stage)
      \/ \E s \in ActiveTasks :
            poll' = [poll EXCEPT ![p].stage = "retry", ![p].next = s]
    BY <1>4 DEF Fetch, CompleteRead, PollError, Abandon, ActiveTasks, PollStages
<1> QED  BY <1>1, <1>2, <1>3, <1>5, PollStays, HarmlessKeepsTasks

(***************************************************************************)
(* Every step keeps tasks and rows in agreement and final tasks final.     *)
(***************************************************************************)
LEMMA TaskStep ==
    ASSUME ImageTypeOK, TaskInv, [ImageNext]_imageVars
    PROVE  TaskInv' /\ Final
<1>1. TypeOK
    BY DEF ImageTypeOK
<1>2. ASSUME UNCHANGED taskVars,
             \/ \E r \in Requests :
                   \/ Enter(r) \/ Sweep(r) \/ Authenticate(r) \/ EarlyReturn(r)
                   \/ Admit(r) \/ Respond(r) \/ Reject(r)
             \/ WalletEvent
      PROVE  TaskInv' /\ Final
    <2>1. Harmless
        BY <1>1, <1>2, SharedHarmless
    <2> QED  BY <1>2, <2>1, HarmlessKeepsTasks DEF taskVars, PollsStay
<1>3. ASSUME ImageCrash
      PROVE  TaskInv' /\ Final
    <2>1. Harmless
        BY <1>1, <1>3, SharedHarmless DEF ImageCrash
    <2> QED  BY <1>3, <2>1, HarmlessKeepsTasks DEF ImageCrash, PollsStay
<1>4. ASSUME UNCHANGED <<requestVars, pc, task, poll>>
      PROVE  TaskInv' /\ Final
    <2>1. Harmless
        BY <1>4 DEF Harmless, requestVars, HandlerGone
    <2> QED  BY <1>4, <2>1, HarmlessKeepsTasks DEF PollsStay
<1>5. ASSUME NEW r \in Requests, UpstreamMove(r) \/ LeaseExpires(r)
      PROVE  UNCHANGED <<requestVars, pc, task, poll>>
    BY <1>5 DEF UpstreamMove, LeaseExpires, PollsOnly, vars, handlerVars
<1>6. CASE UNCHANGED imageVars
    BY <1>4, <1>6 DEF imageVars, vars, handlerVars, taskVars
<1>7. ASSUME NEW r \in Requests, SubmitStep(r)
      PROVE  TaskInv' /\ Final
    BY <1>2, <1>7, SubmittedKeepsTasks DEF SubmitStep, Submitted
<1>8. ASSUME NEW p \in Polls, PollStep(p) \/ PollError(p) \/ Abandon(p)
      PROVE  TaskInv' /\ Final
    BY <1>8, WritesKeepTasks, LooksKeepTasks DEF PollStep
<1> QED  BY <1>2, <1>3, <1>4, <1>5, <1>6, <1>7, <1>8, ClaimKeepsTasks DEF ImageNext

\* No task and no poll at the start.
LEMMA InitTasks == ImageInit => TaskInv
<1> SUFFICES ASSUME ImageInit PROVE TaskInv
    OBVIOUS
<1>1. \A r \in Requests : task[r] = "none" /\ status[r] # "settled"
    BY DEF ImageInit, GatewayInit
<1>2. \A p \in Polls : poll[p] = NoPoll
    BY DEF ImageInit
<1> QED  BY <1>1, <1>2 DEF TaskInv, TaskMatchesRow, ActiveTasks

(***************************************************************************)
(* gateway_task and request_ledger agree, with any number of overlapping   *)
(* polls: a task is completed exactly when its request is settled.         *)
(***************************************************************************)
THEOREM TasksMatchRows == ImageSafetySpec => []TaskMatchesRow
<1>1. TaskInv => TaskMatchesRow
    BY DEF TaskInv
<1> QED  BY <1>1, InitTasks, TaskStep, ImageTypeCorrect, PTL DEF ImageSafetySpec

(***************************************************************************)
(* A completed or failed task is never changed again, however late a poll  *)
(* that claimed it before comes back.                                      *)
(***************************************************************************)
THEOREM FinalTasksStay == ImageSafetySpec => TasksAreFinal
<1>1. ImageTypeOK /\ TaskInv /\ [ImageNext]_imageVars =>
         [\A r \in Requests :
             task[r] \in TerminalTasks => task'[r] = task[r]]_taskVars
    BY TaskStep DEF Final
<1> QED  BY <1>1, InitTasks, TaskStep, ImageTypeCorrect, PTL
         DEF ImageSafetySpec, TasksAreFinal
=============================================================================
