------------------------------ MODULE JobLock -------------------------------
(***************************************************************************)
(* The singleton row of gateway_job_lock and the keep-alive controller of  *)
(* each process that runs the background jobs                              *)
(*                                (src/src/features/gateway/server/jobs.ts) *)
(*                                                                         *)
(* There is no fencing token.  A process that makes no heartbeat for five  *)
(* minutes may be replaced while it is still in the middle of a job, and   *)
(* learns of it at its next heartbeat; within ten seconds of a heartbeat   *)
(* it need not ask.  Times enter only as these two facts: stale, that the  *)
(* last heartbeat is older than the limit, and fresh, that no five minutes *)
(* have passed since the controller last asked, so that it may still be    *)
(* within its ten seconds.                                                 *)
(***************************************************************************)
EXTENDS Integers

CONSTANTS
    Workers,    \* holder ids; a restarted process draws a new one
    NoOne,      \* holder_id IS NULL
    FirstHolder \* the process that has the lock when the model begins

ASSUME JobLockAssumption ==
    NoOne \notin Workers /\ FirstHolder \in Workers \cup {NoOne}

VARIABLES
    holder,     \* gateway_job_lock.holder_id
    stale,      \* heartbeat_at < now - DEFAULT_STALE_MS
    owns,       \* the controllers' ownsLock
    fresh       \* now - lastBeatAt < KEEPALIVE_THROTTLE_MS is possible

lockVars == <<holder, stale, owns, fresh>>

LockInit ==
    /\ holder = FirstHolder
    /\ stale = FALSE
    /\ owns = [w \in Workers |-> w = FirstHolder]
    /\ fresh = [w \in Workers |-> FALSE]

LockTypeOK ==
    /\ holder \in Workers \cup {NoOne}
    /\ stale \in BOOLEAN
    /\ owns \in [Workers -> BOOLEAN]
    /\ fresh \in [Workers -> BOOLEAN]

-----------------------------------------------------------------------------
\* Any process may take the lock, whoever holds it.
TakeAnyLock(w) ==
    /\ holder' = w /\ stale' = FALSE
    /\ owns' = [owns EXCEPT ![w] = TRUE]
    /\ fresh' = [fresh EXCEPT ![w] = TRUE]

\* acquireJobLock followed by setHasLock.
AcquireJobLock(w) ==
    IF holder \in {NoOne, w} \/ stale
    THEN TakeAnyLock(w)
    ELSE UNCHANGED lockVars

\* heartbeatJobLock for a controller that asks now.
Heartbeat(w) ==
    /\ owns' = [owns EXCEPT ![w] = holder = w]
    /\ fresh' = [fresh EXCEPT ![w] = TRUE]
    /\ stale' = (stale /\ holder # w)
    /\ UNCHANGED holder

RenewNow(w) == Heartbeat(w)

\* Within ten seconds of a heartbeat the answer is true without asking; when
\* the controller asks, ten seconds have passed.
KeepAlive(w) ==
    \/ owns[w] /\ Heartbeat(w)
    \/ (owns[w] => fresh[w]) /\ UNCHANGED lockVars

\* The heartbeat statement throws: lastBeatAt is set before it is awaited.
HeartbeatThrows(w) ==
    /\ owns[w]
    /\ fresh' = [fresh EXCEPT ![w] = TRUE]
    /\ UNCHANGED <<holder, stale, owns>>

\* A tick that failed forgets the lock.
ForgetLock(w) ==
    /\ owns' = [owns EXCEPT ![w] = FALSE]
    /\ UNCHANGED <<holder, stale, fresh>>

-----------------------------------------------------------------------------
\* Five minutes pass without a heartbeat of the holder.
FiveMinutesPass ==
    /\ holder # NoOne /\ ~stale
    /\ stale' = TRUE
    /\ fresh' = [w \in Workers |-> FALSE]
    /\ UNCHANGED <<holder, owns>>
=============================================================================
