------------------------------ MODULE CronJobs ------------------------------
(***************************************************************************)
(* The jobs of pk-cron-runner (pk_cron_runner.py: run_jobs, run_job,       *)
(* _terminate_process, _signal_handlers), composed with its lock: each job *)
(* is a child in a process group of its own, waited for, torn down on its  *)
(* timeout or on a signal to the runner, and left alone when the runner    *)
(* itself is killed.                                                       *)
(*                                                                         *)
(* Jobs run while CronLock's runner is "running".  Signals are handled     *)
(* between any two steps; a signal inside Popen.wait may find the Popen's  *)
(* internal lock taken by the very call it interrupted.                    *)
(***************************************************************************)
EXTENDS CronLock

CONSTANTS
    NumJobs,      \* the selected jobs are run in this order
    Timed,        \* the jobs with a timeout
    StopOnFirst,  \* the invocations with stop_on_first_failure
    MaxSignals    \* SIGTERM or SIGINT delivered to one runner

ASSUME JobsAssumption ==
    /\ NumJobs \in Nat \ {0}
    /\ Timed \subseteq 1..NumJobs
    /\ StopOnFirst \subseteq Runner
    /\ MaxSignals \in Nat

Job == 1..NumJobs

VARIABLES
    stage,      \* where each runner stands in its jobs
    job,        \* the job it is at, 0 before the first
    tracked,    \* whether that job's process is in _ACTIVE_PROCESSES
    inHandler,  \* whether the signal handler is what runs
    reaping,    \* whether an interrupted wait holds the Popen's internal lock
    signals,    \* signals delivered so far
    result,     \* the JobResults
    leader,     \* the child of each job
    adrift      \* runners interrupted between Popen and tracking its process

jobVars == <<stage, job, tracked, inHandler, reaping, signals, result, leader,
             adrift>>
cronVars == <<lockVars, jobVars>>

Stages == {"choosing", "spawned", "waiting", "stopping", "grace", "collecting"}

\* Where the runner is inside a Popen.wait.
InWait == {"waiting", "grace", "collecting"}

JobsInit ==
    /\ LockInit
    /\ stage = [r \in Runner |-> "choosing"]
    /\ job = [r \in Runner |-> 0]
    /\ tracked = [r \in Runner |-> FALSE]
    /\ inHandler = [r \in Runner |-> FALSE]
    /\ reaping = [r \in Runner |-> FALSE]
    /\ signals = [r \in Runner |-> 0]
    /\ result = [r \in Runner |-> [j \in Job |-> "none"]]
    /\ leader = [r \in Runner |-> [j \in Job |-> "none"]]
    /\ adrift = {}

signalPart == <<inHandler, reaping, signals, adrift>>

-----------------------------------------------------------------------------
Move(r, place) == stage' = [stage EXCEPT ![r] = place]

\* The runner is inside run_jobs, at that place.
At(r, place) == pc[r] = "running" /\ stage[r] = place

\* process.poll() is not None: the child is known to have ended.  A poll, or a
\* wait, that does not get the internal lock does not find out.
Reapable(r) == leader[r][job[r]] # "alive" /\ ~reaping[r]

Report(r, outcome) ==
    result' = [result EXCEPT ![r][job[r]] = outcome]

\* The end of run_job: the process is no longer tracked.
JobReturns(r, outcome) ==
    /\ Report(r, outcome)
    /\ tracked' = [tracked EXCEPT ![r] = FALSE]
    /\ Move(r, "choosing")
    /\ UNCHANGED lockVars

\* _terminate_process returns: to run_job, which reports a timeout, or to the
\* handler, which goes on to the locks.
TornDown(r) ==
    \/ ~inHandler[r] /\ JobReturns(r, "timeout")
    \/ inHandler[r] /\ FinishJobs(r) /\ UNCHANGED <<stage, result, tracked>>

-----------------------------------------------------------------------------
(* run_jobs                                                                *)

\* The loop of run_jobs ends.
Stops(r) ==
    \/ job[r] = NumJobs
    \/ r \in StopOnFirst /\ job[r] > 0 /\ result[r][job[r]] # "ok"

\* Popen: the child starts in a session of its own.
Spawn(r) ==
    /\ At(r, "choosing")
    /\ ~Stops(r)
    /\ job' = [job EXCEPT ![r] = @ + 1]
    /\ leader' = [leader EXCEPT ![r][job[r] + 1] = "alive"]
    /\ Move(r, "spawned")
    /\ UNCHANGED <<lockVars, tracked, result, signalPart>>

\* Popen raises OSError: the job failed without a process.
SpawnFails(r) ==
    /\ At(r, "choosing")
    /\ ~Stops(r)
    /\ job' = [job EXCEPT ![r] = @ + 1]
    /\ result' = [result EXCEPT ![r][job[r] + 1] = "failed"]
    /\ UNCHANGED <<lockVars, stage, tracked, leader, signalPart>>

JobsDone(r) ==
    /\ At(r, "choosing")
    /\ Stops(r)
    /\ FinishJobs(r)
    /\ UNCHANGED jobVars

-----------------------------------------------------------------------------
(* run_job                                                                 *)

Track(r) ==
    /\ At(r, "spawned")
    /\ tracked' = [tracked EXCEPT ![r] = TRUE]
    /\ Move(r, "waiting")
    /\ UNCHANGED <<lockVars, job, result, leader, signalPart>>

\* process.wait returns.
Waited(r) ==
    /\ At(r, "waiting")
    /\ Reapable(r)
    /\ JobReturns(r, leader[r][job[r]])
    /\ UNCHANGED <<job, leader, signalPart>>

\* TimeoutExpired; the child may end on its own even now.
Expire(r) ==
    /\ At(r, "waiting")
    /\ job[r] \in Timed
    /\ Move(r, "stopping")
    /\ UNCHANGED <<lockVars, job, tracked, result, leader, signalPart>>

-----------------------------------------------------------------------------
(* _terminate_process                                                      *)

\* SIGTERM to the group, unless the child is known to have ended.  Nothing
\* obliges a process to end on it.
StopGroup(r) ==
    /\ At(r, "stopping")
    /\ \/ Reapable(r) /\ TornDown(r)
       \/ /\ ~Reapable(r)
          /\ Move(r, "grace")
          /\ UNCHANGED <<lockVars, result, tracked>>
    /\ UNCHANGED <<job, leader, signalPart>>

\* The child ends within the five seconds.
GraceEnough(r) ==
    /\ At(r, "grace")
    /\ Reapable(r)
    /\ TornDown(r)
    /\ UNCHANGED <<job, leader, signalPart>>

\* Mutant: no SIGKILL after the grace.
GraceOverNoKill(r) ==
    /\ At(r, "grace")
    /\ Move(r, "collecting")
    /\ UNCHANGED <<lockVars, job, tracked, result, leader, signalPart>>

\* The five seconds are over: SIGKILL to the group, or to the child alone when
\* killpg fails.
GraceOver(r) ==
    /\ At(r, "grace")
    /\ leader' = IF leader[r][job[r]] = "alive"
                 THEN [leader EXCEPT ![r][job[r]] = "failed"]
                 ELSE leader
    /\ Move(r, "collecting")
    /\ UNCHANGED <<lockVars, job, tracked, result, signalPart>>

\* The last wait, without a timeout.
Collect(r) ==
    /\ At(r, "collecting")
    /\ Reapable(r)
    /\ TornDown(r)
    /\ UNCHANGED <<job, leader, signalPart>>

-----------------------------------------------------------------------------
(* Signals, deaths and time                                                *)

\* A signal reaches the runner once it holds the lock; inside acquire it is
\* CronLock's Crash.
Interrupted(r) ==
    /\ pc[r] \in {"running", "releasing", "unlinking"}
    /\ signals[r] < MaxSignals
    /\ signals' = [signals EXCEPT ![r] = @ + 1]
    /\ inHandler' = [inHandler EXCEPT ![r] = TRUE]
    /\ \E held \in BOOLEAN :
          /\ held => pc[r] = "running" /\ stage[r] \in InWait
          /\ reaping' = [reaping EXCEPT ![r] = @ \/ held]
    /\ stage' = [stage EXCEPT ![r] = IF tracked[r] THEN "stopping" ELSE @]
    /\ Goto(r, IF tracked[r] THEN "running" ELSE "releasing")
    /\ adrift' = IF At(r, "spawned") THEN adrift \cup {r} ELSE adrift
    /\ UNCHANGED <<age, guard, seen, job, tracked, result, leader>>

\* Mutant: the handler gives the lock back first.
SignalLockFirst(r) ==
    /\ Interrupted(r)
    /\ IF Token = r THEN Unlinked ELSE UNCHANGED <<creator, written>>

\* handle_signal: every tracked process is torn down, then the locks are
\* released.  A further signal starts it again inside itself.
Signal(r) ==
    /\ Interrupted(r)
    /\ UNCHANGED <<creator, written>>

\* A child ends, with or without success.
ChildEnds(r, j) ==
    /\ leader[r][j] = "alive"
    /\ \E code \in {"ok", "failed"} :
          leader' = [leader EXCEPT ![r][j] = code]
    /\ UNCHANGED <<lockVars, stage, job, tracked, result, signalPart>>

\* What the runner does between taking the lock and giving it back.
JobStep(r) ==
    \/ Spawn(r)
    \/ SpawnFails(r)
    \/ JobsDone(r)
    \/ Track(r)
    \/ Waited(r)
    \/ Expire(r)
    \/ StopGroup(r)
    \/ GraceEnough(r)
    \/ GraceOver(r)
    \/ Collect(r)

\* The lock's own steps; a death leaves the lock file and the jobs behind.
LockStep(r) ==
    \/ Start(r)
    \/ EnterGuard(r)
    \/ Open(r)
    \/ Inspect(r)
    \/ Confirm(r)
    \/ Remove(r)
    \/ Reopen(r)
    \/ Write(r)
    \/ AcquireFails(r)
    \/ CheckToken(r)
    \/ Release(r)
    \/ Crash(r)

JobsNext ==
    \/ \E r \in Runner :
          \/ JobStep(r)
          \/ LockStep(r) /\ UNCHANGED jobVars
          \/ Signal(r)
          \/ \E j \in Job : ChildEnds(r, j)
    \/ ClockTick /\ UNCHANGED jobVars

JobsSpec == JobsInit /\ [][JobsNext]_cronVars

\* Running the jobs, then release.
Proceed(r) ==
    \/ JobStep(r)
    \/ (CheckToken(r) \/ Release(r)) /\ UNCHANGED jobVars

\* The operating system runs a runner that can go on, and its timers expire.
\* Nothing is assumed of the children.
JobsFairSpec == JobsSpec /\ \A r \in Runner : WF_cronVars(Proceed(r))

-----------------------------------------------------------------------------
(* Properties.                                                             *)

\* Type invariant: only a runner at or past the spawn of a job has a process
\* to track, and only an interrupted wait keeps the Popen's lock.
JobsTypeOK ==
    /\ stage \in [Runner -> Stages]
    /\ job \in [Runner -> 0..NumJobs]
    /\ tracked \in [Runner -> BOOLEAN]
    /\ inHandler \in [Runner -> BOOLEAN]
    /\ reaping \in [Runner -> BOOLEAN]
    /\ signals \in [Runner -> 0..MaxSignals]
    /\ result \in [Runner -> [Job -> {"none", "ok", "failed", "timeout"}]]
    /\ leader \in [Runner -> [Job -> {"none", "alive", "ok", "failed"}]]
    /\ adrift \subseteq Runner
    /\ \A r \in Runner : tracked[r] => job[r] > 0
    /\ \A r \in Runner : reaping[r] => inHandler[r]

Working(r) == \E j \in Job : leader[r][j] = "alive"

\* "a single-instance lock so two runs cannot overlap", of the jobs and not
\* only of the runners: children of two runs are alive together only if some
\* invocation has outlived stale_after or one of the two was interrupted
\* between Popen and the tracking of its process; a runner that is killed, or
\* torn down by a signal, opens no other way.
JobsOverlapOnlyAfterLoss ==
    \A r, s \in Runner :
        r # s /\ Working(r) /\ Working(s) =>
            Stale # {} \/ {r, s} \cap adrift # {}

\* Jobs of one run never overlap, whatever ended the earlier one: run_job does
\* not return before its child is gone, and stop_on_first_failure keeps every
\* later job from starting.
JobsInTurn ==
    \A r \in Runner : \A j, k \in Job :
        j < k /\ leader[r][k] # "none" =>
            /\ leader[r][j] # "alive"
            /\ r \in StopOnFirst => result[r][j] = "ok"

\* A runner finishes its jobs and releases its lock, or dies, whatever its
\* children do with SIGTERM: what can hold it for ever is the wait for a job
\* without a timeout, and a signal that interrupted a wait.
RunEnds ==
    \A r \in Runner :
        pc[r] = "running" ~>
            \/ pc[r] \in {"ended", "dead"}
            \/ reaping[r]
            \/ stage[r] = "waiting" /\ job[r] \notin Timed

\* spec.md: "On a signal it terminates every tracked child, releases every
\* held lock ... then raises SystemExit".
SignalEndsRun ==
    \A r \in Runner : inHandler[r] ~> pc[r] \in {"ended", "dead"}

\* No two jobs run together, of one run or of two.
JobsSafe == JobsTypeOK /\ JobsOverlapOnlyAfterLoss /\ JobsInTurn
=============================================================================
