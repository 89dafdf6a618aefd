------------------------------ MODULE TaskRuns ------------------------------
(***************************************************************************)
(* The durable task engine of the Stewardship application: the TaskRun     *)
(* rows of jobs/models.py, the fenced transitions of jobs/storage.py, the  *)
(* claims of jobs/ownership.py and jobs/dispatch.py, and the PostgreSQL    *)
(* guard stewardship_task_state_v1 that every row change passes.           *)
(*                                                                         *)
(* A task is a chain: a root run (retry 0) and the runs an Administrator's *)
(* explicit retries append to it.  A consumer claims a run under a lease,  *)
(* works outside any transaction, and applies durable effects and row      *)
(* transitions in short transactions that lock the chain's root row.  A    *)
(* consumer that dies or loses its lease keeps believing in its claim      *)
(* until the next time it looks; the fence in the row is what stops it.    *)
(*                                                                         *)
(* Time is kept as the seconds that REMAIN (lease, wait), so that Tick has *)
(* no horizon.  A worker identity is the consumer itself: the code draws a *)
(* new UUID for every hint, so nothing here may rest on UUIDs differing.   *)
(***************************************************************************)
EXTENDS Naturals

CONSTANTS
    Root,        \* task chains: one immutable root run each
    Consumer,    \* consumer processes; each executes one hint at a time
    Command,     \* identities of explicit retry commands
    NoConsumer,  \* worker_id NULL
    NoCommand,   \* retry_command_id NULL
    NoClaim,     \* a consumer that believes it owns nothing
    Phases,      \* the progress vocabulary (jobs/phases.py)
    MaxRetry,    \* bound: explicit retries of one chain
    MaxAttempt,  \* bound: claims of one run (handlers stop retrying at one)
    LeaseTicks,  \* the lease a claim or heartbeat writes
    WaitTicks    \* bound: the longest not_before delay

Retry == 0..MaxRetry
Claims == [root : Root, retry : Retry, fence : Nat]

ASSUME ConstantsDistinct ==
    /\ NoConsumer \notin Consumer
    /\ NoCommand \notin Command
    /\ NoClaim \notin Claims

ASSUME PhasesKnown == {"unspecified", "starting"} \subseteq Phases

ASSUME BoundsAreNatural ==
    /\ MaxRetry \in Nat
    /\ MaxAttempt \in Nat \ {0}
    /\ LeaseTicks \in Nat \ {0}
    /\ WaitTicks \in Nat \ {0}

-----------------------------------------------------------------------------
(* Rows.                                                                   *)

Waiting == {"queued", "retry_wait"}
Terminal == {"succeeded", "failed", "cancelled"}
States == Waiting \cup Terminal \cup {"absent", "running", "abandoned"}

Run == [state : States, attempt : Nat, fence : Nat, phase : Phases,
        worker : Consumer \cup {NoConsumer}, lease : Nat, wait : Nat,
        command : Command \cup {NoCommand}]

VARIABLES
    run,      \* the TaskRun table: run[r][k] is the k-th run of chain r
    held,     \* the TaskClaim each consumer process holds in memory
    open,     \* open[c]: c is inside an effect transaction, root row locked
    effects   \* history: the (fence, worker) of every committed effect

taskVars == <<run, held, open, effects>>

NewRun(wait, command) ==
    [state |-> "queued", attempt |-> 0, fence |-> 0, phase |-> "unspecified",
     worker |-> NoConsumer, lease |-> 0, wait |-> wait, command |-> command]

Absent == [NewRun(0, NoCommand) EXCEPT !.state = "absent"]

TaskInit ==
    /\ run = [r \in Root |-> [k \in Retry |-> Absent]]
    /\ held = [c \in Consumer |-> NoClaim]
    /\ open = [c \in Consumer |-> FALSE]
    /\ effects = [r \in Root |-> [k \in Retry |-> {}]]

-----------------------------------------------------------------------------
(* Locks, claims and the latest run of a chain.                            *)

\* No transaction holds the row lock of root r.
RootFree(r) == \A c \in Consumer : open[c] => held[c].root # r

\* The row a consumer's claim names; meaningful only under a claim.
Row(c) == run[held[c].root][held[c].retry]

\* lock_task_claim: the exact claim is still the row's, and its lease lives.
Owns(c) ==
    /\ held[c] # NoClaim
    /\ RootFree(held[c].root)
    /\ Row(c).state = "running"
    /\ Row(c).fence = held[c].fence
    /\ Row(c).worker = c
    /\ Row(c).lease > 0

Latest(r, k) ==
    /\ run[r][k].state # "absent"
    /\ \A j \in Retry : run[r][j].state # "absent" => j <= k

Put(r, k, row) == run' = [run EXCEPT ![r][k] = row]

\* The owner's own row transition; a run that stops running ends the claim.
Move(c, row) ==
    /\ Put(held[c].root, held[c].retry, row)
    /\ held' = IF row.state = "running" THEN held
               ELSE [held EXCEPT ![c] = NoClaim]
    /\ UNCHANGED <<open, effects>>

-----------------------------------------------------------------------------
(* Creating runs.                                                          *)

\* enqueue: a second call with the same key returns the existing root.
Enqueue(r, wait) ==
    /\ run[r][0].state = "absent"
    /\ Put(r, 0, NewRun(wait, NoCommand))
    /\ UNCHANGED <<held, open, effects>>

\* Mutant: a repeated command is not looked up in the chain.
RetryFailedNoReplay(r, k, command) ==
    /\ k < MaxRetry
    /\ RootFree(r)
    /\ Latest(r, k)
    /\ run[r][k].state = "failed"
    /\ Put(r, k + 1, NewRun(0, command))
    /\ UNCHANGED <<held, open, effects>>

\* retry_failed: a command already bound in the chain is answered with its
\* existing run (no step); otherwise only the latest run, failed, is retried.
RetryFailed(r, k, command) ==
    /\ k < MaxRetry
    /\ RootFree(r)
    /\ \A j \in Retry : run[r][j].command # command
    /\ Latest(r, k)
    /\ run[r][k].state = "failed"
    /\ Put(r, k + 1, NewRun(0, command))
    /\ UNCHANGED <<held, open, effects>>

-----------------------------------------------------------------------------
(* A consumer's claim and its transitions.                                 *)

\* Mutant: a claim reuses the row's fence; only an expiry advances it.
ClaimSameFence(c, r, k) ==
    /\ held[c] = NoClaim
    /\ RootFree(r)
    /\ run[r][k].state \in Waiting
    /\ run[r][k].wait = 0
    /\ Put(r, k, [run[r][k] EXCEPT
                    !.state = "running", !.worker = c, !.attempt = @ + 1,
                    !.phase = "starting", !.lease = LeaseTicks])
    /\ held' = [held EXCEPT ![c] =
                  [root |-> r, retry |-> k, fence |-> run[r][k].fence]]
    /\ UNCHANGED <<open, effects>>

\* claim_hint, and the claim edge of change_run.
Claim(c, r, k) ==
    /\ held[c] = NoClaim
    /\ RootFree(r)
    /\ run[r][k].state \in Waiting
    /\ run[r][k].wait = 0
    /\ LET fence == run[r][k].fence + 1
       IN  /\ Put(r, k, [run[r][k] EXCEPT
                           !.state = "running", !.worker = c,
                           !.fence = fence, !.attempt = @ + 1,
                           !.phase = "starting", !.lease = LeaseTicks])
           /\ held' = [held EXCEPT
                         ![c] = [root |-> r, retry |-> k, fence |-> fence]]
    /\ UNCHANGED <<open, effects>>

\* heartbeat: the owner renews its lease.
Heartbeat(c) ==
    /\ Owns(c)
    /\ Move(c, [Row(c) EXCEPT !.lease = LeaseTicks])

\* progress: the owner records the phase it has reached.
Progress(c, phase) ==
    /\ Owns(c)
    /\ Move(c, [Row(c) EXCEPT !.phase = phase])

\* Mutant: a finished run keeps its lease.
FinishKeepsLease(c, state) ==
    /\ Owns(c)
    /\ Move(c, [Row(c) EXCEPT !.state = state])

\* complete, permanent_failure and safe_cancel by the owner.
Finish(c, state) ==
    /\ Owns(c)
    /\ Move(c, [Row(c) EXCEPT !.state = state, !.lease = 0])

\* retryable_failure: back to waiting, with a delay in the future.
RetryLater(c, wait) ==
    /\ Owns(c)
    /\ Row(c).attempt < MaxAttempt
    /\ Move(c, [Row(c) EXCEPT
                  !.state = "retry_wait", !.lease = 0, !.wait = wait])

\* Execution.effect: lock the root, prove the claim, then work in the
\* transaction.  Time passes while it is open; the lock is what protects it.
BeginEffect(c) ==
    /\ Owns(c)
    /\ open' = [open EXCEPT ![c] = TRUE]
    /\ UNCHANGED <<run, held, effects>>

CommitEffect(c) ==
    /\ open[c]
    /\ open' = [open EXCEPT ![c] = FALSE]
    /\ effects' = [effects EXCEPT ![held[c].root][held[c].retry] =
                      @ \cup {[fence |-> held[c].fence, worker |-> c]}]
    /\ UNCHANGED <<run, held>>

\* The process dies, or the handler returns or raises without a transition:
\* the open transaction rolls back and the row keeps its claim and lease.
LetGo(c) ==
    /\ held[c] # NoClaim
    /\ held' = [held EXCEPT ![c] = NoClaim]
    /\ open' = [open EXCEPT ![c] = FALSE]
    /\ UNCHANGED <<run, effects>>

-----------------------------------------------------------------------------
(* Cancelling work nobody runs, and recovery.                              *)

\* Mutant: a service cancels work that has already finished.
CancelUnclaimedFinished(r, k) ==
    /\ RootFree(r)
    /\ run[r][k].state \notin {"absent", "running"}
    /\ Put(r, k, [run[r][k] EXCEPT !.state = "cancelled"])
    /\ UNCHANGED <<held, open, effects>>

\* safe_cancel of waiting work and recovery_cancel of abandoned work by an
\* owning service (a superseded source refresh, a cancelled cleanup).
CancelUnclaimed(r, k) ==
    /\ RootFree(r)
    /\ run[r][k].state \in Waiting \cup {"abandoned"}
    /\ Put(r, k, [run[r][k] EXCEPT !.state = "cancelled"])
    /\ UNCHANGED <<held, open, effects>>

\* What a handler's verifier may decide about abandoned work; "none" leaves
\* it abandoned for a later pass.
Plans == {"none", "recovery_retry", "recovery_complete", "recovery_fail",
          "recovery_cancel"}

PlanState(plan) ==
    CASE plan = "none" -> "abandoned"
      [] plan = "recovery_retry" -> "retry_wait"
      [] plan = "recovery_complete" -> "succeeded"
      [] plan = "recovery_fail" -> "failed"
      [] plan = "recovery_cancel" -> "cancelled"

Expired(r, k) == run[r][k].state = "running" /\ run[r][k].lease = 0

\* Mutant: recovery looks only at work already abandoned.
RecoverAbandonedOnly(r, k, plan, wait) ==
    /\ RootFree(r)
    /\ run[r][k].state = "abandoned"
    /\ plan = "recovery_retry" => run[r][k].attempt < MaxAttempt
    /\ Put(r, k, [run[r][k] EXCEPT
                    !.state = PlanState(plan),
                    !.wait = IF plan = "recovery_retry" THEN wait ELSE @])
    /\ UNCHANGED <<held, open, effects>>

\* Mutant: recovery does not wait for the root row's lock.
RecoverUnlocked(r, k, plan, wait) ==
    /\ Expired(r, k) \/ run[r][k].state = "abandoned"
    /\ plan = "recovery_retry" => run[r][k].attempt < MaxAttempt
    /\ Put(r, k, [run[r][k] EXCEPT
                    !.state = PlanState(plan),
                    !.fence = IF Expired(r, k) THEN @ + 1 ELSE @,
                    !.wait = IF plan = "recovery_retry" THEN wait ELSE @])
    /\ UNCHANGED <<held, open, effects>>

\* _recover_once: fence an expired claim and apply the verifier's plan, in
\* one transaction.
Recover(r, k, plan, wait) ==
    /\ RootFree(r)
    /\ Expired(r, k) \/ run[r][k].state = "abandoned"
    /\ plan = "recovery_retry" => run[r][k].attempt < MaxAttempt
    /\ Put(r, k, [run[r][k] EXCEPT
                    !.state = PlanState(plan),
                    !.fence = IF Expired(r, k) THEN @ + 1 ELSE @,
                    !.wait = IF plan = "recovery_retry" THEN wait ELSE @])
    /\ UNCHANGED <<held, open, effects>>

-----------------------------------------------------------------------------
\* One second of PostgreSQL time.
Elapse(seconds) == IF seconds = 0 THEN 0 ELSE seconds - 1

Tick ==
    /\ run' = [r \in Root |-> [k \in Retry |->
                  [run[r][k] EXCEPT !.lease = Elapse(@), !.wait = Elapse(@)]]]
    /\ UNCHANGED <<held, open, effects>>

ConsumerStep(c) ==
    \/ \E r \in Root, k \in Retry : Claim(c, r, k)
    \/ Heartbeat(c)
    \/ \E phase \in Phases \ {"unspecified"} : Progress(c, phase)
    \/ \E state \in Terminal : Finish(c, state)
    \/ \E wait \in 1..WaitTicks : RetryLater(c, wait)
    \/ BeginEffect(c)
    \/ CommitEffect(c)
    \/ LetGo(c)

RecoverSome(r, k) ==
    \E plan \in Plans, wait \in 1..WaitTicks : Recover(r, k, plan, wait)

ServiceStep(r) ==
    \/ \E wait \in 0..WaitTicks : Enqueue(r, wait)
    \/ \E k \in Retry, command \in Command : RetryFailed(r, k, command)
    \/ \E k \in Retry : CancelUnclaimed(r, k)
    \/ \E k \in Retry : RecoverSome(r, k)

TaskNext ==
    \/ \E c \in Consumer : ConsumerStep(c)
    \/ \E r \in Root : ServiceStep(r)
    \/ Tick

TaskSpec == TaskInit /\ [][TaskNext]_taskVars

\* PostgreSQL's clock runs, and the scheduler's scan hints every expired run
\* again until some consumer's recovery pass commits.
TaskFair ==
    /\ WF_taskVars(Tick)
    /\ \A r \in Root, k \in Retry : WF_taskVars(RecoverSome(r, k))

TaskFairSpec == TaskSpec /\ TaskFair

-----------------------------------------------------------------------------
(* Properties.                                                             *)

\* Type invariant, with the row constraints of the TaskRun table: a run holds
\* a worker and a lease only as task_claim_shape allows, and its fence is
\* never behind its attempt (task_fence_bounds).
TaskTypeOK ==
    /\ run \in [Root -> [Retry -> Run]]
    /\ held \in [Consumer -> Claims \cup {NoClaim}]
    /\ open \in [Consumer -> BOOLEAN]
    /\ effects \in [Root -> [Retry ->
                        SUBSET [fence : Nat, worker : Consumer]]]
    /\ \A r \in Root, k \in Retry :
          /\ run[r][k].attempt <= run[r][k].fence
          /\ run[r][k].state = "running" => run[r][k].worker # NoConsumer
          /\ run[r][k].state # "running" => run[r][k].lease = 0

\* task_one_nonterminal: an explicit retry never runs beside an earlier run of
\* its chain; every run that has a successor has failed, for good.
OnlyLatestLives ==
    \A r \in Root : \A j, k \in Retry :
        j < k /\ run[r][k].state # "absent" => run[r][j].state = "failed"

\* task_retry_command: one Administrator command creates one run, however
\* often it is replayed and whatever happened to that run meanwhile.
CommandBindsOnce ==
    \A r \in Root : \A j, k \in Retry :
        /\ run[r][j].command # NoCommand
        /\ run[r][j].command = run[r][k].command
        => j = k

\* A fence identifies one worker for ever: the durable effects recorded under
\* one fencing token of a run all come from the consumer that claimed it.
OneOwnerPerFence ==
    \A r \in Root, k \in Retry : \A e, f \in effects[r][k] :
        e.fence = f.fence => e.worker = f.worker

\* An effect commits only while its row still is running under the fence it
\* was started with, even when the lease ran out while the transaction was
\* open: recovery, cancellation and a new claim wait for its root lock.
EffectsOwned ==
    \A r \in Root, k \in Retry : \A e \in effects'[r][k] \ effects[r][k] :
        /\ run[r][k].state = "running"
        /\ run[r][k].fence = e.fence
        /\ run[r][k].worker = e.worker

EffectsFenced == [][EffectsOwned]_taskVars

\* A finished run is never reopened, moved or reclaimed, and no fencing token
\* is ever issued twice (stewardship_task_state_v1).
RowsStand ==
    \A r \in Root, k \in Retry :
        /\ run[r][k].state \in Terminal => run'[r][k].state = run[r][k].state
        /\ run[r][k].fence <= run'[r][k].fence
        /\ run'[r][k].worker # run[r][k].worker
              => run[r][k].fence < run'[r][k].fence

HistoryStands == [][RowsStand]_taskVars

\* A claim whose consumer died or gave up does not hold its task for ever:
\* the lease runs out and recovery fences the run.
Orphaned(r, k) ==
    /\ run[r][k].state = "running"
    /\ \A c \in Consumer :
          held[c] # [root |-> r, retry |-> k, fence |-> run[r][k].fence]

OrphanRecovered ==
    \A r \in Root, k \in Retry : []<>~Orphaned(r, k)

\* A chain of explicit retries is sound: its runs follow one another, and no
\* command, however often it is replayed, made two of them.
ChainsSound == OnlyLatestLives /\ CommandBindsOnce
=============================================================================
