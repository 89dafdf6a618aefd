----------------------------- MODULE CronProofs -----------------------------
(***************************************************************************)
(* Proofs about the cron runner's lock, for any number of invocations, any *)
(* stale_after and each stale_action, and about its jobs, for any number   *)
(* of jobs and signals.                                                    *)
(*                                                                         *)
(* The lock's invariant is shown twice: for CronLock alone and, in the     *)
(* second half, for the runner with its jobs, because a signal moves a     *)
(* runner that is giving its lock back to the teardown of its jobs, which  *)
(* is no step of CronLock.  To it JobsInv adds where a child can be alive: *)
(* only the job a runner is at, only while it runs or after it was killed, *)
(* and then behind a lock file that nobody else may take away until it is  *)
(* stale; the runners interrupted between Popen and tracking (adrift) are  *)
(* the exception.                                                          *)
(***************************************************************************)
EXTENDS CronJobs, TLAPS

-----------------------------------------------------------------------------
(* The lock: its inductive invariant.                                      *)

\* No stale lock can be removed: none is stale, or none may be removed.
Calm == StaleAction # "remove-and-continue" \/ Stale = {}

\* A runner recovers only a stale lock, and only when it may.
RecoveryIsDue ==
    \A r \in Runner :
        /\ pc[r] \in {"confirming", "removing", "reopening"} => ~Calm
        /\ pc[r] \in {"confirming", "removing"} => seen[r] \in Stale

\* Between the second read and the unlink the path can only lose the file
\* that was read: whoever would create another needs the flock.
RemovesWhatItSaw ==
    \A r \in Runner : pc[r] = "removing" => creator \in {seen[r], NoRunner}

\* As long as nothing can be recovered, whoever created the file and has not
\* released it finds it at the path.
HolderHasFile ==
    Calm => \A r \in Runner :
        /\ pc[r] \in {"writing", "running", "releasing", "unlinking"} =>
               creator = r
        /\ pc[r] \in {"running", "releasing", "unlinking"} => written

LockInv ==
    /\ LockTypeOK
    /\ RecoveryIsDue
    /\ RemovesWhatItSaw
    /\ HolderHasFile

-----------------------------------------------------------------------------
(* Stale locks stay stale.                                                 *)

\* Ages only grow, so a lock that is_lock_stale once called stale stays so.
LEMMA StaleForGood ==
    ASSUME LockTypeOK, [LockNext]_lockVars
    PROVE  /\ Stale \subseteq Stale'
           /\ Calm' => Calm
<1>1. ASSUME NEW r \in Runner
      PROVE  age[r] \in Nat /\ age'[r] \in Nat /\ age'[r] >= age[r]
  <2>1. age[r] \in Nat
    BY LockAssumption DEF LockTypeOK
  <2>2. CASE ClockTick
    BY <2>1, <2>2 DEF ClockTick
  <2>3. CASE age' = age
    BY <2>1, <2>3
  <2>4. QED
    BY <2>2, <2>3 DEF LockNext, RunnerStep, lockVars, Start, EnterGuard, Open,
       Inspect, Confirm, Remove, Reopen, Write, AcquireFails, FinishJobs,
       CheckToken, Release, Crash
<1>2. Stale \subseteq Stale'
  <2> SUFFICES ASSUME NEW r \in Runner, age[r] > StaleAfter
               PROVE  age'[r] > StaleAfter
    BY DEF Stale
  <2> QED
    BY <1>1, LockAssumption
<1>3. QED
  BY <1>2 DEF Calm

-----------------------------------------------------------------------------
(* Type correctness.                                                       *)

\* Every step keeps the types and hands the flock over properly.
LEMMA TypeStep ==
    ASSUME LockTypeOK, [LockNext]_lockVars
    PROVE  LockTypeOK'
<1> USE LockAssumption
<1>1. ASSUME NEW r \in Runner, RunnerStep(r)
      PROVE  LockTypeOK'
  <2>1. CASE Start(r)
    BY <2>1 DEF LockTypeOK, Start, Goto, Pc, Guarded
  <2>2. CASE EnterGuard(r)
    BY <2>2 DEF LockTypeOK, EnterGuard, Goto, Pc, Guarded
  <2>3. CASE Open(r)
    BY <2>3 DEF LockTypeOK, Open, CreateFile, Goto, Pc, Guarded
  <2>4. CASE Inspect(r)
    BY <2>4 DEF LockTypeOK, Inspect, Refuse, Token, Goto, Pc, Guarded
  <2>5. CASE Confirm(r)
    BY <2>5 DEF LockTypeOK, Confirm, Refuse, Goto, Pc, Guarded
  <2>6. CASE Remove(r)
    BY <2>6 DEF LockTypeOK, Remove, Unlinked, Goto, Pc, Guarded
  <2>7. CASE Reopen(r)
    BY <2>7 DEF LockTypeOK, Reopen, CreateFile, Refuse, Goto, Pc, Guarded
  <2>8. CASE Write(r)
    BY <2>8 DEF LockTypeOK, Write, Unlinked, Goto, Pc, Guarded
  <2>9. CASE AcquireFails(r)
    BY <2>9 DEF LockTypeOK, AcquireFails, Goto, Pc, Guarded
  <2>10. CASE FinishJobs(r)
    BY <2>10 DEF LockTypeOK, FinishJobs, Goto, Pc, Guarded
  <2>11. CASE CheckToken(r)
    BY <2>11 DEF LockTypeOK, CheckToken, Goto, Pc, Guarded
  <2>12. CASE Release(r)
    BY <2>12 DEF LockTypeOK, Release, Unlinked, Goto, Pc, Guarded
  <2>13. CASE Crash(r)
    BY <2>13 DEF LockTypeOK, Crash, Goto, Pc, Guarded
  <2>14. QED
    BY <1>1, <2>1, <2>2, <2>3, <2>4, <2>5, <2>6, <2>7, <2>8, <2>9, <2>10,
       <2>11, <2>12, <2>13 DEF RunnerStep
<1>2. CASE ClockTick
  BY <1>2 DEF LockTypeOK, ClockTick, Stale
<1>3. CASE UNCHANGED lockVars
  BY <1>3 DEF LockTypeOK, lockVars
<1>4. QED
  BY <1>1, <1>2, <1>3 DEF LockNext

-----------------------------------------------------------------------------
(* The invariant, one conjunct at a time.                                  *)

\* _handle_existing_lock is the only way into recovery, and checks the age.
LEMMA RecoveryIsDueStep ==
    ASSUME LockInv, [LockNext]_lockVars
    PROVE  RecoveryIsDue'
<1> SUFFICES ASSUME NEW r \in Runner
             PROVE  /\ pc'[r] \in {"confirming", "removing", "reopening"} => ~Calm'
                    /\ pc'[r] \in {"confirming", "removing"} => seen'[r] \in Stale'
  BY DEF RecoveryIsDue
<1>1. (Stale \subseteq Stale') /\ (Calm' => Calm)
  BY StaleForGood DEF LockInv
<1>2. CASE Inspect(r)
  BY <1>1, <1>2 DEF LockInv, LockTypeOK, Inspect, Refuse, Goto, Calm
<1>3. CASE Confirm(r)
  BY <1>1, <1>3 DEF LockInv, LockTypeOK, RecoveryIsDue, Confirm, Refuse, Goto
<1>4. CASE Remove(r)
  BY <1>1, <1>4 DEF LockInv, LockTypeOK, RecoveryIsDue, Remove, Goto
<1>5. CASE pc'[r] \notin {"confirming", "removing", "reopening"}
  BY <1>5
<1>6. CASE pc'[r] = pc[r] /\ seen'[r] = seen[r]
  BY <1>1, <1>6 DEF LockInv, RecoveryIsDue
<1>7. QED
  <2>1. CASE UNCHANGED <<pc, seen>>
    BY <1>6, <2>1
  <2>2. ASSUME NEW s \in Runner, RunnerStep(s), s # r
        PROVE  pc'[r] = pc[r] /\ seen'[r] = seen[r]
    BY <2>2 DEF LockInv, LockTypeOK, RunnerStep, Start, EnterGuard, Open,
       Inspect, Confirm, Remove, Reopen, Write, AcquireFails, FinishJobs,
       CheckToken, Release, Crash, CreateFile, Refuse, Goto
  <2>3. ASSUME RunnerStep(r)
        PROVE  \/ Inspect(r) \/ Confirm(r) \/ Remove(r)
               \/ pc'[r] \notin {"confirming", "removing", "reopening"}
    BY <2>3 DEF LockInv, LockTypeOK, RunnerStep, Start, EnterGuard, Open,
       Reopen, Write, AcquireFails, FinishJobs, CheckToken, Release, Crash,
       CreateFile, Refuse, Goto
  <2>4. QED
    BY <1>2, <1>3, <1>4, <1>5, <1>6, <2>1, <2>2, <2>3
       DEF LockNext, lockVars, ClockTick

\* While a runner is about to unlink, only releases can change the path.
LEMMA RemovesWhatItSawStep ==
    ASSUME LockInv, [LockNext]_lockVars
    PROVE  RemovesWhatItSaw'
<1> SUFFICES ASSUME NEW r \in Runner, pc'[r] = "removing"
             PROVE  creator' \in {seen'[r], NoRunner}
  BY DEF RemovesWhatItSaw
<1>1. CASE pc[r] = "removing"
  <2>1. guard = r /\ creator \in {seen[r], NoRunner}
    BY <1>1 DEF LockInv, LockTypeOK, RemovesWhatItSaw, Guarded
  <2>2. ASSUME NEW s \in Runner, RunnerStep(s)
        PROVE  s # r \/ Remove(s) \/ AcquireFails(s) \/ Crash(s)
    BY <1>1, <2>2 DEF RunnerStep, Start, EnterGuard, Open, Inspect, Confirm,
       Reopen, Write, FinishJobs, CheckToken, Release
  <2>3. ASSUME NEW s \in Runner, RunnerStep(s)
        PROVE  s # r
    BY <2>2, <2>3 DEF LockInv, LockTypeOK, Remove, AcquireFails, Crash, Goto
  <2>4. ASSUME NEW s \in Runner, RunnerStep(s), s # r
        PROVE  creator' \in {creator, NoRunner} /\ seen'[r] = seen[r]
    <3>1. pc[s] \notin Guarded
      BY <2>1, <2>4 DEF LockInv, LockTypeOK
    <3>2. QED
      BY <2>4, <3>1 DEF RunnerStep, Guarded, Start, EnterGuard, Open, Inspect,
         Confirm, Remove, Reopen, Write, AcquireFails, FinishJobs, CheckToken,
         Release, Crash, Unlinked
  <2>5. QED
    BY <2>1, <2>3, <2>4 DEF LockNext, ClockTick, lockVars
<1>2. CASE pc[r] # "removing"
  <2>1. ASSUME NEW s \in Runner, RunnerStep(s)
        PROVE  s = r /\ Confirm(r)
    BY <1>2, <2>1 DEF LockInv, LockTypeOK, RunnerStep, Start, EnterGuard,
       Open, Inspect, Confirm, Remove, Reopen, Write, AcquireFails,
       FinishJobs, CheckToken, Release, Crash, CreateFile, Refuse, Goto
  <2>2. CASE Confirm(r)
    <3>1. Token = seen[r] /\ seen[r] \in Runner
      BY <2>2 DEF LockInv, LockTypeOK, RecoveryIsDue, Stale, Confirm, Refuse,
         Goto
    <3>2. QED
      BY <2>2, <3>1, LockAssumption DEF Token, Confirm
  <2>3. QED
    BY <1>2, <2>1, <2>2 DEF LockNext, ClockTick, lockVars
<1>3. QED
  BY <1>1, <1>2

\* Without recovery, only a holder unlinks, and only its own file.
LEMMA HolderHasFileStep ==
    ASSUME LockInv, [LockNext]_lockVars
    PROVE  HolderHasFile'
<1> DEFINE Holds == {"writing", "running", "releasing", "unlinking"}
           Wrote == {"running", "releasing", "unlinking"}
<1> SUFFICES ASSUME Calm'
             PROVE  \A r \in Runner : /\ pc'[r] \in Holds => creator' = r
                                      /\ pc'[r] \in Wrote => written'
  BY DEF HolderHasFile
<1> USE LockAssumption
<1>1. Calm
  BY StaleForGood DEF LockInv
<1>2. \A r \in Runner : /\ pc[r] \in Holds => creator = r
                        /\ pc[r] \in Wrote => written
                        /\ pc[r] \notin {"confirming", "removing", "reopening"}
  BY <1>1 DEF LockInv, HolderHasFile, RecoveryIsDue
<1>3. ASSUME NEW s \in Runner, RunnerStep(s)
      PROVE  \A r \in Runner : /\ pc'[r] \in Holds => creator' = r
                               /\ pc'[r] \in Wrote => written'
  <2> USE <1>2 DEF LockInv, LockTypeOK, Goto
  <2>1. CASE Start(s) \/ EnterGuard(s)
    BY <2>1 DEF Start, EnterGuard
  <2>2. CASE Open(s)
    BY <2>2 DEF Open, CreateFile
  <2>3. CASE Inspect(s)
    BY <2>3 DEF Inspect, Refuse
  <2>4. CASE Confirm(s) \/ Remove(s) \/ Reopen(s)
    BY <2>4 DEF Confirm, Remove, Reopen
  <2>5. CASE Write(s)
    BY <2>5 DEF Write, Unlinked
  <2>6. CASE AcquireFails(s) \/ FinishJobs(s) \/ CheckToken(s) \/ Crash(s)
    BY <2>6 DEF AcquireFails, FinishJobs, CheckToken, Crash
  <2>7. CASE Release(s)
    BY <2>7 DEF Release, Unlinked
  <2>8. QED
    BY <1>3, <2>1, <2>2, <2>3, <2>4, <2>5, <2>6, <2>7 DEF RunnerStep
<1>4. CASE UNCHANGED <<pc, creator, written>>
  BY <1>2, <1>4
<1>5. QED
  BY <1>3, <1>4 DEF LockNext, ClockTick, lockVars

\* Nobody has the lock at first.
LEMMA LockInitHolds ==
    ASSUME LockInit
    PROVE  LockInv
<1>1. LockTypeOK
  <2>1. age \in [Runner -> 0..(StaleAfter + 1)]
    BY LockAssumption DEF LockInit
  <2>2. pc \in [Runner -> Pc] /\ seen \in [Runner -> Runner \cup {NoRunner}]
    BY DEF LockInit, Pc
  <2>3. \A r \in Runner : pc[r] \in Guarded <=> guard = r
    BY LockAssumption DEF LockInit, Guarded
  <2>4. QED
    BY <2>1, <2>2, <2>3 DEF LockInit, LockTypeOK
<1>2. \A r \in Runner : pc[r] = "idle"
  BY DEF LockInit
<1>3. QED
  BY <1>1, <1>2 DEF LockInv, RecoveryIsDue, RemovesWhatItSaw, HolderHasFile

\* The lock's inductive invariant holds in every reachable state.
THEOREM LockInvariant == LockSpec => []LockInv
<1>1. LockInit => LockInv
  BY LockInitHolds
<1>2. LockInv /\ [LockNext]_lockVars => LockInv'
  BY TypeStep, RecoveryIsDueStep, RemovesWhatItSawStep, HolderHasFileStep
     DEF LockInv
<1>3. QED
  BY <1>1, <1>2, PTL DEF LockSpec

-----------------------------------------------------------------------------
(* What the lock promises.                                                 *)

\* The invariant gives what the lock is for: while nothing can be recovered
\* two holders would both own the one file, and recovery unlinks what it saw
\* stale.
LEMMA LockInvIsSafe ==
    ASSUME LockInv
    PROVE  LockSafe
<1>1. OverlapNeedsStaleRunner
  <2> SUFFICES ASSUME NEW r \in Running, NEW s \in Running, r # s
               PROVE  ~Calm
    BY DEF OverlapNeedsStaleRunner, Calm
  <2> QED
    BY DEF LockInv, HolderHasFile, Running
<1>2. RecoveryRemovesStale
  BY DEF LockInv, RecoveryIsDue, RemovesWhatItSaw, RecoveryRemovesStale
<1>3. QED
  BY <1>1, <1>2 DEF LockInv, LockSafe

\* Every behaviour of the lock is type correct with the flock held by the
\* runner inside acquire; runners overlap only after some invocation outlived
\* stale_after under remove-and-continue; and stale recovery unlinks only a
\* stale lock, whoever releases or crashes meanwhile.  However many
\* invocations there are.
THEOREM LockIsSafe == LockSpec => []LockSafe
<1>1. LockInv => LockSafe
  BY LockInvIsSafe
<1>2. QED
  BY <1>1, LockInvariant, PTL

-----------------------------------------------------------------------------
(* The jobs: their inductive invariant.                                    *)

\* Before a runner has its lock.
Early == {"idle", "waiting"} \cup Guarded

\* Where runner r stands in its jobs.
RunOK(r) ==
    /\ pc[r] \in Early => /\ stage[r] = "choosing" /\ ~tracked[r]
                          /\ ~Working(r)
    /\ pc[r] = "running" => (tracked[r] <=> stage[r] \notin {"choosing", "spawned"})
    /\ pc[r] = "running" /\ stage[r] = "choosing" => ~Working(r)
    /\ stage[r] = "spawned" => job[r] > 0
    /\ r \notin adrift /\ Working(r) => pc[r] \in {"running", "dead"}

\* The jobs of runner r so far.
TurnsOK(r) ==
    /\ \A j \in Job : leader[r][j] = "alive" => j = job[r]
    /\ \A j \in Job : j > job[r] => leader[r][j] = "none"
    /\ r \in StopOnFirst => \A j \in Job : j < job[r] => result[r][j] = "ok"

\* As long as nothing can be recovered, the file of a runner with a child
\* alive is at the lock path, also after the runner was killed.
FileKept ==
    Calm => \A r \in Runner : r \notin adrift /\ Working(r) => creator = r

JobsInv ==
    /\ LockInv
    /\ JobsTypeOK
    /\ \A r \in Runner : RunOK(r) /\ TurnsOK(r)
    /\ FileKept

-----------------------------------------------------------------------------
(* The lock's invariant under the composed steps.                          *)

\* A step of the lock keeps its invariant, and what is stale stays stale.
LEMMA LockHolds ==
    ASSUME LockInv, [LockNext]_lockVars
    PROVE  LockInv' /\ (Calm' => Calm)
  <1>1. LockTypeOK'
    BY TypeStep DEF LockInv
  <1>2. RecoveryIsDue' /\ RemovesWhatItSaw' /\ HolderHasFile'
    BY RecoveryIsDueStep, RemovesWhatItSawStep, HolderHasFileStep
  <1>3. Calm' => Calm
    BY StaleForGood DEF LockInv
  <1> QED BY <1>1, <1>2, <1>3 DEF LockInv

\* So does a signal, which sends a runner with its lock back to the teardown
\* of its jobs or on to the release.
LEMMA SignalKeepsLock ==
    ASSUME LockInv, NEW r \in Runner, Signal(r)
    PROVE  LockInv' /\ (Calm' => Calm)
  <1>1. PICK place \in {"running", "releasing"} : pc' = [pc EXCEPT ![r] = place]
    BY DEF Signal, Interrupted, Goto
  <1>2. /\ pc[r] \in {"running", "releasing", "unlinking"}
        /\ UNCHANGED <<age, guard, seen, creator, written>>
    BY DEF Signal, Interrupted
  <1>3. /\ pc'[r] \in {"running", "releasing"}
        /\ \A s \in Runner : s # r => pc'[s] = pc[s]
    BY <1>1 DEF LockInv, LockTypeOK
  <1>4. LockTypeOK'
    <2>1. pc' \in [Runner -> Pc]
      BY <1>1 DEF LockInv, LockTypeOK, Pc
    <2>2. \A s \in Runner : pc'[s] \in Guarded <=> guard' = s
      BY <1>2, <1>3 DEF LockInv, LockTypeOK, Guarded
    <2> QED BY <1>2, <2>1, <2>2 DEF LockInv, LockTypeOK
  <1>5. (Calm' <=> Calm) /\ Stale' = Stale
    BY <1>2 DEF Calm, Stale
  <1>6. RecoveryIsDue' /\ RemovesWhatItSaw' /\ HolderHasFile'
    BY <1>2, <1>3, <1>5
       DEF LockInv, RecoveryIsDue, RemovesWhatItSaw, HolderHasFile
  <1> QED BY <1>4, <1>5, <1>6 DEF LockInv

-----------------------------------------------------------------------------
(* Frames.                                                                 *)

\* Nothing of runner s changes.
Same(s) ==
    /\ pc'[s] = pc[s] /\ stage'[s] = stage[s] /\ job'[s] = job[s]
    /\ tracked'[s] = tracked[s] /\ result'[s] = result[s]
    /\ leader'[s] = leader[s]
    /\ s \in adrift' <=> s \in adrift

LEMMA SameOK ==
    ASSUME NEW s \in Runner, RunOK(s), TurnsOK(s), Same(s)
    PROVE  /\ RunOK(s)' /\ TurnsOK(s)'
           /\ Working(s)' <=> Working(s)
  <1>1. Working(s)' <=> Working(s)
    BY DEF Same, Working
  <1> QED BY <1>1 DEF Same, RunOK, TurnsOK

\* No child is born, and the lock file stays as it is.
LEMMA FileFrame ==
    ASSUME FileKept, Calm' => Calm, creator' = creator,
           \A r \in Runner :
              r \notin adrift' /\ Working(r)' => r \notin adrift /\ Working(r)
    PROVE  FileKept'
  BY DEF FileKept

\* A step of runner r's jobs that ends no lock and starts no child.
LEMMA JobFrame ==
    ASSUME JobsInv, NEW r \in Runner, LockInv', Calm' => Calm, JobsTypeOK',
           creator' = creator, RunOK(r)', TurnsOK(r)',
           r \notin adrift' /\ Working(r)' => r \notin adrift /\ Working(r),
           \A s \in Runner : s # r => Same(s)
    PROVE  JobsInv'
  <1>1. ASSUME NEW s \in Runner, s # r
        PROVE  /\ RunOK(s)' /\ TurnsOK(s)'
               /\ Working(s)' <=> Working(s)
               /\ s \in adrift' <=> s \in adrift
    BY <1>1, SameOK DEF JobsInv, Same
  <1>2. FileKept'
    BY <1>1, FileFrame DEF JobsInv
  <1> QED BY <1>1, <1>2 DEF JobsInv

-----------------------------------------------------------------------------
(* The runner's steps through its jobs.                                    *)

\* A child is the current job's, so when that one has ended none is alive.
LEMMA NoneLeft ==
    ASSUME JobsInv, NEW r \in Runner, leader[r][job[r]] # "alive"
    PROVE  ~Working(r)
  BY DEF JobsInv, TurnsOK, Working

\* What a running runner knows of itself.
LEMMA RunKnown ==
    ASSUME JobsInv, NEW r \in Runner, pc[r] = "running"
    PROVE  /\ tracked[r] <=> stage[r] \notin {"choosing", "spawned"}
           /\ stage[r] \notin {"choosing"} => job[r] > 0
           /\ job[r] \in 0..NumJobs /\ RunOK(r) /\ TurnsOK(r)
  <1>1. RunOK(r) /\ TurnsOK(r) /\ JobsTypeOK
    BY DEF JobsInv
  <1>2. tracked[r] <=> stage[r] \notin {"choosing", "spawned"}
    BY <1>1 DEF RunOK
  <1>3. tracked[r] => job[r] > 0
    BY <1>1 DEF JobsTypeOK
  <1>4. stage[r] = "spawned" => job[r] > 0
    BY <1>1 DEF RunOK
  <1> QED BY <1>1, <1>2, <1>3, <1>4 DEF JobsTypeOK

\* A step from one place of the current job to another.
LEMMA StageHolds ==
    ASSUME JobsInv, NEW r \in Runner, pc[r] = "running", stage[r] # "choosing",
           NEW place \in {"waiting", "stopping", "grace", "collecting"},
           Move(r, place), UNCHANGED <<lockVars, job, result, signalPart>>,
           tracked' = [tracked EXCEPT ![r] = TRUE] \/ (tracked' = tracked /\ tracked[r]),
           leader' \in [Runner -> [Job -> {"none", "alive", "ok", "failed"}]],
           \A s \in Runner : s # r => leader'[s] = leader[s],
           \A j \in Job : leader'[r][j] = leader[r][j]
                          \/ (leader[r][j] = "alive" /\ leader'[r][j] # "alive")
    PROVE  JobsInv'
  <1>1. LockInv' /\ (Calm' => Calm)
    BY LockHolds DEF JobsInv, lockVars
  <1>2. /\ pc' = pc /\ creator' = creator /\ job' = job /\ result' = result
        /\ inHandler' = inHandler /\ reaping' = reaping /\ signals' = signals
        /\ adrift' = adrift
    BY DEF lockVars, signalPart
  <1>3. JobsTypeOK
    BY DEF JobsInv
  <1>4. /\ stage' \in [Runner -> Stages] /\ stage'[r] = place
        /\ \A s \in Runner : s # r => stage'[s] = stage[s]
    BY <1>3 DEF JobsTypeOK, Move, Stages
  <1>5. /\ tracked' \in [Runner -> BOOLEAN] /\ tracked'[r]
        /\ \A s \in Runner : s # r => tracked'[s] = tracked[s]
    BY <1>3 DEF JobsTypeOK
  <1>6. job[r] > 0 /\ RunOK(r) /\ TurnsOK(r)
    BY RunKnown
  <1>7. JobsTypeOK'
    BY <1>2, <1>3, <1>4, <1>5, <1>6 DEF JobsTypeOK
  <1>8. Working(r)' => Working(r)
    BY DEF Working
  <1>9. RunOK(r)'
    BY <1>2, <1>4, <1>5, <1>6, <1>8 DEF RunOK, Early, Guarded
  <1>10. TurnsOK(r)'
    BY <1>2, <1>6 DEF TurnsOK
  <1>11. \A s \in Runner : s # r => Same(s)
    BY <1>2, <1>4, <1>5 DEF Same
  <1> QED BY <1>1, <1>2, <1>7, <1>8, <1>9, <1>10, <1>11, JobFrame

\* run_job returns after its child has ended.
LEMMA ReturnHolds ==
    ASSUME JobsInv, NEW r \in Runner, pc[r] = "running",
           stage[r] # "choosing", leader[r][job[r]] # "alive",
           NEW outcome \in {"none", "ok", "failed", "timeout"},
           JobReturns(r, outcome), UNCHANGED <<job, leader, signalPart>>
    PROVE  JobsInv'
  <1>1. LockInv' /\ (Calm' => Calm)
    BY LockHolds DEF JobsInv, JobReturns, lockVars
  <1>2. /\ pc' = pc /\ creator' = creator /\ job' = job /\ leader' = leader
        /\ inHandler' = inHandler /\ reaping' = reaping /\ signals' = signals
        /\ adrift' = adrift
    BY DEF JobReturns, lockVars, signalPart
  <1>3. JobsTypeOK
    BY DEF JobsInv
  <1>4. /\ stage' \in [Runner -> Stages] /\ stage'[r] = "choosing"
        /\ \A s \in Runner : s # r => stage'[s] = stage[s]
        /\ tracked' \in [Runner -> BOOLEAN] /\ ~tracked'[r]
        /\ \A s \in Runner : s # r => tracked'[s] = tracked[s]
    BY <1>3 DEF JobsTypeOK, JobReturns, Move, Stages
  <1>5. job[r] \in 0..NumJobs /\ job[r] > 0 /\ TurnsOK(r)
    BY RunKnown
  <1>6. /\ result' \in [Runner -> [Job -> {"none", "ok", "failed", "timeout"}]]
        /\ \A j \in Job : j # job[r] => result'[r][j] = result[r][j]
        /\ \A s \in Runner : s # r => result'[s] = result[s]
    BY <1>3, <1>5 DEF JobsTypeOK, JobReturns, Report, Job
  <1>7. JobsTypeOK'
    BY <1>2, <1>3, <1>4, <1>6 DEF JobsTypeOK
  <1>8. ~Working(r) /\ ~Working(r)'
    BY <1>2, NoneLeft DEF Working
  <1>9. RunOK(r)'
    BY <1>2, <1>4, <1>8 DEF RunOK, Early, Guarded
  <1>10. \A j \in Job : j < job[r] => j # job[r]
    BY <1>5 DEF Job
  <1>11. TurnsOK(r)'
    BY <1>2, <1>5, <1>6, <1>10 DEF TurnsOK
  <1>12. \A s \in Runner : s # r => Same(s)
    BY <1>2, <1>4, <1>6 DEF Same
  <1> QED BY <1>1, <1>2, <1>7, <1>8, <1>9, <1>11, <1>12, JobFrame

\* The runner goes on to the release of its lock with no child alive.
LEMMA FinishHolds ==
    ASSUME JobsInv, NEW r \in Runner, FinishJobs(r), ~Working(r),
           UNCHANGED jobVars
    PROVE  JobsInv'
  <1>1. LockInv' /\ (Calm' => Calm)
    BY LockHolds DEF JobsInv, LockNext, RunnerStep
  <1>2. /\ creator' = creator /\ stage' = stage /\ job' = job
        /\ tracked' = tracked /\ result' = result /\ leader' = leader
        /\ adrift' = adrift
    BY DEF FinishJobs, jobVars
  <1>3. pc'[r] = "releasing" /\ \A s \in Runner : s # r => pc'[s] = pc[s]
    BY DEF JobsInv, LockInv, LockTypeOK, FinishJobs, Goto
  <1>4. JobsTypeOK'
    BY DEF JobsInv, JobsTypeOK, jobVars
  <1>5. ~Working(r)'
    BY <1>2 DEF Working
  <1>6. RunOK(r)'
    BY <1>2, <1>3, <1>5 DEF JobsInv, RunOK, Early, Guarded
  <1>7. TurnsOK(r)'
    BY <1>2 DEF JobsInv, TurnsOK
  <1>8. \A s \in Runner : s # r => Same(s)
    BY <1>2, <1>3 DEF Same
  <1> QED BY <1>1, <1>2, <1>4, <1>5, <1>6, <1>7, <1>8, JobFrame

\* _terminate_process returns, to run_job or to the signal handler.
LEMMA TornDownHolds ==
    ASSUME JobsInv, NEW r \in Runner, pc[r] = "running",
           stage[r] # "choosing", leader[r][job[r]] # "alive", TornDown(r),
           UNCHANGED <<job, leader, signalPart>>
    PROVE  JobsInv'
  <1>1. CASE JobReturns(r, "timeout")
    BY <1>1, ReturnHolds
  <1>2. CASE FinishJobs(r) /\ UNCHANGED <<stage, result, tracked>>
    <2>1. UNCHANGED jobVars
      BY <1>2 DEF jobVars, signalPart
    <2> QED BY <1>2, <2>1, NoneLeft, FinishHolds
  <1> QED BY <1>1, <1>2 DEF TornDown

\* The next job may start: the runner knows its number, and with
\* stop_on_first_failure every job so far has succeeded.
LEMMA NextJob ==
    ASSUME JobsInv, NEW r \in Runner, At(r, "choosing"), ~Stops(r)
    PROVE  /\ job[r] \in 0..NumJobs /\ job[r] + 1 \in Job
           /\ ~tracked[r] /\ ~Working(r)
           /\ r \in StopOnFirst =>
                 \A j \in Job : j < job[r] + 1 => result[r][j] = "ok"
  <1>1. /\ pc[r] = "running" /\ stage[r] = "choosing" /\ job[r] # NumJobs
        /\ r \in StopOnFirst /\ job[r] > 0 => result[r][job[r]] = "ok"
    BY DEF At, Stops
  <1>2. job[r] \in 0..NumJobs /\ RunOK(r) /\ TurnsOK(r)
    BY <1>1, RunKnown
  <1>3. job[r] + 1 \in Job
    BY <1>1, <1>2, JobsAssumption DEF Job
  <1>4. ~tracked[r] /\ ~Working(r)
    BY <1>1, <1>2 DEF RunOK
  <1>5. \A j \in Job : j < job[r] + 1 => j < job[r] \/ (j = job[r] /\ job[r] > 0)
    BY <1>2 DEF Job
  <1> QED BY <1>1, <1>2, <1>3, <1>4, <1>5 DEF TurnsOK

\* Popen starts the next job's child, behind the runner's own lock file.
LEMMA SpawnHolds ==
    ASSUME JobsInv, NEW r \in Runner, Spawn(r)
    PROVE  JobsInv'
  <1> DEFINE n == job[r] + 1
  <1>1. /\ pc[r] = "running" /\ At(r, "choosing") /\ ~Stops(r)
        /\ job' = [job EXCEPT ![r] = n]
        /\ leader' = [leader EXCEPT ![r][n] = "alive"]
        /\ Move(r, "spawned")
        /\ UNCHANGED <<lockVars, tracked, result, signalPart>>
    BY DEF Spawn, At
  <1>2. /\ pc' = pc /\ creator' = creator /\ tracked' = tracked
        /\ result' = result /\ adrift' = adrift
        /\ inHandler' = inHandler /\ reaping' = reaping /\ signals' = signals
    BY <1>1 DEF lockVars, signalPart
  <1>3. JobsTypeOK /\ TurnsOK(r)
    BY DEF JobsInv
  <1>4. /\ job[r] \in 0..NumJobs /\ n \in Job /\ ~tracked[r] /\ ~Working(r)
        /\ r \in StopOnFirst => \A j \in Job : j < n => result[r][j] = "ok"
    BY <1>1, NextJob
  <1>5. n \in 0..NumJobs /\ n > 0 /\ \A j \in Job : j > n => j > job[r] /\ j # n
    BY <1>4 DEF Job
  <1> HIDE DEF n
  <1>6. /\ job' \in [Runner -> 0..NumJobs] /\ job'[r] = n
        /\ \A s \in Runner : s # r => job'[s] = job[s]
    BY <1>1, <1>3, <1>5 DEF JobsTypeOK
  <1>7. /\ leader' \in [Runner -> [Job -> {"none", "alive", "ok", "failed"}]]
        /\ leader'[r][n] = "alive"
        /\ \A j \in Job : j # n => leader'[r][j] = leader[r][j]
        /\ \A s \in Runner : s # r => leader'[s] = leader[s]
    BY <1>1, <1>3, <1>4 DEF JobsTypeOK
  <1>8. /\ stage' \in [Runner -> Stages] /\ stage'[r] = "spawned"
        /\ \A s \in Runner : s # r => stage'[s] = stage[s]
    BY <1>1, <1>3 DEF JobsTypeOK, Move, Stages
  <1>9. JobsTypeOK'
    BY <1>2, <1>3, <1>5, <1>6, <1>7, <1>8 DEF JobsTypeOK
  <1>10. RunOK(r)'
    BY <1>1, <1>2, <1>4, <1>5, <1>6, <1>8 DEF RunOK, Early, Guarded
  <1>11. TurnsOK(r)'
    <2>1. \A j \in Job : leader'[r][j] = "alive" => j = n
      BY <1>4, <1>7 DEF Working
    <2>2. \A j \in Job : j > n => leader'[r][j] = "none"
      BY <1>3, <1>5, <1>7 DEF TurnsOK
    <2> QED BY <1>2, <1>4, <1>6, <2>1, <2>2 DEF TurnsOK
  <1>12. ASSUME NEW s \in Runner, s # r
         PROVE  /\ RunOK(s)' /\ TurnsOK(s)' /\ (Working(s)' <=> Working(s))
    <2>1. Same(s)
      BY <1>2, <1>6, <1>7, <1>8, <1>12 DEF Same
    <2> QED BY <2>1, SameOK DEF JobsInv
  <1>13. LockInv' /\ (Calm' => Calm)
    BY <1>1, LockHolds DEF JobsInv
  <1>14. FileKept'
    <2>1. Calm => creator = r
      BY <1>1 DEF JobsInv, LockInv, HolderHasFile
    <2> QED BY <1>2, <1>12, <1>13, <2>1 DEF JobsInv, FileKept
  <1> QED BY <1>9, <1>10, <1>11, <1>12, <1>13, <1>14 DEF JobsInv

\* Popen fails: the job has failed, and the loop goes on or stops.
LEMMA SpawnFailsHolds ==
    ASSUME JobsInv, NEW r \in Runner, SpawnFails(r)
    PROVE  JobsInv'
  <1> DEFINE n == job[r] + 1
  <1>1. /\ pc[r] = "running" /\ stage[r] = "choosing"
        /\ At(r, "choosing") /\ ~Stops(r)
        /\ job' = [job EXCEPT ![r] = n]
        /\ result' = [result EXCEPT ![r][n] = "failed"]
        /\ UNCHANGED <<lockVars, stage, tracked, leader, signalPart>>
    BY DEF SpawnFails, At
  <1>2. /\ pc' = pc /\ creator' = creator /\ tracked' = tracked
        /\ leader' = leader /\ adrift' = adrift /\ stage' = stage
        /\ inHandler' = inHandler /\ reaping' = reaping /\ signals' = signals
    BY <1>1 DEF lockVars, signalPart
  <1>3. JobsTypeOK /\ TurnsOK(r)
    BY DEF JobsInv
  <1>4. /\ job[r] \in 0..NumJobs /\ n \in Job /\ ~tracked[r] /\ ~Working(r)
        /\ r \in StopOnFirst => \A j \in Job : j < n => result[r][j] = "ok"
    BY <1>1, NextJob
  <1>5. /\ n \in 0..NumJobs /\ \A j \in Job : j > n => j > job[r]
        /\ \A j \in Job : j < n => j # n
    BY <1>4 DEF Job
  <1> HIDE DEF n
  <1>6. /\ job' \in [Runner -> 0..NumJobs] /\ job'[r] = n
        /\ \A s \in Runner : s # r => job'[s] = job[s]
    BY <1>1, <1>3, <1>5 DEF JobsTypeOK
  <1>7. /\ result' \in [Runner -> [Job -> {"none", "ok", "failed", "timeout"}]]
        /\ \A j \in Job : j # n => result'[r][j] = result[r][j]
        /\ \A s \in Runner : s # r => result'[s] = result[s]
    BY <1>1, <1>3, <1>4 DEF JobsTypeOK
  <1>8. ~Working(r)'
    BY <1>2, <1>4 DEF Working
  <1>9. JobsTypeOK'
    BY <1>2, <1>3, <1>4, <1>6, <1>7 DEF JobsTypeOK
  <1>10. RunOK(r)'
    BY <1>1, <1>2, <1>4, <1>8 DEF RunOK, Early, Guarded
  <1>11. TurnsOK(r)'
    <2>1. \A j \in Job : leader'[r][j] # "alive"
      BY <1>8 DEF Working
    <2> QED BY <1>2, <1>3, <1>4, <1>5, <1>6, <1>7, <2>1 DEF TurnsOK
  <1>12. \A s \in Runner : s # r => Same(s)
    BY <1>2, <1>6, <1>7 DEF Same
  <1>13. LockInv' /\ (Calm' => Calm)
    BY <1>1, LockHolds DEF JobsInv
  <1> QED BY <1>2, <1>8, <1>9, <1>10, <1>11, <1>12, <1>13, JobFrame

\* Every step of run_jobs, run_job and _terminate_process.
LEMMA JobStepHolds ==
    ASSUME JobsInv, NEW r \in Runner, JobStep(r)
    PROVE  JobsInv'
  <1>1. JobsTypeOK /\ leader \in [Runner -> [Job -> {"none", "alive", "ok", "failed"}]]
    BY DEF JobsInv, JobsTypeOK
  <1>2. CASE Spawn(r) \/ SpawnFails(r)
    BY <1>2, SpawnHolds, SpawnFailsHolds
  <1>3. CASE JobsDone(r)
    <2>1. pc[r] = "running" /\ stage[r] = "choosing" /\ FinishJobs(r)
          /\ UNCHANGED jobVars
      BY <1>3 DEF JobsDone, At
    <2>2. ~Working(r)
      BY <2>1 DEF JobsInv, RunOK
    <2> QED BY <2>1, <2>2, FinishHolds
  <1>4. CASE Track(r)
    <2>1. /\ pc[r] = "running" /\ stage[r] = "spawned"
          /\ tracked' = [tracked EXCEPT ![r] = TRUE] /\ Move(r, "waiting")
          /\ leader' = leader
          /\ UNCHANGED <<lockVars, job, result, signalPart>>
      BY <1>4 DEF Track, At
    <2> QED BY <1>1, <2>1, StageHolds
  <1>5. CASE Waited(r)
    <2>1. /\ pc[r] = "running" /\ stage[r] = "waiting"
          /\ leader[r][job[r]] # "alive" /\ JobReturns(r, leader[r][job[r]])
          /\ UNCHANGED <<job, leader, signalPart>>
      BY <1>5 DEF Waited, At, Reapable
    <2>2. job[r] \in Job
      <3>1. job[r] \in 0..NumJobs /\ job[r] > 0
        BY <2>1, RunKnown
      <3> QED BY <3>1 DEF Job
    <2>3. leader[r][job[r]] \in {"none", "ok", "failed", "timeout"}
      BY <1>1, <2>1, <2>2
    <2> QED BY <2>1, <2>3, ReturnHolds
  <1>6. CASE Expire(r)
    <2>1. /\ pc[r] = "running" /\ stage[r] = "waiting" /\ Move(r, "stopping")
          /\ tracked' = tracked /\ leader' = leader
          /\ UNCHANGED <<lockVars, job, result, signalPart>>
      BY <1>6 DEF Expire, At
    <2>2. tracked[r]
      BY <2>1, RunKnown
    <2> QED BY <1>1, <2>1, <2>2, StageHolds
  <1>7. CASE GraceOver(r)
    <2>1. /\ pc[r] = "running" /\ stage[r] = "grace" /\ Move(r, "collecting")
          /\ tracked' = tracked
          /\ UNCHANGED <<lockVars, job, result, signalPart>>
          /\ leader' = IF leader[r][job[r]] = "alive"
                       THEN [leader EXCEPT ![r][job[r]] = "failed"]
                       ELSE leader
      BY <1>7 DEF GraceOver, At
    <2>2. tracked[r] /\ job[r] \in 0..NumJobs /\ job[r] > 0
      BY <2>1, RunKnown
    <2>3. job[r] \in Job
      BY <2>2 DEF Job
    <2>4. /\ leader' \in [Runner -> [Job -> {"none", "alive", "ok", "failed"}]]
          /\ \A s \in Runner : s # r => leader'[s] = leader[s]
          /\ \A j \in Job : leader'[r][j] = leader[r][j]
                            \/ (leader[r][j] = "alive" /\ leader'[r][j] # "alive")
      BY <1>1, <2>1, <2>3
    <2> QED BY <2>1, <2>2, <2>4, StageHolds
  <1>8. CASE StopGroup(r) /\ ~Reapable(r)
    <2>1. /\ pc[r] = "running" /\ stage[r] = "stopping" /\ Move(r, "grace")
          /\ tracked' = tracked /\ leader' = leader
          /\ UNCHANGED <<lockVars, job, result, signalPart>>
      BY <1>8 DEF StopGroup, At
    <2>2. tracked[r]
      BY <2>1, RunKnown
    <2> QED BY <1>1, <2>1, <2>2, StageHolds
  <1>9. CASE (StopGroup(r) /\ Reapable(r)) \/ GraceEnough(r) \/ Collect(r)
    <2>1. /\ pc[r] = "running" /\ stage[r] # "choosing"
          /\ leader[r][job[r]] # "alive" /\ TornDown(r)
          /\ UNCHANGED <<job, leader, signalPart>>
      BY <1>9 DEF StopGroup, GraceEnough, Collect, At, Reapable
    <2> QED BY <2>1, TornDownHolds
  <1> QED BY <1>2, <1>3, <1>4, <1>5, <1>6, <1>7, <1>8, <1>9 DEF JobStep

-----------------------------------------------------------------------------
(* Signals, deaths and the lock's steps.                                   *)

\* A signal turns a runner to the teardown of its tracked job, or to the
\* release; without a tracked job a child can be alive only adrift.
LEMMA SignalHolds ==
    ASSUME JobsInv, NEW r \in Runner, Signal(r)
    PROVE  JobsInv'
  <1>1. LockInv' /\ (Calm' => Calm)
    BY SignalKeepsLock DEF JobsInv
  <1>2. JobsTypeOK /\ RunOK(r) /\ TurnsOK(r) /\ pc \in [Runner -> Pc]
    BY DEF JobsInv, LockInv, LockTypeOK
  <1>3. /\ pc[r] \in {"running", "releasing", "unlinking"}
        /\ signals[r] < MaxSignals /\ signals' = [signals EXCEPT ![r] = @ + 1]
        /\ inHandler' = [inHandler EXCEPT ![r] = TRUE]
        /\ creator' = creator /\ job' = job /\ tracked' = tracked
        /\ result' = result /\ leader' = leader
    BY DEF Signal, Interrupted
  <1>4. PICK held \in BOOLEAN : reaping' = [reaping EXCEPT ![r] = @ \/ held]
    BY DEF Signal, Interrupted
  <1>5. /\ stage' = [stage EXCEPT ![r] = IF tracked[r] THEN "stopping" ELSE @]
        /\ pc' = [pc EXCEPT ![r] = IF tracked[r] THEN "running" ELSE "releasing"]
        /\ adrift' = IF At(r, "spawned") THEN adrift \cup {r} ELSE adrift
    BY DEF Signal, Interrupted, Goto
  <1>6. /\ \A s \in Runner : s # r => pc'[s] = pc[s] /\ stage'[s] = stage[s]
        /\ tracked[r] => pc'[r] = "running" /\ stage'[r] = "stopping"
        /\ ~tracked[r] => pc'[r] = "releasing" /\ stage'[r] = stage[r]
        /\ stage' \in [Runner -> Stages]
    BY <1>2, <1>5 DEF JobsTypeOK, Stages
  <1>7. /\ \A s \in Runner : s # r => (s \in adrift' <=> s \in adrift)
        /\ r \in adrift => r \in adrift'
        /\ At(r, "spawned") => r \in adrift'
        /\ adrift' \subseteq Runner
    BY <1>2, <1>5 DEF JobsTypeOK
  <1>8. JobsTypeOK'
    <2>1. signals' \in [Runner -> 0..MaxSignals]
      BY <1>2, <1>3, JobsAssumption DEF JobsTypeOK
    <2>2. /\ inHandler' \in [Runner -> BOOLEAN] /\ inHandler'[r]
          /\ \A s \in Runner : s # r => inHandler'[s] = inHandler[s]
      BY <1>2, <1>3 DEF JobsTypeOK
    <2>3. /\ reaping' \in [Runner -> BOOLEAN]
          /\ \A s \in Runner : s # r => reaping'[s] = reaping[s]
      BY <1>2, <1>4 DEF JobsTypeOK
    <2>4. \A s \in Runner : reaping'[s] => inHandler'[s]
      BY <1>2, <2>2, <2>3 DEF JobsTypeOK
    <2> QED BY <1>2, <1>3, <1>6, <1>7, <2>1, <2>2, <2>3, <2>4 DEF JobsTypeOK
  <1>9. Working(r)' <=> Working(r)
    BY <1>3 DEF Working
  <1>10. RunOK(r)'
    <2>1. pc'[r] \notin Early
      BY <1>6 DEF Early, Guarded
    <2>2. pc'[r] = "running" =>
             /\ tracked'[r] <=> stage'[r] \notin {"choosing", "spawned"}
             /\ stage'[r] # "choosing"
      BY <1>3, <1>6
    <2>3. stage'[r] = "spawned" => job'[r] > 0
      BY <1>2, <1>3, <1>6 DEF RunOK
    <2>4. ASSUME r \notin adrift', Working(r)'
          PROVE  pc'[r] \in {"running", "dead"}
      <3>1. r \notin adrift /\ Working(r) /\ ~At(r, "spawned")
        BY <1>7, <1>9, <2>4
      <3>2. pc[r] = "running" /\ stage[r] # "spawned"
        BY <1>2, <1>3, <3>1 DEF RunOK, At
      <3>3. stage[r] # "choosing"
        BY <1>2, <3>1, <3>2 DEF RunOK
      <3>4. tracked[r]
        BY <1>2, <3>2, <3>3 DEF RunOK
      <3> QED BY <1>6, <3>4
    <2> QED BY <2>1, <2>2, <2>3, <2>4 DEF RunOK
  <1>11. TurnsOK(r)'
    BY <1>2, <1>3 DEF TurnsOK
  <1>12. \A s \in Runner : s # r => Same(s)
    BY <1>3, <1>6, <1>7 DEF Same
  <1> QED BY <1>1, <1>3, <1>7, <1>8, <1>9, <1>10, <1>11, <1>12, JobFrame

\* A child may end at any time.
LEMMA ChildEndsHolds ==
    ASSUME JobsInv, NEW r \in Runner, NEW j \in Job, ChildEnds(r, j)
    PROVE  JobsInv'
  <1>1. PICK code \in {"ok", "failed"} :
           leader' = [leader EXCEPT ![r][j] = code]
    BY DEF ChildEnds
  <1>2. /\ leader[r][j] = "alive"
        /\ UNCHANGED <<lockVars, stage, job, tracked, result, signalPart>>
    BY DEF ChildEnds
  <1>3. /\ pc' = pc /\ creator' = creator /\ stage' = stage /\ job' = job
        /\ tracked' = tracked /\ result' = result /\ adrift' = adrift
        /\ inHandler' = inHandler /\ reaping' = reaping /\ signals' = signals
    BY <1>2 DEF lockVars, signalPart
  <1>4. LockInv' /\ (Calm' => Calm)
    BY <1>2, LockHolds DEF JobsInv, lockVars
  <1>5. JobsTypeOK /\ RunOK(r) /\ TurnsOK(r)
    BY DEF JobsInv
  <1>6. /\ leader' \in [Runner -> [Job -> {"none", "alive", "ok", "failed"}]]
        /\ \A s \in Runner : s # r => leader'[s] = leader[s]
        /\ leader'[r][j] = code
        /\ \A k \in Job : k # j => leader'[r][k] = leader[r][k]
    BY <1>1, <1>5 DEF JobsTypeOK
  <1>7. JobsTypeOK'
    BY <1>3, <1>5, <1>6 DEF JobsTypeOK
  <1>8. Working(r)' => Working(r)
    BY <1>2 DEF Working
  <1>9. RunOK(r)'
    BY <1>3, <1>5, <1>8 DEF RunOK
  <1>10. TurnsOK(r)'
    BY <1>2, <1>3, <1>5, <1>6 DEF TurnsOK
  <1>11. \A s \in Runner : s # r => Same(s)
    BY <1>3, <1>6 DEF Same
  <1> QED BY <1>3, <1>4, <1>7, <1>8, <1>9, <1>10, <1>11, JobFrame

\* Where the lock's own steps take a runner: on through acquire, from
\* "writing" to its jobs, out of release, or to its death.
LEMMA LockStepMoves ==
    ASSUME LockTypeOK, NEW r \in Runner, LockStep(r)
    PROVE  /\ \A s \in Runner : s # r => pc'[s] = pc[s]
           /\ \/ pc[r] \in Early /\ pc'[r] \in Early \cup {"running", "ended"}
              \/ pc[r] = "releasing" /\ pc'[r] \in {"unlinking", "ended"}
              \/ pc[r] = "unlinking" /\ pc'[r] = "ended"
              \/ pc'[r] = "dead"
  <1> USE DEF LockTypeOK, Goto, Early, Guarded
  <1>1. CASE Start(r) \/ EnterGuard(r)
    BY <1>1 DEF Start, EnterGuard
  <1>2. CASE Open(r) \/ Reopen(r)
    BY <1>2 DEF Open, Reopen, CreateFile, Refuse
  <1>3. CASE Inspect(r) \/ Confirm(r) \/ Remove(r)
    BY <1>3 DEF Inspect, Confirm, Remove, Refuse
  <1>4. CASE Write(r) \/ AcquireFails(r)
    BY <1>4 DEF Write, AcquireFails
  <1>5. CASE CheckToken(r) \/ Release(r) \/ Crash(r)
    BY <1>5 DEF CheckToken, Release, Crash
  <1> QED BY <1>1, <1>2, <1>3, <1>4, <1>5 DEF LockStep

\* Without recovery a lock step takes away only the stepping runner's own
\* file, once it is not running, and puts its file only where none is.
LEMMA LockStepFile ==
    ASSUME LockInv, Calm, NEW r \in Runner, LockStep(r)
    PROVE  \/ creator' = creator
           \/ creator = NoRunner
           \/ creator = r /\ pc[r] \in {"writing", "unlinking"}
  <1>1. pc[r] \notin {"confirming", "removing", "reopening"}
    BY DEF LockInv, RecoveryIsDue
  <1>2. pc[r] \in {"writing", "unlinking"} => creator = r
    BY DEF LockInv, HolderHasFile
  <1>3. CASE Write(r) \/ Release(r)
    BY <1>2, <1>3 DEF Write, Release
  <1>4. CASE Open(r) \/ Reopen(r) \/ Remove(r) \/ Confirm(r)
    BY <1>1, <1>4 DEF Open, Reopen, Remove, Confirm, CreateFile
  <1>5. CASE Start(r) \/ EnterGuard(r) \/ Inspect(r) \/ AcquireFails(r)
             \/ CheckToken(r) \/ Crash(r)
    BY <1>5 DEF Start, EnterGuard, Inspect, AcquireFails, CheckToken, Crash
  <1> QED BY <1>3, <1>4, <1>5 DEF LockStep

\* The lock's steps: a runner's first job has not begun, or its last child
\* has ended, whenever they give its file away; a death leaves both.
LEMMA LockStepHolds ==
    ASSUME JobsInv, NEW r \in Runner, LockStep(r), UNCHANGED jobVars
    PROVE  JobsInv'
  <1>1. LockInv' /\ (Calm' => Calm)
    <2>1. LockNext
      BY DEF LockStep, LockNext, RunnerStep
    <2> QED BY <2>1, LockHolds DEF JobsInv
  <1>2. /\ stage' = stage /\ job' = job /\ tracked' = tracked
        /\ result' = result /\ leader' = leader /\ adrift' = adrift
    BY DEF jobVars
  <1>3. JobsTypeOK'
    BY DEF JobsInv, JobsTypeOK, jobVars
  <1>4. RunOK(r) /\ TurnsOK(r) /\ LockInv /\ LockTypeOK
    BY DEF JobsInv, LockInv
  <1>5. /\ \A s \in Runner : s # r => pc'[s] = pc[s]
        /\ \/ pc[r] \in Early /\ pc'[r] \in Early \cup {"running", "ended"}
           \/ pc[r] = "releasing" /\ pc'[r] \in {"unlinking", "ended"}
           \/ pc[r] = "unlinking" /\ pc'[r] = "ended"
           \/ pc'[r] = "dead"
    BY <1>4, LockStepMoves
  <1>6. \A s \in Runner : Working(s)' <=> Working(s)
    BY <1>2 DEF Working
  <1>7. RunOK(r)'
    <2>1. CASE pc[r] \in Early /\ pc'[r] \in Early \cup {"running", "ended"}
      BY <1>2, <1>4, <1>6, <2>1 DEF RunOK, Early, Guarded
    <2>2. CASE pc[r] \in {"releasing", "unlinking"}
               /\ pc'[r] \in {"unlinking", "ended"}
      BY <1>2, <1>4, <1>6, <2>2 DEF RunOK, Early, Guarded
    <2>3. CASE pc'[r] = "dead"
      BY <1>2, <1>4, <1>6, <2>3 DEF RunOK, Early, Guarded
    <2> QED BY <1>5, <2>1, <2>2, <2>3
  <1>8. TurnsOK(r)'
    BY <1>2, <1>4 DEF TurnsOK
  <1>9. ASSUME NEW s \in Runner, s # r
        PROVE  RunOK(s)' /\ TurnsOK(s)'
    <2>1. Same(s)
      BY <1>2, <1>5, <1>9 DEF Same
    <2> QED BY <2>1, SameOK DEF JobsInv
  <1>10. FileKept'
    <2> SUFFICES ASSUME Calm', NEW s \in Runner, s \notin adrift', Working(s)'
                 PROVE  creator' = s
      BY DEF FileKept
    <2>1. Calm /\ s \notin adrift /\ Working(s) /\ RunOK(s)
      BY <1>1, <1>2, <1>6 DEF JobsInv
    <2>2. creator = s /\ creator # NoRunner
      BY <2>1, LockAssumption DEF JobsInv, FileKept
    <2>3. pc[s] \in {"running", "dead"}
      BY <2>1 DEF RunOK
    <2>4. creator' = creator
      BY <1>4, <2>1, <2>2, <2>3, LockStepFile
    <2> QED BY <2>2, <2>4
  <1> QED BY <1>1, <1>3, <1>7, <1>8, <1>9, <1>10 DEF JobsInv

\* Time passing touches only the ages.
LEMMA ClockHolds ==
    ASSUME JobsInv, ClockTick \/ UNCHANGED lockVars, UNCHANGED jobVars
    PROVE  JobsInv'
  <1>1. LockInv' /\ (Calm' => Calm)
    BY LockHolds DEF JobsInv, LockNext
  <1>2. /\ pc' = pc /\ creator' = creator /\ stage' = stage /\ job' = job
        /\ tracked' = tracked /\ result' = result /\ leader' = leader
        /\ adrift' = adrift
    BY DEF jobVars, lockVars, ClockTick
  <1>3. JobsTypeOK'
    BY DEF JobsInv, JobsTypeOK, jobVars
  <1>4. ASSUME NEW s \in Runner
        PROVE  RunOK(s)' /\ TurnsOK(s)' /\ (Working(s)' <=> Working(s))
    <2>1. Same(s)
      BY <1>2 DEF Same
    <2> QED BY <2>1, SameOK DEF JobsInv
  <1>5. FileKept'
    BY <1>1, <1>2, <1>4, FileFrame DEF JobsInv
  <1> QED BY <1>1, <1>3, <1>4, <1>5 DEF JobsInv

-----------------------------------------------------------------------------
(* The invariant, and what it gives.                                       *)

LEMMA JobsInitHolds ==
    ASSUME JobsInit
    PROVE  JobsInv
  <1>1. LockInv
    BY LockInitHolds DEF JobsInit
  <1>2. /\ \A r \in Runner : /\ pc[r] = "idle" /\ stage[r] = "choosing"
                             /\ job[r] = 0 /\ ~tracked[r] /\ ~reaping[r]
        /\ \A r \in Runner : \A j \in Job : leader[r][j] = "none"
    BY DEF JobsInit, LockInit
  <1>3. JobsTypeOK
    <2>1. /\ job \in [Runner -> 0..NumJobs]
          /\ signals \in [Runner -> 0..MaxSignals]
      BY JobsAssumption DEF JobsInit
    <2>2. /\ stage \in [Runner -> Stages] /\ tracked \in [Runner -> BOOLEAN]
          /\ inHandler \in [Runner -> BOOLEAN] /\ reaping \in [Runner -> BOOLEAN]
          /\ adrift \subseteq Runner
      BY DEF JobsInit, Stages
    <2>3. /\ result \in [Runner -> [Job -> {"none", "ok", "failed", "timeout"}]]
          /\ leader \in [Runner -> [Job -> {"none", "alive", "ok", "failed"}]]
      BY DEF JobsInit
    <2> QED BY <1>2, <2>1, <2>2, <2>3 DEF JobsTypeOK
  <1>4. ASSUME NEW r \in Runner
        PROVE  ~Working(r) /\ RunOK(r) /\ TurnsOK(r)
    <2>1. /\ pc[r] = "idle" /\ stage[r] = "choosing" /\ job[r] = 0
          /\ ~tracked[r] /\ \A j \in Job : leader[r][j] = "none"
      BY <1>2
    <2>2. ~Working(r)
      BY <2>1 DEF Working
    <2>3. RunOK(r)
      BY <2>1, <2>2 DEF RunOK
    <2>4. \A j \in Job : ~(j < 0)
      BY DEF Job
    <2>5. TurnsOK(r)
      BY <2>1, <2>4 DEF TurnsOK
    <2> QED BY <2>2, <2>3, <2>5
  <1> QED BY <1>1, <1>3, <1>4 DEF JobsInv, FileKept

LEMMA JobsNextHolds ==
    ASSUME JobsInv, [JobsNext]_cronVars
    PROVE  JobsInv'
  <1>1. CASE UNCHANGED cronVars
    BY <1>1, ClockHolds DEF cronVars
  <1>2. CASE ClockTick /\ UNCHANGED jobVars
    BY <1>2, ClockHolds
  <1>3. ASSUME NEW r \in Runner,
               \/ JobStep(r)
               \/ LockStep(r) /\ UNCHANGED jobVars
               \/ Signal(r)
               \/ \E j \in Job : ChildEnds(r, j)
        PROVE  JobsInv'
    BY <1>3, JobStepHolds, LockStepHolds, SignalHolds, ChildEndsHolds
  <1> QED BY <1>1, <1>2, <1>3 DEF JobsNext

\* Two runs' children alive together would both own the one lock file, unless
\* recovery is possible or one of them is adrift; and only the current job of
\* a run has a child.
LEMMA JobsInvIsSafe ==
    ASSUME JobsInv
    PROVE  JobsSafe
  <1>1. JobsOverlapOnlyAfterLoss
    <2> SUFFICES ASSUME NEW r \in Runner, NEW s \in Runner, r # s,
                        Working(r), Working(s), Stale = {},
                        r \notin adrift, s \notin adrift
                 PROVE  FALSE
      BY DEF JobsOverlapOnlyAfterLoss
    <2> QED BY DEF JobsInv, FileKept, Calm
  <1>2. JobsInTurn
    <2> SUFFICES ASSUME NEW r \in Runner, NEW j \in Job, NEW k \in Job,
                        j < k, leader[r][k] # "none"
                 PROVE  /\ leader[r][j] # "alive"
                        /\ r \in StopOnFirst => result[r][j] = "ok"
      BY DEF JobsInTurn
    <2>1. TurnsOK(r) /\ job[r] \in 0..NumJobs
      BY DEF JobsInv, JobsTypeOK
    <2>2. ~(k > job[r])
      BY <2>1 DEF TurnsOK
    <2>3. j < job[r] /\ j # job[r]
      BY <2>1, <2>2 DEF Job
    <2> QED BY <2>1, <2>3 DEF TurnsOK
  <1> QED BY <1>1, <1>2 DEF JobsInv, JobsSafe

\* The inductive invariant of the cron runner holds in every reachable state.
THEOREM JobsInvariant == JobsSpec => []JobsInv
  <1>1. JobsInit => JobsInv
    BY JobsInitHolds
  <1>2. JobsInv /\ [JobsNext]_cronVars => JobsInv'
    BY JobsNextHolds
  <1> QED BY <1>1, <1>2, PTL DEF JobsSpec

\* run_jobs, run_job and handle_signal: no two children of the cron runner are
\* alive together, of one run or of two, except after an invocation outlived
\* stale_after or was interrupted between Popen and the tracking of its
\* process; with any number of invocations, jobs and signals.
THEOREM JobsAreSafe == JobsSpec => []JobsSafe
  <1>1. JobsInv => JobsSafe
    BY JobsInvIsSafe
  <1> QED BY <1>1, JobsInvariant, PTL

\* LockFile keeps its promises also while signals turn runners back from the
\* release to the teardown of their jobs.
THEOREM JobsKeepLock == JobsSpec => []LockSafe
  <1>1. JobsInv => LockSafe
    BY LockInvIsSafe DEF JobsInv
  <1> QED BY <1>1, JobsInvariant, PTL

=============================================================================
