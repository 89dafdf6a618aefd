------------------------------ MODULE SourceRefresh ------------------------------
(***************************************************************************)
(* Source refreshes: durable refresh requests, the workers that claim      *)
(* them, the one source mutation lease with its fence and its external-    *)
(* call deadline, the staged snapshots, and the pointer to the current     *)
(* source corpus (source/leases.py, execution.py, attempts.py,             *)
(* snapshots.py, outcomes.py, failures.py, requests.py, superseding.py,    *)
(* drop_acceptance.py).                                                    *)
(*                                                                         *)
(* A transaction is one step; a worker loses control between two of them.  *)
(* Deadlines are Booleans that time may end at any step.  A snapshot is    *)
(* named by the source fence it was read under.  Corpora, counts and       *)
(* windows are reduced to what a decision reads.  Old delta requests and   *)
(* an Administrator's retry of a failed refresh are left out.              *)
(***************************************************************************)
EXTENDS Integers, FiniteSets, FiniteSetsExt

CONSTANTS Requests,     \* refresh requests (one task root each)
          Workers,      \* source worker processes
          Windows,      \* scopes a refresh can be bound to
          None,         \* no owner
          MaxAttempts,  \* MAX_AUTOMATIC_ATTEMPTS
          MaxFaults,    \* bound: crashes and leases lost by a live worker
          MaxChanges,   \* bound: changes of the applied scope
          MaxClaims,    \* bound: claims of one request
          MayAccept     \* whether Administrators accept refusals

ASSUME SourceAssumption ==
  /\ MaxAttempts \in Nat \ {0} /\ MaxFaults \in Nat /\ MaxChanges \in Nat
  /\ MaxClaims \in Nat
  /\ None \notin Requests /\ MayAccept \in BOOLEAN

VARIABLES scope,       \* the applied window
          req,         \* refresh requests and their task runs
          lease,       \* SourceMutationLease
          snap,        \* source fence -> snapshot read under it
          current,     \* SourceCurrent
          worker,      \* what each process is doing
          calls,       \* source fences of ParishSoft requests in flight
          refusal,     \* newest refused load with no promotion since, or 0
          acceptance,  \* the newest acceptance: the refusal it names, unexpired
          faults, changes

sourceVars == <<scope, req, lease, snap, current, worker, calls, refusal,
          acceptance, faults, changes>>
domain == <<scope, refusal, acceptance, changes>>

Ended == {"succeeded", "failed", "cancelled"}
IdleWorker == [pc |-> "idle", r |-> None, tf |-> 0, sf |-> 0, acc |-> 0]

SourceInit ==
  /\ scope \in Windows
  /\ req = [r \in Requests |-> [state |-> "absent", window |-> scope, tf |-> 0,
                                live |-> FALSE, attempt |-> 0]]
  /\ lease = [owner |-> None, tf |-> 0, fence |-> 0, phase |-> "idle",
              held |-> FALSE, ext |-> FALSE]
  /\ snap = [f \in {} |-> 0]
  /\ current = [snap |-> 0, gen |-> 0]
  /\ worker = [w \in Workers |-> IdleWorker]
  /\ calls = {}
  /\ refusal = 0
  /\ acceptance = [of |-> 0, live |-> FALSE]
  /\ faults = 0 /\ changes = 0

-----------------------------------------------------------------------------
(* What the transactions check.                                            *)

\* lock_task_claim: the run is running under the worker's own fence, unexpired.
TaskOwned(w) ==
  LET q == req[worker[w].r]
  IN q.state = "running" /\ q.tf = worker[w].tf /\ q.live

\* _owned (verify_source): both fences, the phase and the lease are current.
SourceOwned(w) ==
  /\ TaskOwned(w)
  /\ lease.owner = worker[w].r /\ lease.tf = worker[w].tf
  /\ lease.fence = worker[w].sf
  /\ lease.held

\* admit_refresh_request: the request's own window is the applied one.
InScope(r) == req[r].window = scope

Attempts(r) == {f \in DOMAIN snap : snap[f].r = r}

\* completed_snapshot: this request's own promoted observation.
Completed(r) == \E f \in Attempts(r) : snap[f].state = "promoted"

Busy == lease.held \/ lease.ext

\* read_attempts_drained, as its one locked lease row shows it.
ReadsDrained(r) ==
  LET newest == IF Attempts(r) # {} THEN Max(Attempts(r)) ELSE lease.fence
  IN \/ Attempts(r) = {} /\ lease.owner # r
     \/ lease.fence > newest
     \/ ~Busy

\* counted_attempt: claims that began a read, when this claim began one.
CountedAttempts(r, tf) ==
  LET reached == {f \in Attempts(r) : snap[f].tf <= tf}
  IN IF \E f \in reached : snap[f].tf = tf
     THEN Cardinality(reached) ELSE req[r].attempt

\* The acceptance that stewardship_source_drop_acceptance_active_v1 answers.
LiveAcceptance ==
  IF acceptance.live /\ acceptance.of = refusal THEN refusal ELSE 0

ToPc(w, pc) == worker' = [worker EXCEPT ![w].pc = pc]
Leaves(w) == worker' = [worker EXCEPT ![w] = IdleWorker]
Released == [lease EXCEPT !.owner = None, !.held = FALSE, !.phase = "idle"]

-----------------------------------------------------------------------------
(* Requests, scope and acceptances: the web's transactions.                *)

\* _pending: waiting work a new command coalesces into.
PendingRefresh(r) ==
  /\ req[r].state \in {"queued", "retry_wait", "abandoned"}
  /\ InScope(r)
  /\ lease.owner # r
  /\ ~Completed(r)

RequestRefresh(r) ==
  /\ req[r].state = "absent"
  /\ \A q \in Requests : ~PendingRefresh(q)
  /\ req' = [req EXCEPT ![r].state = "queued", ![r].window = scope]
  /\ UNCHANGED <<lease, snap, current, worker, calls, faults, domain>>

ChangeScope ==
  /\ changes < MaxChanges
  /\ changes' = changes + 1
  /\ scope' \in Windows \ {scope}
  /\ UNCHANGED <<req, lease, snap, current, worker, calls, refusal,
                 acceptance, faults>>

\* An Administrator accepts the newest refusal, once ever.
Accept ==
  /\ MayAccept /\ refusal # 0 /\ acceptance.of # refusal
  /\ acceptance' = [of |-> refusal, live |-> TRUE]
  /\ UNCHANGED <<scope, req, lease, snap, current, worker, calls, refusal,
                 faults, changes>>

AcceptanceExpires ==
  /\ acceptance.live
  /\ acceptance' = [acceptance EXCEPT !.live = FALSE]
  /\ UNCHANGED <<scope, req, lease, snap, current, worker, calls, refusal,
                 faults, changes>>

-----------------------------------------------------------------------------
(* A worker's execution of one claim.                                      *)

\* The claim is admitted to acknowledge finished work, or when a read can start.
ClaimRefresh(w, r) ==
  /\ worker[w].pc = "idle"
  /\ req[r].state \in {"queued", "retry_wait"} /\ req[r].attempt < MaxClaims
  /\ Completed(r) \/ (InScope(r) /\ ~Busy)
  /\ req' = [req EXCEPT ![r].state = "running", ![r].tf = @ + 1,
                        ![r].live = TRUE, ![r].attempt = @ + 1]
  /\ worker' = [worker EXCEPT ![w] = [IdleWorker EXCEPT !.pc = "existing", !.r = r,
                                                  !.tf = req[r].tf + 1]]
  /\ UNCHANGED <<lease, snap, current, calls, faults, domain>>

\* _existing_outcome: a prior promotion never starts another provider scan.
ExistingOutcome(w) ==
  LET r == worker[w].r
  IN /\ worker[w].pc = "existing" /\ TaskOwned(w)
     /\ IF Completed(r)
        THEN /\ req' = [req EXCEPT ![r].state = "succeeded", ![r].live = FALSE]
             /\ Leaves(w)
        ELSE ToPc(w, "prepare") /\ UNCHANGED req
     /\ UNCHANGED <<lease, snap, current, calls, faults, domain>>

Prepare(w) ==
  /\ worker[w].pc = "prepare" /\ TaskOwned(w) /\ InScope(worker[w].r)
  /\ ToPc(w, "compact")
  /\ UNCHANGED <<req, lease, snap, current, calls, faults, domain>>

\* acquire_source: a new fence, once no owner and no reserved request is left.
AcquireSource(w, phase, pc) ==
  /\ TaskOwned(w) /\ InScope(worker[w].r)
  /\ ~Busy
  /\ lease' = [owner |-> worker[w].r, tf |-> worker[w].tf,
               fence |-> lease.fence + 1, phase |-> phase,
               held |-> TRUE, ext |-> FALSE]
  /\ worker' = [worker EXCEPT ![w].pc = pc, ![w].sf = lease.fence + 1]

\* compact_before_refresh takes the lease for retention; its batches change
\* nothing kept here.
CompactBeforeRefresh(w) ==
  /\ worker[w].pc = "compact"
  /\ AcquireSource(w, "compaction", "compacting")
  /\ UNCHANGED <<req, snap, current, calls, faults, domain>>

\* Retention never fails the refresh: refused or broken, it is skipped.
SkipCompaction(w) ==
  /\ worker[w].pc \in {"compact", "compacting"}
  /\ worker[w].pc = "compact" => Busy \/ ~InScope(worker[w].r) \/ ~TaskOwned(w)
  /\ worker[w].pc = "compacting" => ~SourceOwned(w)
  /\ worker' = [worker EXCEPT ![w].pc = "acquire", ![w].sf = 0]
  /\ UNCHANGED <<req, lease, snap, current, calls, faults, domain>>

ReleaseCompaction(w) ==
  /\ worker[w].pc = "compacting" /\ SourceOwned(w)
  /\ lease' = Released
  /\ worker' = [worker EXCEPT ![w].pc = "acquire", ![w].sf = 0]
  /\ UNCHANGED <<req, snap, current, calls, faults, domain>>

AcquireFull(w) ==
  /\ worker[w].pc = "acquire"
  /\ AcquireSource(w, "full", "begin")
  /\ UNCHANGED <<req, snap, current, calls, faults, domain>>

\* verify_refresh_attempt: the live owner, still in its request's scope.
Verified(w, pc) ==
  /\ worker[w].pc = pc
  /\ SourceOwned(w) /\ InScope(worker[w].r)

\* begin_refresh_attempt with begin_snapshot: a manifest bound to the base.
BeginAttempt(w) ==
  LET new == [r |-> worker[w].r, tf |-> worker[w].tf, base |-> current.snap,
              state |-> "staging", gen |-> 0, acc |-> 0]
  IN /\ Verified(w, "begin")
     /\ snap' = [f \in DOMAIN snap \union {worker[w].sf} |->
                   IF f = worker[w].sf THEN new ELSE snap[f]]
     /\ ToPc(w, "inputs")
     /\ UNCHANGED <<req, lease, current, calls, faults, domain>>

\* _inputs: the base must still be current before anything is read.
Inputs(w) ==
  /\ Verified(w, "inputs")
  /\ snap[worker[w].sf].state = "staging"
  /\ snap[worker[w].sf].base = current.snap
  /\ ToPc(w, "fetch")
  /\ UNCHANGED <<req, lease, snap, current, calls, faults, domain>>

\* before_request: reserve the call's deadline, then make the call.
ReserveRequest(w) ==
  /\ Verified(w, "fetch")
  /\ snap[worker[w].sf].state = "staging"
  /\ lease' = [lease EXCEPT !.ext = TRUE]
  /\ calls' = calls \union {worker[w].sf}
  /\ ToPc(w, "calling")
  /\ UNCHANGED <<req, snap, current, faults, domain>>

\* An answer, or a failed call: more calls follow, or the load is whole.
CallReturns(w) ==
  /\ worker[w].pc = "calling"
  /\ calls' = calls \ {worker[w].sf}
  /\ \E pc \in {"fetch", "loaded"} : ToPc(w, pc)
  /\ UNCHANGED <<req, lease, snap, current, faults, domain>>

\* The counts pass, or fell and the live acceptance covers them.
LoadAccepted(w) ==
  /\ worker[w].pc = "loaded"
  /\ \E acc \in {0, LiveAcceptance} :
       worker' = [worker EXCEPT ![w].pc = "stage", ![w].acc = acc]
  /\ UNCHANGED <<req, lease, snap, current, calls, faults, domain>>

\* Staging batches and validation write nothing but this manifest's rows.
StageRows(w) ==
  /\ Verified(w, "stage")
  /\ snap[worker[w].sf].state = "staging"
  /\ ToPc(w, "complete")
  /\ UNCHANGED <<req, lease, snap, current, calls, faults, domain>>

CompleteSnapshot(w) ==
  /\ Verified(w, "complete")
  /\ snap[worker[w].sf].state = "staging"
  /\ snap' = [snap EXCEPT ![worker[w].sf].state = "ready",
                          ![worker[w].sf].acc = worker[w].acc]
  /\ ToPc(w, "retire")
  /\ UNCHANGED <<req, lease, current, calls, faults, domain>>

\* Unpromoted observations of lower fences are rejected, never reused.
RetireDrained(w) ==
  /\ Verified(w, "retire")
  /\ snap' = [f \in DOMAIN snap |->
                IF f < worker[w].sf /\ snap[f].state \in {"staging", "ready"}
                THEN [snap[f] EXCEPT !.state = "rejected"] ELSE snap[f]]
  /\ ToPc(w, "promote")
  /\ UNCHANGED <<req, lease, current, calls, faults, domain>>

\* promote_snapshot, with require_live under the same lock.
Promote(w) ==
  LET f == worker[w].sf
  IN /\ Verified(w, "promote")
     /\ snap[f].state = "ready" /\ snap[f].base = current.snap
     /\ snap[f].acc # 0 => snap[f].acc = LiveAcceptance
     /\ snap' = [snap EXCEPT ![f].state = "promoted", ![f].gen = current.gen + 1]
     /\ current' = [snap |-> f, gen |-> current.gen + 1]
     /\ refusal' = 0
     /\ ToPc(w, "settle")
     /\ UNCHANGED <<scope, req, lease, calls, acceptance, faults, changes>>

\* _settle: release and complete in one transaction.
SettleRefresh(w) ==
  /\ worker[w].pc = "settle" /\ SourceOwned(w)
  /\ Completed(worker[w].r)
  /\ lease' = Released
  /\ req' = [req EXCEPT ![worker[w].r].state = "succeeded",
                        ![worker[w].r].live = FALSE]
  /\ Leaves(w)
  /\ UNCHANGED <<snap, current, calls, faults, domain>>

-----------------------------------------------------------------------------
(* Failures.                                                               *)

\* Mutant: every failure that may be retried is, however many there were.
SettleFailedReadRetried(w, retry, contention) ==
  LET r == worker[w].r
      f == worker[w].sf
  IN /\ TaskOwned(w) /\ ~Completed(r)
     /\ f # 0 => SourceOwned(w)
     /\ snap' = [g \in DOMAIN snap |->
                   IF g = f THEN [snap[g] EXCEPT !.state = "rejected"] ELSE snap[g]]
     /\ lease' = IF f # 0 THEN Released ELSE lease
     /\ req' = [req EXCEPT ![r].state = IF retry THEN "retry_wait" ELSE "failed",
                           ![r].live = FALSE]
     /\ Leaves(w)

\* settle_failed_read: rejection, release and disposition as one unit.
SettleFailedRead(w, retry, contention) ==
  LET r == worker[w].r
      f == worker[w].sf
      counted == IF contention THEN req[r].attempt ELSE CountedAttempts(r, worker[w].tf)
      again == retry /\ (contention \/ counted < MaxAttempts)
  IN /\ TaskOwned(w) /\ ~Completed(r)
     /\ IF f # 0 THEN SourceOwned(w)
        ELSE ~(lease.owner = r /\ lease.tf = worker[w].tf)
     /\ snap' = [g \in DOMAIN snap |->
                   IF g = f THEN [snap[g] EXCEPT !.state = "rejected"] ELSE snap[g]]
     /\ lease' = IF f # 0 THEN Released ELSE lease
     /\ req' = [req EXCEPT ![r].state = IF again THEN "retry_wait" ELSE "failed",
                           ![r].live = FALSE]
     /\ Leaves(w)

\* The steps that recheck the request's scope.
Scoped == {"prepare", "acquire", "begin", "inputs", "fetch", "stage",
           "complete", "retire", "promote"}

ScopeChanged(w) ==
  /\ worker[w].pc \in Scoped /\ ~InScope(worker[w].r)
  /\ SettleFailedRead(w, TRUE, FALSE)
  /\ UNCHANGED <<current, calls, faults, domain>>

\* Another owner took the lease between the claim and acquire_source.
LeaseUnavailable(w) ==
  /\ worker[w].pc = "acquire" /\ InScope(worker[w].r) /\ Busy
  /\ SettleFailedRead(w, TRUE, TRUE)
  /\ UNCHANGED <<current, calls, faults, domain>>

\* A timeout or a bad answer from ParishSoft: retried, or not.
ReadFails(w) ==
  /\ worker[w].pc = "fetch"
  /\ \E retry \in BOOLEAN : SettleFailedRead(w, retry, FALSE)
  /\ UNCHANGED <<current, calls, faults, domain>>

\* DestructiveSourceChange: the refusal's counts are recorded with it.
LoadRefused(w) ==
  /\ worker[w].pc = "loaded"
  /\ SettleFailedRead(w, FALSE, FALSE)
  /\ refusal' = worker[w].sf
  /\ UNCHANGED <<scope, current, calls, acceptance, faults, changes>>

\* AcceptanceLapsed: refused at promotion, with nothing new to record.
AcceptanceLapsed(w) ==
  /\ Verified(w, "promote")
  /\ snap[worker[w].sf].acc \notin {0, LiveAcceptance}
  /\ SettleFailedRead(w, FALSE, FALSE)
  /\ UNCHANGED <<current, calls, faults, domain>>

\* Lost ownership, or a compaction lease it could not release: nothing settles.
Lost(w) ==
  /\ worker[w].pc \notin {"idle", "calling", "compact", "compacting"}
  /\ \/ ~TaskOwned(w)
     \/ worker[w].sf # 0 /\ ~SourceOwned(w)
     \/ /\ worker[w].pc = "acquire" /\ (Busy \/ ~InScope(worker[w].r))
        /\ lease.owner = worker[w].r /\ lease.tf = worker[w].tf
  /\ Leaves(w)
  /\ UNCHANGED <<req, lease, snap, current, calls, faults, domain>>

Crash(w) ==
  /\ worker[w].pc # "idle" /\ faults < MaxFaults
  /\ faults' = faults + 1
  /\ Leaves(w)
  /\ UNCHANGED <<req, lease, snap, current, calls, domain>>

-----------------------------------------------------------------------------
(* Time.  A live worker renews its leases, so losing one is a fault.       *)

LapseCost(alive) ==
  IF alive THEN faults < MaxFaults /\ faults' = faults + 1 ELSE UNCHANGED faults

TaskLeaseLapses(r) ==
  /\ req[r].state = "running" /\ req[r].live
  /\ LapseCost(\E w \in Workers : worker[w].r = r /\ worker[w].tf = req[r].tf)
  /\ req' = [req EXCEPT ![r].live = FALSE]
  /\ UNCHANGED <<lease, snap, current, worker, calls, domain>>

SourceLeaseLapses ==
  /\ lease.held
  /\ LapseCost(\E w \in Workers : worker[w].sf = lease.fence)
  /\ lease' = [lease EXCEPT !.held = FALSE]
  /\ UNCHANGED <<req, snap, current, worker, calls, domain>>

\* A call whose process is gone ends by its timeout.
CallTimesOut ==
  /\ \E f \in calls :
       /\ \A w \in Workers : worker[w].pc = "calling" => worker[w].sf # f
       /\ calls' = calls \ {f}
  /\ UNCHANGED <<req, lease, snap, current, worker, faults, domain>>

\* The deadline holds the call's whole timeout and a safety margin, so it
\* passes only after the calls it was reserved for.
DeadlinePasses ==
  /\ lease.ext /\ lease.fence \notin calls
  /\ lease' = [lease EXCEPT !.ext = FALSE]
  /\ UNCHANGED <<req, snap, current, worker, calls, faults, domain>>

-----------------------------------------------------------------------------
(* Recovery by the scheduler's scan.                                       *)

LeaseExpired(r) ==
  /\ req[r].state = "running" /\ ~req[r].live
  /\ req' = [req EXCEPT ![r].state = "abandoned", ![r].tf = @ + 1]
  /\ UNCHANGED <<lease, snap, current, worker, calls, faults, domain>>

\* Mutant: a changed scope is looked at before the promoted result.
RecoveryPlanScopeFirst(r) ==
  IF ~ReadsDrained(r) THEN "abandoned"
  ELSE IF ~InScope(r) THEN "cancelled"
  ELSE IF Completed(r) THEN "succeeded"
  ELSE IF CountedAttempts(r, req[r].tf - 1) >= MaxAttempts THEN "failed" ELSE "retry_wait"

\* recovery_plan: the abandoned root's next state, or "abandoned" to hold it.
RefreshRecoveryPlan(r) ==
  IF Completed(r) THEN "succeeded"
  ELSE IF ~ReadsDrained(r) THEN "abandoned"
  ELSE IF ~InScope(r) THEN "cancelled"
  ELSE IF CountedAttempts(r, req[r].tf - 1) >= MaxAttempts THEN "failed" ELSE "retry_wait"

RecoverRefresh(r) ==
  /\ req[r].state = "abandoned"
  /\ RefreshRecoveryPlan(r) # "abandoned"
  /\ req' = [req EXCEPT ![r].state = RefreshRecoveryPlan(r)]
  /\ UNCHANGED <<lease, snap, current, worker, calls, faults, domain>>

CancelSuperseded(r) ==
  /\ req[r].state \in {"queued", "retry_wait", "abandoned"}
  /\ ~Completed(r) /\ ~InScope(r) /\ ReadsDrained(r)
  /\ req' = [req EXCEPT ![r].state = "cancelled"]
  /\ UNCHANGED <<lease, snap, current, worker, calls, faults, domain>>

-----------------------------------------------------------------------------
WorkerStep(w) ==
  \/ ExistingOutcome(w) \/ Prepare(w) \/ CompactBeforeRefresh(w)
  \/ SkipCompaction(w) \/ ReleaseCompaction(w) \/ AcquireFull(w)
  \/ BeginAttempt(w) \/ Inputs(w) \/ ReserveRequest(w) \/ CallReturns(w)
  \/ LoadAccepted(w) \/ StageRows(w) \/ CompleteSnapshot(w) \/ RetireDrained(w)
  \/ Promote(w) \/ SettleRefresh(w)
  \/ ScopeChanged(w) \/ LeaseUnavailable(w) \/ ReadFails(w) \/ LoadRefused(w)
  \/ AcceptanceLapsed(w) \/ Lost(w)

ScanStep(r) == LeaseExpired(r) \/ RecoverRefresh(r) \/ CancelSuperseded(r)

TimeStep == SourceLeaseLapses \/ CallTimesOut \/ DeadlinePasses

\* Nothing is left to do within the bounds.
Rest ==
  /\ \A r \in Requests :
       req[r].state \in Ended \union {"absent"} \/ req[r].attempt = MaxClaims
  /\ UNCHANGED sourceVars

SourceNext ==
  \/ \E w \in Workers : WorkerStep(w) \/ Crash(w)
  \/ \E w \in Workers, r \in Requests : ClaimRefresh(w, r)
  \/ \E r \in Requests : RequestRefresh(r) \/ ScanStep(r) \/ TaskLeaseLapses(r)
  \/ TimeStep \/ ChangeScope \/ Accept \/ AcceptanceExpires
  \/ Rest

SourceSpec == SourceInit /\ [][SourceNext]_sourceVars

\* Workers and the scan keep running, leases nobody renews end, deadlines
\* pass, and a load is bounded, so its calls do not go on for ever.
SourceFair ==
  /\ \A w \in Workers :
       /\ WF_sourceVars(WorkerStep(w))
       /\ SF_sourceVars(CallReturns(w) /\ worker'[w].pc = "loaded")
  /\ \A r \in Requests :
       /\ WF_sourceVars(\E w \in Workers : ClaimRefresh(w, r))
       /\ WF_sourceVars(ScanStep(r))
       /\ WF_sourceVars(TaskLeaseLapses(r) /\ UNCHANGED faults)
  /\ WF_sourceVars(SourceLeaseLapses /\ UNCHANGED faults)
  /\ WF_sourceVars(CallTimesOut)
  /\ WF_sourceVars(DeadlinePasses)

FairSourceSpec == SourceSpec /\ SourceFair

-----------------------------------------------------------------------------
(* Properties.                                                             *)

Promoted == {f \in DOMAIN snap : snap[f].state = "promoted"}

Pcs == Scoped \union {"idle", "existing", "compact", "compacting", "calling",
                      "loaded", "settle"}

\* Every variable has its type, and a snapshot's fence was really granted.
SourceTypeOK ==
  /\ scope \in Windows
  /\ req \in [Requests -> [state : {"absent", "queued", "running", "retry_wait",
                                    "abandoned"} \union Ended,
                           window : Windows, tf : Nat, live : BOOLEAN,
                           attempt : Nat]]
  /\ lease \in [owner : Requests \union {None}, tf : Nat, fence : Nat,
                phase : {"idle", "full", "compaction"}, held : BOOLEAN,
                ext : BOOLEAN]
  /\ DOMAIN snap \subseteq 1 .. lease.fence
  /\ \A f \in DOMAIN snap :
       snap[f] \in [r : Requests, tf : Nat, base : 0 .. lease.fence,
                   state : {"staging", "ready", "rejected", "promoted"},
                   gen : Nat, acc : 0 .. lease.fence]
  /\ current \in [snap : {0} \union DOMAIN snap, gen : Nat]
  /\ worker \in [Workers -> [pc : Pcs, r : Requests \union {None}, tf : Nat,
                             sf : 0 .. lease.fence, acc : 0 .. lease.fence]]
  /\ calls \subseteq DOMAIN snap
  /\ refusal \in {0} \union DOMAIN snap
  /\ acceptance \in [of : {0} \union DOMAIN snap, live : BOOLEAN]
  /\ faults \in 0 .. MaxFaults /\ changes \in 0 .. MaxChanges

\* Two ParishSoft reads never overlap: a new owner waits for the deadline a
\* lost or dead owner reserved (acquire_source, reserve_source_request).
OneReadAtATime == Cardinality(calls) <= 1

\* Source truth is one chain: each promoted corpus replaces exactly the one
\* it was compared with, in the order the reads were fenced, and the pointer
\* is its end (promote_snapshot).
TruthIsAChain ==
  /\ current.gen = Cardinality(Promoted)
  /\ current.snap = IF Promoted = {} THEN 0 ELSE Max(Promoted)
  /\ \A f \in Promoted :
       LET before == {g \in Promoted : g < f}
       IN /\ snap[f].gen = Cardinality(before) + 1
          /\ snap[f].base = IF before = {} THEN 0 ELSE Max(before)

\* A read never goes stale under its owner: while it holds the lease, the
\* base it was opened on is the current corpus (_inputs, promote_snapshot).
BaseIsCurrent ==
  \A w \in Workers :
    /\ worker[w].pc \notin {"idle", "settle"}
    /\ worker[w].sf \in DOMAIN snap
    /\ SourceOwned(w)
    => snap[worker[w].sf].base = current.snap

\* A refresh's outcome is its publication: it succeeds only with its own
\* promoted corpus, and one that failed or was cancelled published nothing,
\* however a crash, recovery or a superseding scope fell around it.
OutcomeIsPublication ==
  \A r \in Requests :
    LET published == Attempts(r) \intersect Promoted
    IN /\ Cardinality(published) <= 1
       /\ req[r].state = "succeeded" => published # {}
       /\ req[r].state \in {"failed", "cancelled"} => published = {}

\* An acceptance lets one refused drop through, against the very corpus the
\* refusal was compared with (require_live, drop_acceptance_active).
AcceptedAsReviewed ==
  \A f \in Promoted :
    snap[f].acc # 0 =>
      /\ snap[f].base = snap[snap[f].acc].base
      /\ \A g \in Promoted \ {f} : snap[g].acc # snap[f].acc

\* Every requested refresh ends, through failures, crashes and scope changes.
EveryRequestEnds ==
  \A r \in Requests : req[r].state # "absent" ~> req[r].state \in Ended

\* The corpus Families are shown is read by one process at a time, replaced
\* in the order of its fences, on the base it was compared with, and only by
\* a refresh that reports success.
SourceSafe ==
  /\ SourceTypeOK
  /\ OneReadAtATime
  /\ TruthIsAChain
  /\ BaseIsCurrent
  /\ OutcomeIsPublication
  /\ AcceptedAsReviewed
=============================================================================
