---------------------------- MODULE LeaseRenewal ----------------------------
(***************************************************************************)
(* One execution of a background task and its lease renewal thread         *)
(* (jobs/lifetime.py; Execution in jobs/dispatch.py).  The handler and the *)
(* renewal thread share the control: an RLock, the locally known end of    *)
(* the lease, and the source claim to renew with the task's.               *)
(*                                                                         *)
(* Deadlines are kept as the ticks that remain (0 when past), so the       *)
(* database's lease and the process's monotonic view of it can be          *)
(* compared.  A transaction's lease runs from its start, Now(), while the  *)
(* process counts from before the transaction; any number of ticks may     *)
(* pass in between.                                                        *)
(***************************************************************************)
EXTENDS Naturals

CONSTANTS
    Lease,      \* LEASE_SECONDS
    Margin,     \* LEASE_MARGIN_SECONDS
    RetryPause,      \* TIMEOUT_RETRY_SECONDS
    Extension   \* PROMOTION_LEASE_SECONDS; 0 for handlers that never extend

ASSUME LeaseAssumption ==
    /\ Lease \in Nat \ {0} /\ Margin \in Nat /\ RetryPause \in Nat
    /\ Extension \in Nat
    /\ Extension = 0 \/ Extension > Lease

VARIABLES
    db,         \* lease_expires_at, as committed
    lease_end,  \* control.lease_end; 0 also for None
    until,      \* control.lease_until; 0 also for None
    committed,  \* when the longest confirmed lease ends, counted locally
    lock,       \* control.lock
    failed,     \* control.failed
    finished,   \* control.finished
    stop,       \* control.stop
    source,     \* "none", "held" or "attached" (control.source_claim)
    handler,    \* where the handler stands
    since,      \* ticks since the handler's monotonic() reading
    renewer,    \* where the renewal thread stands
    begun,      \* ticks since control.lease_started and, from the first
                \* renewal on, since control.renewal_started
    stamped,    \* ticks since the open renewal transaction's Now()
    asked,      \* the lease it asks for
    renewing    \* whether it renews the source claim too

local == <<lease_end, until, committed>>
flags == <<failed, finished, stop>>
handlerVars == <<source, handler, since>>
renewerVars == <<renewer, begun, stamped, asked, renewing>>
leaseVars == <<db, local, lock, flags, handlerVars, renewerVars>>

Longest == IF Extension > Lease THEN Extension ELSE Lease
Ticks == 0..Longest
Later(a, b) == IF a >= b THEN a ELSE b
Left(total, passed) == IF passed >= total THEN 0 ELSE total - passed
Passed(t) == IF t < Longest THEN t + 1 ELSE t

HandlerPc == {"claiming", "claimed", "ready", "working", "locked", "effect",
              "extending", "promoting", "leaving", "gone", "killed"}
RenewerPc == {"unborn", "starting", "waiting", "locking", "begun", "stamped",
              "owned", "renewed", "ended"}

\* claim_hint reads monotonic() before the claim's transaction.
LeaseInit ==
    /\ db = 0 /\ lease_end = 0 /\ until = 0 /\ committed = 0
    /\ lock = "free"
    /\ failed = FALSE /\ finished = FALSE /\ stop = FALSE
    /\ source = "none" /\ handler = "claiming" /\ since = 0
    /\ renewer = "unborn" /\ begun = 0 /\ stamped = 0 /\ asked = 0
    /\ renewing = FALSE

-----------------------------------------------------------------------------
(* ExecutionControl                                                        *)

\* Until the thread's first statements have run, lease_end is None.
EndUnknown == renewer \in {"unborn", "starting"}

\* lease_expired: the last renewal's end, or a longer lease extend_lease
\* committed, whichever is later; never while no end is known.
LeaseExpired == ~EndUnknown /\ Later(lease_end, until) = 0

\* check(): whether a new unit may start.
MayStart == ~failed /\ ~finished /\ ~stop /\ ~LeaseExpired

\* check(allow_drain=True): whether a transition or a renewal may run.
MayDrain == ~failed /\ ~finished

\* lock_task_claim: the database's own fence.
Owned == db > 0

-----------------------------------------------------------------------------
(* The handler                                                             *)

\* claim_hint: the claim commits.
ClaimLease ==
    /\ handler = "claiming"
    /\ \E age \in 0..since :
           /\ age < Lease
           /\ db' = Lease - age
    /\ handler' = "claimed"
    /\ committed' = Left(Lease, since)
    /\ UNCHANGED <<lease_end, until, lock, flags, source, since, renewerVars>>

\* maintain_execution: check(), then the renewal thread is started and the
\* handler goes on without waiting for it.
MaintainExecution ==
    /\ handler = "claimed"
    /\ IF MayStart
       THEN handler' = "ready" /\ renewer' = "starting"
       ELSE handler' = "gone" /\ UNCHANGED renewer
    /\ UNCHANGED <<db, local, lock, flags, source, since, begun, stamped, asked,
                   renewing>>

\* An external operation, started after check(); its ticks stop it once the
\* lease has run out, and it may also end by itself.
StartUnit ==
    /\ handler = "ready"
    /\ MayStart
    /\ handler' = "working"
    /\ UNCHANGED <<db, local, lock, flags, source, since, renewerVars>>

EndUnit ==
    /\ handler = "working"
    /\ handler' = IF MayDrain /\ ~LeaseExpired THEN "ready" ELSE "leaving"
    /\ UNCHANGED <<db, local, lock, flags, source, since, renewerVars>>

\* effect() and the lock a promotion holds around extend_lease.
TakeLock ==
    /\ handler = "ready"
    /\ lock = "free"
    /\ lock' = "handler"
    /\ handler' = "locked"
    /\ UNCHANGED <<db, local, flags, source, since, renewerVars>>

\* The effect is admitted under check() and the task's fence; a refusal
\* leaves the handler.
EnterEffect ==
    /\ handler = "locked"
    /\ IF MayStart /\ Owned
       THEN handler' = "effect" /\ UNCHANGED lock
       ELSE handler' = "leaving" /\ lock' = "free"
    /\ UNCHANGED <<db, local, flags, source, since, renewerVars>>

EndEffect ==
    /\ handler \in {"effect", "promoting"}
    /\ handler' = "ready"
    /\ lock' = "free"
    /\ UNCHANGED <<db, local, flags, source, since, renewerVars>>

\* extend_lease: monotonic() is read under the lock, before the transaction
\* and before an activation is waited out.
BeginExtend ==
    /\ Extension > 0
    /\ handler = "locked"
    /\ handler' = "extending"
    /\ since' = 0
    /\ UNCHANGED <<db, local, lock, flags, source, renewerVars>>

\* The longer lease commits, and the control learns of it.
Extend ==
    /\ handler = "extending"
    /\ MayStart /\ Owned
    /\ handler' = "promoting"
    /\ \E age \in 0..since : db' = Left(Extension, age)
    /\ until' = Later(until, Left(Extension, since))
    /\ committed' = Later(committed, Left(Extension, since))
    /\ UNCHANGED <<lease_end, lock, flags, source, since, renewerVars>>

\* check() or the fence refuses, or the wait for an activation is over.
ExtendFails ==
    /\ handler = "extending"
    /\ handler' = "leaving"
    /\ lock' = "free"
    /\ UNCHANGED <<db, local, flags, source, since, renewerVars>>

-----------------------------------------------------------------------------
(* The source claim (maintain_source)                                      *)

AcquireSource ==
    /\ handler = "ready"
    /\ source = "none"
    /\ MayStart
    /\ source' = "held"
    /\ UNCHANGED <<db, local, lock, flags, handler, since, renewerVars>>

AttachSource ==
    /\ handler = "ready"
    /\ source = "held"
    /\ lock = "free"
    /\ MayStart
    /\ source' = "attached"
    /\ UNCHANGED <<db, local, lock, flags, handler, since, renewerVars>>

DetachSource ==
    /\ handler \in {"ready", "leaving"}
    /\ source = "attached"
    /\ lock = "free"
    /\ source' = "held"
    /\ UNCHANGED <<db, local, lock, flags, handler, since, renewerVars>>

ReleaseSource ==
    /\ handler \in {"ready", "leaving"}
    /\ source = "held"
    /\ source' = "none"
    /\ UNCHANGED <<db, local, lock, flags, handler, since, renewerVars>>

-----------------------------------------------------------------------------
(* The end of the execution                                                *)

\* A transition out of running, under the lock and the fence.
FinishTask ==
    /\ handler = "ready"
    /\ lock = "free"
    /\ MayDrain /\ Owned
    /\ finished' = TRUE
    /\ handler' = "leaving"
    /\ UNCHANGED <<db, local, lock, failed, stop, source, since, renewerVars>>

\* The handler returns or raises without a transition.
LeaveTask ==
    /\ handler = "ready"
    /\ handler' = "leaving"
    /\ UNCHANGED <<db, local, lock, flags, source, since, renewerVars>>

RequestStop ==
    /\ ~stop
    /\ stop' = TRUE
    /\ UNCHANGED <<db, local, lock, failed, finished, handlerVars, renewerVars>>

\* done.set() and join: the thread is over, or RenewalDrainFailure ends the
\* process.
RenewalJoined ==
    /\ handler = "leaving"
    /\ source # "attached"
    /\ renewer = "ended"
    /\ handler' = "gone"
    /\ UNCHANGED <<db, local, lock, flags, source, since, renewerVars>>

DrainFails ==
    /\ handler = "leaving"
    /\ source # "attached"
    /\ renewer # "ended"
    /\ handler' = "killed"
    /\ failed' = TRUE
    /\ renewer' = "ended"
    /\ lock' = "free"
    /\ UNCHANGED <<db, local, finished, stop, source, since, begun, stamped,
                   asked, renewing>>

-----------------------------------------------------------------------------
(* The renewal thread (_renewal_loop, renew_once)                          *)

\* Its first statements: the claim's lease counts from lease_started, and
\* from here on the control knows its end.
RenewerStarts ==
    /\ renewer = "starting"
    /\ renewer' = "waiting"
    /\ lease_end' = Left(Lease, begun)
    /\ UNCHANGED <<db, until, committed, lock, flags, handlerVars, begun, stamped,
                   asked, renewing>>

\* done.wait(pause) ends: with the handler leaving, the loop is over.
Pulse ==
    /\ renewer = "waiting"
    /\ renewer' = IF handler = "leaving" THEN "ended" ELSE "locking"
    /\ UNCHANGED <<db, local, lock, flags, handlerVars, begun, stamped, asked,
                   renewing>>

\* The lock is held; renewal_started is read after it.
RenewBegin ==
    /\ renewer = "locking"
    /\ lock = "free"
    /\ IF MayDrain
       THEN /\ lock' = "renewer"
            /\ renewer' = "begun"
            /\ begun' = 0
            /\ UNCHANGED failed
       ELSE /\ renewer' = "ended"
            /\ failed' = (failed \/ ~finished)
            /\ UNCHANGED <<lock, begun>>
    /\ UNCHANGED <<db, local, finished, stop, handlerVars, stamped, asked,
                   renewing>>

\* The transaction begins.  _renewed_seconds: what is left of an extension,
\* counted from renewal_started; one that is nearly over is forgotten here,
\* before the renewal that replaces it has committed.
RenewStamp ==
    /\ renewer = "begun"
    /\ renewer' = "stamped"
    /\ stamped' = 0
    /\ LET left == IF until = 0 THEN 0 ELSE until + begun
       IN IF left <= Lease
          THEN asked' = Lease /\ until' = 0
          ELSE asked' = left /\ UNCHANGED until
    /\ renewing' = (source = "attached")
    /\ UNCHANGED <<db, lease_end, committed, lock, flags, handlerVars, begun>>

\* The task row is locked and its claim found live.
RenewOwned ==
    /\ renewer = "stamped"
    /\ Owned
    /\ renewer' = "owned"
    /\ UNCHANGED <<db, local, lock, flags, handlerVars, begun, stamped, asked,
                   renewing>>

\* Both leases renewed, the transaction committed, the lock released.
RenewCommit ==
    /\ renewer = "owned"
    /\ renewing => source # "none"
    /\ db' = Left(asked, stamped)
    /\ renewer' = "renewed"
    /\ lock' = "free"
    /\ UNCHANGED <<local, flags, handlerVars, begun, stamped, asked,
                   renewing>>

\* Mutant: the lease is counted from the renewal's return.
RenewConfirmLate ==
    /\ renewer = "renewed"
    /\ lease_end' = Lease
    /\ committed' = Later(committed, Lease)
    /\ renewer' = IF finished THEN "ended" ELSE "waiting"
    /\ UNCHANGED <<db, until, lock, flags, handlerVars, begun, stamped,
                   asked, renewing>>

\* Back in the loop, the lease is confirmed as of renewal_started.
RenewConfirm ==
    /\ renewer = "renewed"
    /\ lease_end' = Left(Lease, begun)
    /\ committed' = Later(committed, Left(Lease, begun))
    /\ renewer' = IF finished THEN "ended" ELSE "waiting"
    /\ UNCHANGED <<db, until, lock, flags, handlerVars, begun, stamped,
                   asked, renewing>>

\* A lock or statement limit: retried while the known lease has margin left.
RenewTimeout ==
    /\ renewer \in {"stamped", "owned"}
    /\ lock' = "free"
    /\ IF Later(lease_end, until) >= Margin + RetryPause
       THEN renewer' = "waiting" /\ UNCHANGED failed
       ELSE renewer' = "ended" /\ failed' = TRUE
    /\ UNCHANGED <<db, local, finished, stop, handlerVars, begun, stamped, asked,
                   renewing>>

\* AuthorityChanging: an activation is in progress; tried again shortly.
RenewActivation ==
    /\ renewer = "stamped"
    /\ lock' = "free"
    /\ renewer' = "waiting"
    /\ UNCHANGED <<db, local, flags, handlerVars, begun, stamped, asked, renewing>>

\* A lost claim, a lost source claim or any other error.
RenewFails ==
    /\ renewer \in {"begun", "stamped", "owned"}
    /\ lock' = "free"
    /\ renewer' = "ended"
    /\ failed' = TRUE
    /\ UNCHANGED <<db, local, finished, stop, handlerVars, begun, stamped, asked,
                   renewing>>

-----------------------------------------------------------------------------
\* Both clocks advance together.
LeaseTick ==
    /\ db' = Left(db, 1)
    /\ lease_end' = Left(lease_end, 1)
    /\ until' = Left(until, 1)
    /\ committed' = Left(committed, 1)
    /\ since' = Passed(since)
    /\ begun' = Passed(begun)
    /\ stamped' = Passed(stamped)
    /\ UNCHANGED <<lock, flags, source, handler, renewer, asked, renewing>>

HandlerStep ==
    \/ ClaimLease \/ MaintainExecution
    \/ StartUnit \/ EndUnit \/ TakeLock \/ EnterEffect \/ EndEffect
    \/ BeginExtend \/ Extend \/ ExtendFails
    \/ AcquireSource \/ AttachSource \/ DetachSource \/ ReleaseSource
    \/ FinishTask \/ LeaveTask \/ RenewalJoined \/ DrainFails

RenewerStep ==
    \/ RenewerStarts \/ Pulse \/ RenewBegin \/ RenewStamp \/ RenewOwned
    \/ RenewCommit \/ RenewConfirm \/ RenewTimeout \/ RenewActivation \/ RenewFails

LeaseNext == HandlerStep \/ RenewerStep \/ RequestStop \/ LeaseTick

LeaseSpec == LeaseInit /\ [][LeaseNext]_leaseVars

-----------------------------------------------------------------------------
(* Properties                                                              *)

\* Types, and that the lock is held exactly by whoever is between taking and
\* releasing it (control.lock).
LeaseTypeOK ==
    /\ db \in Ticks /\ lease_end \in 0..Lease /\ until \in Ticks
    /\ committed \in Ticks
    /\ since \in Ticks /\ begun \in Ticks /\ stamped \in Ticks
    /\ asked \in Ticks
    /\ {failed, finished, stop, renewing} \subseteq BOOLEAN
    /\ source \in {"none", "held", "attached"}
    /\ handler \in HandlerPc /\ renewer \in RenewerPc
    /\ lock \in {"free", "handler", "renewer"}
    /\ lock = "handler" <=> handler \in {"locked", "effect", "extending", "promoting"}
    /\ lock = "renewer" <=> renewer \in {"begun", "stamped", "owned"}

\* A handler that has its execution to work in: claimed, and not over.
Executing == handler \notin {"claiming", "claimed", "gone", "killed"}

\* From the renewal thread's first statements on, whenever check() would let a
\* handler start a new unit of external work the task's committed lease is
\* still live, whatever the thread is waiting for (ExecutionControl.check,
\* _renewal_loop).  Before them nothing of the kind holds: HardLocalBound.
WorkCovered ==
    Executing /\ ~EndUnknown /\ MayStart => db > 0

\* The hard local bound as the background-processing specification states it,
\* with no exception: once the confirmed lease has ended, the run starts no
\* new unit of work, whatever the renewal is doing.  The code does not keep
\* it between thread.start() and the thread's assignment of lease_end.
HardLocalBound ==
    Executing /\ MayStart => committed > 0

\* No renewal shortens the lease below one the process was told it has: the
\* longest confirmed lease, counted locally, is still covered by the
\* database's (extend_lease, _renewed_seconds).
LeaseKept ==
    committed <= db

\* A renewal holding a source claim always finds it live: the handler cannot
\* detach and release it between the renewal's read of the claim and its
\* commit (maintain_source).
SourceNotRevived ==
    renewer \in {"stamped", "owned"} /\ renewing => source # "none"

\* What an execution may rely on while it holds its claim: once its renewal
\* thread runs, the lease covers whatever it starts; the lease keeps what the
\* process was told; and no renewal revives a source claim.
LeaseSafe == LeaseTypeOK /\ WorkCovered /\ LeaseKept /\ SourceNotRevived
=============================================================================
