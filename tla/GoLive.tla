------------------------------- MODULE GoLive -------------------------------
(***************************************************************************)
(* One go-live request, from Start go-live to Confirm Production: the      *)
(* Testing cleanup and its journal (campaigns/production_states.py,        *)
(* cleanup_requests.py, cleanup_tasks.py), the scheduler's producer of     *)
(* Family link work (campaigns/go_live_sequencing.py), the preparation and *)
(* discard tasks (campaigns/activation_tokens.py, activation_cleanup.py,   *)
(* activation_tasks.py, link_tokens.py), the Prepare step's controls       *)
(* (accounts/go_live_prepare.py, go_live_prepare_views.py) and the         *)
(* confirmation (schema/production_confirmation.sql).                      *)
(*                                                                         *)
(* Every step runs under the work-order lock, so each transaction is one   *)
(* action.  A task is a record of its state and its claims so far; queued  *)
(* and retry_wait are both "waiting", for every rule here treats them      *)
(* alike.  The inputs a preparation is bound to are the number of the      *)
(* source generation: each promotion, and only a promotion, makes new      *)
(* ones.  The hold may end at any time.                                    *)
(***************************************************************************)
EXTENDS Integers, FiniteSets, Sequences

CONSTANTS
    TestRows,       \* Testing rows to delete, one per batch
    Families,       \* links of one preparation, one per batch
    MaxTries,       \* claims of a task before a failure is final (5 in the code)
    MaxPreparations,\* MAX_PREPARATIONS per attempt (4 in the code)
    MaxAttempts,    \* bound: attempts begun
    MaxGeneration,  \* bound: source generations
    MaxRetries,     \* bound: explicit retries by the Administrator
    MayLoseAuthority \* whether the requester may stop being an Administrator

ASSUME GoLiveBounds ==
    /\ TestRows \in Nat /\ Families \in Nat \ {0}
    /\ {MaxTries, MaxPreparations, MaxAttempts, MaxGeneration} \subseteq Nat \ {0}
    /\ MaxRetries \in Nat /\ MayLoseAuthority \in BOOLEAN

VARIABLES
    request,    \* ProductionTransitionRequest.state
    stop,       \* a ProductionCleanupCancellation exists
    left,       \* inventory_total - processed_count
    cleaner,    \* the cleanup task; bound: its claim is the request's
    generation, \* SourceCurrent.generation
    attempt,    \* the current attempt: its number, its refresh, its hold
    links,      \* the ProductionTokenPreparation rows, oldest first
    refused,    \* GoLiveProducer.refused: the scheduler's memory
    authority,  \* the requester is a current Administrator
    retries,    \* explicit retries so far
    reviewed    \* the links the Confirm page last reviewed, by position

goLiveVars == <<request, stop, left, cleaner, generation, attempt, links, refused,
          authority, retries, reviewed>>
cleanupVars == <<request, stop, left, cleaner>>

Nonterminal == {"waiting", "running", "abandoned"}
TaskStates == Nonterminal \cup {"succeeded", "failed", "cancelled"}
NewTask == [state |-> "waiting", tries |-> 0]
NoTask == [state |-> "none", tries |-> 0]
OpenCleanup == {"cleanup_queued", "cleanup_running", "cleanup_retry_wait",
         "cleanup_failed", "cleanup_complete"}

(***************************************************************************)
(* What the rows say.                                                      *)
(***************************************************************************)
Discarded(p) == p.discard.state # "none"

\* disposed: no generation, or a cancelled one with every link scrubbed.
Disposed(p) == p.staging = "none" \/ (p.staging = "cancelled" /\ p.sealed = 0)

\* live_preparations, and preparation_available's test per row.
Live(p) ==
    \/ p.task.state \in Nonterminal
    \/ p.staging \in {"building", "ready", "active"}
    \/ p.sealed > 0

\* current_inputs answers (it raises StaleRecordError otherwise).
InputsAvailable == request = "cleanup_complete" /\ ~stop

\* require_current: bound to today's inputs and not discarded.
Current(p) == InputsAvailable /\ ~Discarded(p) /\ p.inputs = generation

\* preparations: the rows of the current attempt.
Made == {i \in DOMAIN links : links[i].attempt = attempt.number}
Newest == Len(links)

(***************************************************************************)
(* The Prepare step as the page draws it (go_live_prepare._started).       *)
(***************************************************************************)
LinksState ==
    IF \E i \in DOMAIN links : links[i].discard.state = "failed" THEN "discard_failed"
    ELSE IF Newest = 0 THEN "none"
    ELSE LET p == links[Newest] IN
         IF ~Current(p) THEN "stale"
         ELSE IF p.task.state = "failed" THEN "prepare_failed"
         ELSE IF p.task.state = "succeeded" /\ p.staging = "ready" THEN "done"
         ELSE "active"

\* _again_reason: the step waits for Refresh and prepare again.
AgainDue ==
    \/ attempt.refresh = "failed"
    \/ ~attempt.held
    \/ LinksState \in {"stale", "none"} /\ Cardinality(Made) >= MaxPreparations

PrepareStep ==
    IF request = "activated" THEN "confirmed"
    ELSE IF stop \/ request \notin OpenCleanup THEN "stopped"
    ELSE IF request = "cleanup_failed" THEN "failed"
    ELSE IF AgainDue THEN "again"
    ELSE IF LinksState \in {"discard_failed", "prepare_failed"} THEN "failed"
    ELSE IF request = "cleanup_complete" /\ attempt.refresh = "done"
              /\ LinksState = "done" THEN "ready"
    ELSE "running"

(***************************************************************************)
(* Start go-live (start_cleanup, begin_cleanup, begin_attempt 1) made the  *)
(* request, its cleanup task and the first attempt in one transaction.     *)
(***************************************************************************)
GoLiveInit ==
    /\ request = "cleanup_queued" /\ stop = FALSE /\ left = TestRows
    /\ cleaner = [state |-> "waiting", tries |-> 0, bound |-> FALSE]
    /\ generation = 1
    /\ attempt = [number |-> 1, refresh |-> "active", held |-> TRUE]
    /\ links = <<>> /\ refused = {} /\ authority = TRUE
    /\ retries = 0 /\ reviewed = 0

(***************************************************************************)
(* The cleanup task.                                                       *)
(***************************************************************************)
\* eligible: the request still owns the gate of a Testing draft.
Eligible == request \in OpenCleanup

\* Mutant: the cancellation is not mirrored in the journal.
CancelWithoutMirror ==
    /\ cleaner' = [cleaner EXCEPT !.state = "cancelled", !.bound = FALSE]
    /\ UNCHANGED <<request, stop, left>>

\* Cancelling the task also cancels a request with a stop recorded
\* (stewardship_cleanup_cancel_finish_v1).
CancelCleaner ==
    /\ cleaner' = [cleaner EXCEPT !.state = "cancelled", !.bound = FALSE]
    /\ request' = IF stop THEN "cancelled" ELSE request
    /\ UNCHANGED <<stop, left>>

ClaimCleanup ==
    /\ cleaner.state = "waiting"
    /\ request \in {"cleanup_queued", "cleanup_running", "cleanup_retry_wait",
                    "cleanup_complete"}
    /\ cleaner' = [state |-> "running", tries |-> cleaner.tries + 1, bound |-> FALSE]
    /\ UNCHANGED <<request, stop, left>>

\* _execute's first effect: START or RECOVER binds the request to the claim.
BindCleanup ==
    /\ cleaner.state = "running" /\ ~cleaner.bound /\ ~stop /\ Eligible
    /\ cleaner' = [cleaner EXCEPT !.bound = TRUE]
    /\ request' = IF request = "cleanup_complete" THEN request ELSE "cleanup_running"
    /\ UNCHANGED <<stop, left>>

\* One pass of the loop: delete a batch, or COMPLETE once none is left.
CleanupBatch ==
    /\ cleaner.state = "running" /\ cleaner.bound /\ ~stop
    /\ request = "cleanup_running"
    /\ IF left = 0 THEN request' = "cleanup_complete" /\ left' = left
                   ELSE left' = left - 1 /\ request' = request
    /\ UNCHANGED <<stop, cleaner>>

\* The last effect acknowledges the completion in a transaction of its own.
AcknowledgeCleanup ==
    /\ cleaner.state = "running" /\ cleaner.bound /\ ~stop
    /\ request = "cleanup_complete"
    /\ cleaner' = [cleaner EXCEPT !.state = "succeeded", !.bound = FALSE]
    /\ UNCHANGED <<request, stop, left>>

\* Any effect of the worker that finds the Administrator's stop.
StopCleanup ==
    /\ cleaner.state = "running" /\ stop
    /\ CancelCleaner

\* A DatabaseError: the batch rolled back, RETRY_LATER or FAIL.
CleanupFails ==
    /\ cleaner.state = "running" /\ ~stop
    /\ request \in {"cleanup_queued", "cleanup_running", "cleanup_retry_wait"}
    /\ IF cleaner.tries >= MaxTries
         THEN /\ request' = "cleanup_failed"
              /\ cleaner' = [cleaner EXCEPT !.state = "failed", !.bound = FALSE]
         ELSE /\ request' = "cleanup_retry_wait"
              /\ cleaner' = [cleaner EXCEPT !.state = "waiting", !.bound = FALSE]
    /\ UNCHANGED <<stop, left>>

\* The worker dies, or an effect is refused: the lease runs out.
CleanupLapses ==
    /\ cleaner.state = "running"
    /\ cleaner' = [cleaner EXCEPT !.state = "abandoned", !.bound = FALSE]
    /\ UNCHANGED <<request, stop, left>>

\* recover_cleanup's plan, and the failure's mirror in the journal
\* (stewardship_cleanup_recovery_v1).  No plan, no step.
RecoverCleanup ==
    /\ cleaner.state = "abandoned"
    /\ \/ stop /\ CancelCleaner
       \/ /\ ~stop /\ request = "cleanup_complete"
          /\ cleaner' = [cleaner EXCEPT !.state = "succeeded"]
          /\ UNCHANGED <<request, stop, left>>
       \/ /\ ~stop /\ request # "cleanup_complete" /\ Eligible
          /\ IF request = "cleanup_failed" \/ cleaner.tries >= MaxTries
               THEN /\ cleaner' = [cleaner EXCEPT !.state = "failed"]
                    /\ request' = "cleanup_failed"
               ELSE /\ cleaner' = [cleaner EXCEPT !.state = "waiting"]
                    /\ request' = request
          /\ UNCHANGED <<stop, left>>

CleanupWorks ==
    /\ ClaimCleanup \/ BindCleanup \/ CleanupBatch \/ AcknowledgeCleanup \/ StopCleanup
    /\ UNCHANGED <<generation, attempt, links, refused, authority, retries, reviewed>>

CleanupBreaks ==
    /\ CleanupFails \/ CleanupLapses
    /\ UNCHANGED <<generation, attempt, links, refused, authority, retries, reviewed>>

CleanupRecovers ==
    /\ RecoverCleanup
    /\ UNCHANGED <<generation, attempt, links, refused, authority, retries, reviewed>>

(***************************************************************************)
(* The link tasks.                                                         *)
(***************************************************************************)
Set(i, p) == links' = [links EXCEPT ![i] = p]
LinksOnly == UNCHANGED <<cleanupVars, generation, attempt, refused, authority, retries, reviewed>>

\* scrub_batch: cancel the generation, then destroy a batch of its links.
\* It refuses a generation that is selected.
Scrubbed(p) ==
    IF p.staging = "none" THEN p
    ELSE [p EXCEPT !.staging = "cancelled", !.sealed = IF @ = 0 THEN 0 ELSE @ - 1]

\* prepare_batch: begin the generation, seal a batch; the last one makes it
\* ready, and the task completes in the same transaction.
Sealed(p) ==
    LET n == p.sealed + 1 IN
    IF n = Families
      THEN [p EXCEPT !.staging = "ready", !.sealed = n, !.task.state = "succeeded"]
      ELSE [p EXCEPT !.staging = "building", !.sealed = n]

Claimed(task) == [state |-> "running", tries |-> task.tries + 1]

ClaimLinks(i) ==
    \/ /\ links[i].task.state = "waiting"
       /\ Set(i, [links[i] EXCEPT !.task = Claimed(@)])
    \/ /\ links[i].discard.state = "waiting"
       /\ Set(i, [links[i] EXCEPT !.discard = Claimed(@)])

\* One effect of the preparation task: seal a batch of a current preparation,
\* else scrub a batch and cancel once it is disposed.
PrepareBatch(i) ==
    LET p == links[i]  s == Scrubbed(p) IN
    /\ p.task.state = "running" /\ p.staging # "active"
    /\ IF Current(p)
         THEN p.staging \in {"none", "building"} /\ Set(i, Sealed(p))
         ELSE Set(i, IF Disposed(s) THEN [s EXCEPT !.task.state = "cancelled"] ELSE s)

\* One effect of the discard task.
DiscardBatch(i) ==
    LET p == links[i]  s == Scrubbed(p) IN
    /\ p.discard.state = "running" /\ p.staging # "active"
    /\ Set(i, IF Disposed(s) THEN [s EXCEPT !.discard.state = "succeeded"] ELSE s)

\* A database failure is retried until the claims run out.
Failed(task) ==
    [task EXCEPT !.state = IF task.tries >= MaxTries THEN "failed" ELSE "waiting"]

LinksFail(i) ==
    \/ /\ links[i].task.state = "running"
       /\ \/ Set(i, [links[i] EXCEPT !.task = Failed(@)])
          \/ Set(i, [links[i] EXCEPT !.task.state = "abandoned"])
    \/ /\ links[i].discard.state = "running"
       /\ \/ Set(i, [links[i] EXCEPT !.discard = Failed(@)])
          \/ Set(i, [links[i] EXCEPT !.discard.state = "abandoned"])

\* recovery(status): committed proof first, then the claims left.
RecoverPrepare(i) ==
    LET p == links[i] IN
    /\ p.task.state = "abandoned"
    /\ Set(i, [p EXCEPT !.task =
          IF Current(p) /\ p.staging = "ready" THEN [@ EXCEPT !.state = "succeeded"]
          ELSE IF ~Current(p) /\ Disposed(p) THEN [@ EXCEPT !.state = "cancelled"]
          ELSE Failed(@)])

RecoverDiscard(i) ==
    LET p == links[i] IN
    /\ p.discard.state = "abandoned"
    /\ Set(i, [p EXCEPT !.discard =
          IF Disposed(p) THEN [@ EXCEPT !.state = "succeeded"] ELSE Failed(@)])

LinksWork ==
    /\ \E i \in DOMAIN links :
          ClaimLinks(i) \/ PrepareBatch(i) \/ DiscardBatch(i)
    /\ LinksOnly

LinksBreak == (\E i \in DOMAIN links : LinksFail(i)) /\ LinksOnly

LinksRecover ==
    /\ \E i \in DOMAIN links : RecoverPrepare(i) \/ RecoverDiscard(i)
    /\ LinksOnly

(***************************************************************************)
(* The scheduler's producer (precheck, advance): at most one step a loop.  *)
(***************************************************************************)
Discard(ps, I) ==
    [i \in DOMAIN ps |-> IF i \in I THEN [ps[i] EXCEPT !.discard = NewTask] ELSE ps[i]]

NewLinks(n) ==
    [attempt |-> n, inputs |-> generation, task |-> NewTask,
     staging |-> "none", sealed |-> 0, discard |-> NoTask]

\* precheck and current_inputs: there may be something to do.
ProducerMayAct ==
    InputsAvailable /\ attempt.held /\ attempt.refresh = "done"

LatestLinks == CHOOSE i \in Made : \A j \in Made : j <= i
LatestHeld == Made # {} /\ ~Discarded(links[LatestLinks])
Number == Cardinality(Made)
Key(action, n) == <<action, attempt.number, n>>
Pending == {i \in DOMAIN links : Live(links[i]) /\ ~Discarded(links[i])}
AnyLive == \E i \in DOMAIN links : Live(links[i])
\* The attempt has a preparation left, and it was not refused here.
Replaceable == Number < MaxPreparations /\ Key("prepare", Number + 1) \notin refused

\* The step advance decides on, by its key; none while it waits.
Step ==
    IF ~ProducerMayAct THEN {}
    ELSE IF LatestHeld
      THEN IF links[LatestLinks].inputs = generation THEN {} ELSE {Key("discard", Number)}
    ELSE IF ~Replaceable THEN {}
    ELSE IF Pending # {} THEN {Key("discard_prior", Number)}
    ELSE IF AnyLive \/ (Made # {} /\ ~Disposed(links[LatestLinks])) THEN {}
    ELSE {Key("prepare", Number + 1)}

\* What the owner does with it (request_cancellation, request_preparation).
TakeStep(key) ==
    links' = CASE key[1] = "discard" -> Discard(links, {LatestLinks})
               [] key[1] = "discard_prior" ->
                    Discard(links, {CHOOSE i \in Pending : \A j \in Pending : i <= j})
               [] OTHER -> Append(links, NewLinks(attempt.number))

Produce ==
    /\ \E key \in Step \ refused :
          IF authority THEN TakeStep(key) /\ refused' = refused
                       ELSE refused' = refused \cup {key} /\ links' = links
    /\ UNCHANGED <<cleanupVars, generation, attempt, authority, retries, reviewed>>

RestartScheduler ==
    /\ refused # {} /\ refused' = {}
    /\ UNCHANGED <<cleanupVars, generation, attempt, links, authority, retries, reviewed>>

(***************************************************************************)
(* The Administrators.                                                     *)
(***************************************************************************)
\* _stop: discard the live links and record the stop, in one transaction;
\* a cleanup task at a safe boundary ends the request at once.
StopGoLive ==
    /\ request \in OpenCleanup /\ ~stop
    /\ links' = Discard(links, Pending)
    /\ stop' = TRUE
    /\ IF cleaner.state \in {"running", "abandoned"}
         THEN UNCHANGED <<request, cleaner>>
         ELSE /\ request' = "cancelled"
              /\ cleaner' = [cleaner EXCEPT !.state =
                                IF @ = "waiting" THEN "cancelled" ELSE @]
    /\ UNCHANGED <<left, generation, attempt, refused, authority, retries, reviewed>>

\* Refresh and prepare again: begin_attempt of the next number.
Again ==
    /\ PrepareStep = "again" /\ attempt.number < MaxAttempts
    /\ attempt' = [number |-> attempt.number + 1, refresh |-> "active", held |-> TRUE]
    /\ UNCHANGED <<cleanupVars, generation, links, refused, authority, retries, reviewed>>

\* Retry of the failed cleanup: a new run of the same chain.
RetryCleanup ==
    /\ PrepareStep = "failed" /\ request = "cleanup_failed" /\ retries < MaxRetries
    /\ cleaner' = [state |-> "waiting", tries |-> 0, bound |-> FALSE]
    /\ request' = "cleanup_queued"
    /\ retries' = retries + 1
    /\ UNCHANGED <<stop, left, generation, attempt, links, refused, authority, reviewed>>

\* Retry of a failed preparation or discard, while the row still calls for
\* it; after a stop the Check step offers the discard's.
RetryLinks ==
    /\ retries < MaxRetries
    /\ \E i \in DOMAIN links : LET p == links[i] IN
         \/ /\ PrepareStep = "failed" /\ LinksState = "prepare_failed" /\ i = Newest
            /\ ~ \E j \in DOMAIN links \ {i} : Live(links[j])
            /\ Set(i, [p EXCEPT !.task = NewTask])
         \/ /\ p.discard.state = "failed"
            /\ PrepareStep = "stopped" \/ (PrepareStep = "failed" /\ LinksState = "discard_failed")
            /\ Set(i, [p EXCEPT !.discard = NewTask])
    /\ retries' = retries + 1
    /\ UNCHANGED <<cleanupVars, generation, attempt, refused, authority, reviewed>>

\* The Confirm page reviews the ready links in one transaction ...
ReviewLinks ==
    /\ PrepareStep = "ready" /\ reviewed # Newest
    /\ reviewed' = Newest
    /\ UNCHANGED <<cleanupVars, generation, attempt, links, refused, authority, retries>>

\* Mutant: the confirmation trusts what the page reviewed.
ConfirmAsReviewed(p) == request = "cleanup_complete" /\ p.staging = "ready"

\* ... and the confirmation is a later one: it collects the readiness again
\* (collect_readiness, the insert's guard) for the links reviewed.
ConfirmGuard(p) ==
    /\ Current(p) /\ p.staging = "ready" /\ p.task.state = "succeeded"
    /\ attempt.held /\ attempt.refresh = "done"

ConfirmLinks ==
    /\ reviewed # 0 /\ ConfirmGuard(links[reviewed])
    /\ Set(reviewed, [links[reviewed] EXCEPT !.staging = "active"])
    /\ request' = "activated"
    /\ UNCHANGED <<stop, left, cleaner, generation, attempt, refused, authority,
                   retries, reviewed>>

(***************************************************************************)
(* The world: promotions, a failing refresh, the clock, the user list.     *)
(***************************************************************************)
\* full: a full refresh that started after the attempt began.
Promote(full) ==
    /\ request \in OpenCleanup /\ generation < MaxGeneration
    /\ generation' = generation + 1
    /\ attempt' = IF full THEN [attempt EXCEPT !.refresh = "done"] ELSE attempt
    /\ UNCHANGED <<cleanupVars, links, refused, authority, retries, reviewed>>

RefreshFails ==
    /\ request \in OpenCleanup /\ attempt.refresh = "active"
    /\ attempt' = [attempt EXCEPT !.refresh = "failed"]
    /\ UNCHANGED <<cleanupVars, generation, links, refused, authority, retries, reviewed>>

HoldEnds ==
    /\ request \in OpenCleanup /\ attempt.held
    /\ attempt' = [attempt EXCEPT !.held = FALSE]
    /\ UNCHANGED <<cleanupVars, generation, links, refused, authority, retries, reviewed>>

ChangeAuthority ==
    /\ MayLoseAuthority /\ request \in OpenCleanup
    /\ authority' = ~authority
    /\ UNCHANGED <<cleanupVars, generation, attempt, links, refused, retries, reviewed>>

Finished == PrepareStep \in {"confirmed", "stopped"} /\ UNCHANGED goLiveVars

GoLiveNext ==
    \/ CleanupWorks \/ CleanupBreaks \/ CleanupRecovers
    \/ LinksWork \/ LinksBreak \/ LinksRecover
    \/ Produce \/ RestartScheduler
    \/ StopGoLive \/ Again \/ RetryCleanup \/ RetryLinks \/ ReviewLinks \/ ConfirmLinks
    \/ (\E full \in BOOLEAN : Promote(full))
    \/ RefreshFails \/ HoldEnds \/ ChangeAuthority
    \/ Finished

GoLiveSpec == GoLiveInit /\ [][GoLiveNext]_goLiveVars

(***************************************************************************)
(* Fairness: the workers claim and run what waits, recovery looks at what  *)
(* was abandoned, the scheduler keeps looping and a refresh ends.  No one  *)
(* is assumed to click, to fail or to wait for the hold's end.             *)
(***************************************************************************)
RefreshEnds == attempt.refresh = "active" /\ (Promote(TRUE) \/ RefreshFails)

GoLiveFairness ==
    /\ WF_goLiveVars(CleanupWorks) /\ WF_goLiveVars(CleanupRecovers)
    /\ WF_goLiveVars(LinksWork) /\ WF_goLiveVars(LinksRecover)
    /\ WF_goLiveVars(Produce) /\ WF_goLiveVars(RefreshEnds)

FairGoLiveSpec == GoLiveSpec /\ GoLiveFairness

(***************************************************************************)
(* Properties.                                                             *)
(***************************************************************************)
Tasks == [state : TaskStates, tries : 0..MaxTries]
PreparationRows ==
    [attempt : 1..MaxAttempts, inputs : 1..MaxGeneration, task : Tasks,
     staging : {"none", "building", "ready", "active", "cancelled"},
     sealed : 0..Families, discard : Tasks \cup {NoTask}]

\* Every row holds a value its column admits; a task is claimed at most
\* MaxTries times, and an attempt makes at most MaxPreparations.
GoLiveTypeOK ==
    /\ request \in OpenCleanup \cup {"activated", "cancelled"}
    /\ stop \in BOOLEAN /\ left \in 0..TestRows
    /\ cleaner \in [state : TaskStates, tries : 0..MaxTries, bound : BOOLEAN]
    /\ generation \in 1..MaxGeneration
    /\ attempt \in [number : 1..MaxAttempts, refresh : {"active", "done", "failed"},
                    held : BOOLEAN]
    /\ links \in Seq(PreparationRows)
    /\ \A n \in 1..MaxAttempts :
          Cardinality({i \in DOMAIN links : links[i].attempt = n}) <= MaxPreparations
    /\ authority \in BOOLEAN /\ retries \in 0..MaxRetries /\ reviewed \in 0..Len(links)

\* The owner admits one preparation at a time: whatever the producer, the
\* two workers and their recovery do, no two preparations of the request
\* have a task to run or links not yet destroyed.
OneStaging == Cardinality({i \in DOMAIN links : Live(links[i])}) <= 1

\* Confirmed links stay live: they are the complete set, bound to the
\* source generation they were confirmed on, and no discard or late
\* preparation task is left that could scrub them.
LiveLinksKept ==
    /\ request = "activated" <=> \E i \in DOMAIN links : links[i].staging = "active"
    /\ \A i \in DOMAIN links : links[i].staging = "active" =>
          /\ links[i].sealed = Families /\ links[i].inputs = generation
          /\ links[i].task.state = "succeeded" /\ ~Discarded(links[i])

\* A stopped go-live gives up its gate only once no cleanup worker can
\* still be deleting: the task has ended.
ReleasedAfterWorker == request = "cancelled" => cleaner.state \notin Nonterminal

\* After a stop, every link still sealed has a discard that is to destroy it.
StopLeavesOwner ==
    request = "cancelled" =>
        \A i \in DOMAIN links : Disposed(links[i]) \/ Discarded(links[i])

\* A stop takes effect: the request is cancelled, and its links are
\* destroyed or the failed discard is shown for retry.
StopEnds ==
    stop ~> /\ request = "cancelled"
            /\ \/ \A i \in DOMAIN links : Disposed(links[i])
               \/ \E i \in DOMAIN links : links[i].discard.state = "failed"

\* While the Prepare step says "running", something is still moving by
\* itself: it does not say so for ever, even if the hold never ends, unless
\* the requester lost the authority the producer asks for.
PrepareMoves ==
    PrepareStep = "running" ~>
        PrepareStep # "running" \/ ~authority \/ refused # {}

\* Going live keeps exactly the links it confirmed, whatever is stopped,
\* retried or recovered around them.
GoLiveSafe ==
    /\ GoLiveTypeOK
    /\ OneStaging
    /\ LiveLinksKept
    /\ ReleasedAfterWorker
    /\ StopLeavesOwner

\* Neither a stop nor a preparation hangs.
GoLiveMoves == StopEnds /\ PrepareMoves
=============================================================================
