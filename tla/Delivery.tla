------------------------------ MODULE Delivery ------------------------------
(***************************************************************************)
(* Scheduled Family mail (the initial invitation and its reminders) from   *)
(* the outbox to the provider: jobs/family_mail_delivery_tasks.py,         *)
(* jobs/family_mail_dispatch.py, the recovery and the Administrator's      *)
(* resolutions, with the SQL guards stewardship_outbox_state_v1,           *)
(* stewardship_delivery_resolution_guard_v1, stewardship_delivery_control  *)
(* and stewardship_schedule_cancel_v1.                                     *)
(*                                                                         *)
(* One message is one task chain of TaskRuns; all messages here belong to  *)
(* one Family and campaign.  A dispatching consumer is a program whose     *)
(* every step is one transaction (job[c].pc), and whose mail leaves        *)
(* through a helper process that neither the consumer's death nor its      *)
(* lost lease stops (wire).  Between any two steps the consumer may die,   *)
(* lose its lease, or find the message changed.                            *)
(***************************************************************************)
EXTENDS TaskRuns

CONSTANTS
    MaxSend,       \* bound: provider attempts of one message
    MaxTries,      \* MAX_ATTEMPTS: preparation and delivery budget
    DeadlineTicks, \* PROVIDER_SECONDS
    Controls       \* bound: what happens to the campaign meanwhile

Attempt == 1..MaxSend

ASSUME DeliveryBounds ==
    /\ MaxSend \in Nat
    /\ MaxTries \in Nat \ {0}
    /\ DeadlineTicks \in Nat \ {0}
    /\ Controls \subseteq {"pause", "withdraw", "closed", "replaced"}

ASSUME MailPhases == {"preparing", "reconciling"} \subseteq Phases

-----------------------------------------------------------------------------
(* Rows.                                                                   *)

Unsent == {"pending", "retry_wait"}
Uncertain == {"submitting", "delivery_unknown"}
Settled == {"delivered", "cancelled", "permanent_failure", "delivery_unknown"}

Message ==
    [state : {"none", "submitting"} \cup Unsent \cup Settled,
     attempt : Nat, spared : Nat,
     retry : Retry, fence : Nat, worker : Consumer \cup {NoConsumer},
     deadline : Nat, wait : Nat, hold : BOOLEAN]

Occurrence == {"none", "pending", "running", "succeeded", "delivery_unknown",
               "failed", "skipped"}

\* Where a dispatching consumer stands between two transactions.
Pc == {"idle", "claimed", "nosend", "ready", "finishing", "deferring",
       "submitted", "sending", "settled"}

Job == [pc : Pc, attempt : Nat, deadline : Nat,
        seen : {"none", "retry_wait"} \cup Settled]

\* An attempt on its way through the helper process.
Stage == {"none", "connecting", "started", "accepted", "refused", "unsent"}

VARIABLES
    msg,         \* the OutboxMessage of each root
    occurrence,  \* its ScheduleOccurrence's state
    deferrals,   \* journaled retries in phase reconciling, per run
    job,         \* the dispatching program of each consumer
    wire,        \* what became of each provider attempt
    paused,      \* campaign.delivery_paused
    campaign,    \* the scope the messages were written for
    withdrawn,   \* roots whose schedule revision has been replaced
    ruledOut,    \* history: attempts recorded as definitively not accepted
    answered     \* history: attempts an Administrator answered for

environment == <<paused, campaign, withdrawn>>
history == <<ruledOut, answered>>
mailVars == <<msg, occurrence, deferrals, job, wire, environment, history>>
vars == <<taskVars, mailVars>>

NoMessage ==
    [state |-> "none", attempt |-> 0, spared |-> 0, retry |-> 0, fence |-> 0,
     worker |-> NoConsumer, deadline |-> 0, wait |-> 0, hold |-> FALSE]

Idle == [pc |-> "idle", attempt |-> 0, deadline |-> 0, seen |-> "none"]

DeliveryInit ==
    /\ TaskInit
    /\ msg = [r \in Root |-> NoMessage]
    /\ occurrence = [r \in Root |-> "none"]
    /\ deferrals = [r \in Root |-> [k \in Retry |-> 0]]
    /\ job = [c \in Consumer |-> Idle]
    /\ wire = [r \in Root |-> [a \in Attempt |-> "none"]]
    /\ paused = FALSE
    /\ campaign = "open"
    /\ withdrawn = {}
    /\ ruledOut = [r \in Root |-> {}]
    /\ answered = [r \in Root |-> {}]

-----------------------------------------------------------------------------
(* Admission.                                                              *)

\* The message of the root a consumer's claim names.
Mail(c) == msg[held[c].root]

\* disposition: a replaced scope, then a closed campaign, end unsent mail;
\* a pause holds it; "live" mail may go on to the temporary gates.
Disposition(r) ==
    CASE campaign = "replaced" \/ r \in withdrawn -> "scope_replaced"
      [] campaign = "closed" /\ r \notin withdrawn -> "campaign_closed"
      [] campaign = "open" /\ r \notin withdrawn /\ paused -> "delivery_paused"
      [] OTHER -> "live"

Ends == {"scope_replaced", "campaign_closed"}

\* The gates that raise FamilyDeliveryHeld and that this model names: another
\* message of the Family is unresolved, or the retry is not due.
Clear(r) ==
    /\ \A s \in Root \ {r} : msg[s].state \notin Uncertain
    /\ msg[r].wait = 0

\* preparation_attempts: claims of run k, less the ones that ended as holds.
Holding(r, k) ==
    run[r][k].state \in {"running", "abandoned"}
        /\ run[r][k].phase = "reconciling"
Preparations(r, k) ==
    LET spared == deferrals[r][k] + (IF Holding(r, k) THEN 1 ELSE 0)
    IN  IF run[r][k].attempt >= spared THEN run[r][k].attempt - spared ELSE 0

\* admit_task for "claim".
ClaimAdmitted(r) ==
    \/ msg[r].state \in Settled
    \/ msg[r].state \in Unsent /\ Disposition(r) \in Ends
    \/ msg[r].state \in Unsent /\ Disposition(r) = "delivery_paused"
          /\ ~msg[r].hold
    \/ msg[r].state \in Unsent /\ Disposition(r) = "live" /\ Clear(r)

-----------------------------------------------------------------------------
(* Row updates.                                                            *)

PutMail(r, m) == msg' = [msg EXCEPT ![r] = m]
PutOccurrence(r, state) == occurrence' = [occurrence EXCEPT ![r] = state]
Goto(c, pc) == job' = [job EXCEPT ![c].pc = pc]
Leave(c) == job' = [job EXCEPT ![c] = Idle]

\* Mutant: mail that returns to unsent during a pause gets no hold.
RequeuedUnheld(m, state) == [m EXCEPT !.state = state]

\* aa_delivery_new_hold: mail that becomes unsent during a pause is held.
Requeued(m, state) == [m EXCEPT !.state = state, !.hold = paused]

Cancelled(m) == [m EXCEPT !.state = "cancelled", !.hold = FALSE]

\* cancel_unsent for a set of messages, and their pending occurrences.
CancelMail(gone) ==
    /\ msg' = [r \in Root |-> IF r \in gone THEN Cancelled(msg[r]) ELSE msg[r]]
    /\ occurrence' = [r \in Root |->
                        IF r \in gone /\ occurrence[r] = "pending" THEN "skipped"
                        ELSE occurrence[r]]

\* A running task keeps its lease and drains; only waiting runs are ended.
CancelRuns(gone) ==
    /\ run' = [r \in Root |-> [k \in Retry |->
                  IF r \in gone /\ run[r][k].state \in Waiting
                  THEN [run[r][k] EXCEPT !.state = "cancelled"]
                  ELSE run[r][k]]]
    /\ UNCHANGED <<held, open, effects>>

\* Mutant: the journaled phase is not looked at, and no hold is forgiven.
CountDeferralNever(r, k) == UNCHANGED deferrals

\* retryable_failure or recovery_retry journals the run's phase.
CountDeferral(r, k) ==
    deferrals' = IF run[r][k].phase = "reconciling"
                 THEN [deferrals EXCEPT ![r][k] = @ + 1] ELSE deferrals

-----------------------------------------------------------------------------
(* The dispatching consumer.                                               *)

\* Preparation writes a message, its occurrence and its task together; the
\* task of a reminder prepared ahead waits for its due time.
Create(r, wait) ==
    /\ msg[r].state = "none"
    /\ Disposition(r) \notin Ends
    /\ Enqueue(r, wait)
    /\ PutMail(r, Requeued(msg[r], "pending"))
    /\ PutOccurrence(r, "pending")
    /\ UNCHANGED <<deferrals, job, wire, environment, history>>

ClaimMail(c, r, k) ==
    /\ ClaimAdmitted(r)
    /\ Claim(c, r, k)
    /\ Goto(c, "claimed")
    /\ UNCHANGED <<msg, occurrence, deferrals, wire, environment, history>>

RenewMail(c) ==
    /\ Heartbeat(c)
    /\ UNCHANGED mailVars

\* _execute's first effect: record the phase, read the message, and decide
\* whether anything may be sent.  The decision is acted on a step later.
ReadMessage(c) ==
    LET r == held[c].root
    IN  /\ job[c].pc = "claimed"
        /\ Progress(c, "preparing")
        /\ \/ /\ Mail(c).state \in Settled
              /\ job' = [job EXCEPT ![c].pc = "settled",
                                    ![c].seen = Mail(c).state]
           \/ /\ Mail(c).state \in Unsent
              /\ Disposition(r) # "live"
              /\ Goto(c, "nosend")
           \/ /\ Mail(c).state \in Unsent
              /\ Disposition(r) = "live"
              /\ Clear(r)
              /\ Goto(c, "ready")
        /\ UNCHANGED <<msg, occurrence, deferrals, wire, environment, history>>

\* FamilyDeliveryHeld, from the gates above or from those not modelled (the
\* mail circuit, credentials, configuration, source reconciliation):
\* _defer_held first records the phase that spares the preparation budget.
HoldBack(c) ==
    /\ job[c].pc \in {"claimed", "nosend", "ready"}
    /\ job[c].pc = "claimed" => Mail(c).state \in Unsent
    /\ Progress(c, "reconciling")
    /\ Goto(c, "deferring")
    /\ UNCHANGED <<msg, occurrence, deferrals, wire, environment, history>>

\* ...and then, in a transaction of its own, gives the run back.
Park(c, wait) ==
    /\ job[c].pc = "deferring"
    /\ Mail(c).state \in Unsent
    /\ RetryLater(c, wait)
    /\ CountDeferral(held[c].root, held[c].retry)
    /\ Leave(c)
    /\ UNCHANGED <<msg, occurrence, wire, environment, history>>

\* begin_submission where nothing is sent: a pause holds the message, an
\* ended scope cancels it, and a caller that came only for that (metadata
\* only) sends nothing even when the scope is live again.
NoSend(c) ==
    LET r == held[c].root
    IN  /\ job[c].pc \in {"nosend", "ready"}
        /\ Owns(c)
        /\ Mail(c).state \in Unsent
        /\ \/ /\ Disposition(r) = "delivery_paused"
              /\ PutMail(r, [Mail(c) EXCEPT !.hold = TRUE])
              /\ UNCHANGED occurrence
           \/ /\ Disposition(r) \in Ends
              /\ CancelMail({r})
           \/ /\ Disposition(r) = "live"
              /\ Clear(r)
              /\ job[c].pc = "nosend"
              /\ UNCHANGED <<msg, occurrence>>
        /\ Goto(c, "finishing")
        /\ UNCHANGED <<taskVars, deferrals, wire, environment, history>>

\* The pending messages of the Family that plan_family may coalesce or skip.
Pending == {r \in Root : msg[r].state \in Unsent /\ occurrence[r] = "pending"}

\* begin_submission where plan_family does not select this message.
NotSelected(c, gone) ==
    /\ job[c].pc = "ready"
    /\ Owns(c)
    /\ Mail(c).state \in Unsent
    /\ Disposition(held[c].root) = "live"
    /\ Clear(held[c].root)
    /\ gone \subseteq Pending
    /\ CancelMail(gone)
    /\ Goto(c, "finishing")
    /\ UNCHANGED <<taskVars, deferrals, wire, environment, history>>

\* Mutant: a send that did not happen is taken for a cancellation.
FinishNoSendCancels(c) ==
    /\ job[c].pc = "finishing"
    /\ Finish(c, "cancelled")
    /\ Leave(c)
    /\ UNCHANGED <<msg, occurrence, deferrals, wire, environment, history>>

\* _finish_no_send
FinishNoSend(c) ==
    /\ job[c].pc = "finishing"
    /\ \/ /\ Mail(c).state = "cancelled"
          /\ Finish(c, "cancelled")
          /\ Leave(c)
       \/ /\ Mail(c).state # "cancelled"
          /\ Progress(c, "reconciling")
          /\ Goto(c, "deferring")
    /\ UNCHANGED <<msg, occurrence, deferrals, wire, environment, history>>

\* Mutant: submission trusts the admission of the step before.
SubmitUnchecked(c, gone) ==
    LET r == held[c].root
        m == Mail(c)
    IN  /\ job[c].pc = "ready"
        /\ Owns(c)
        /\ m.state \in Unsent
        /\ m.attempt < MaxSend
        /\ gone = {}
        /\ PutMail(r, [m EXCEPT !.state = "submitting", !.attempt = @ + 1,
                               !.retry = held[c].retry, !.fence = held[c].fence,
                               !.worker = c, !.deadline = DeadlineTicks,
                               !.hold = FALSE])
        /\ PutOccurrence(r, "running")
        /\ job' = [job EXCEPT ![c] = [Idle EXCEPT
                      !.pc = "submitted", !.attempt = m.attempt + 1,
                      !.deadline = DeadlineTicks]]
        /\ UNCHANGED <<taskVars, deferrals, wire, environment, history>>

\* begin_submission: under final admission the attempt is committed, bound to
\* this claim, before any byte leaves; gone are the messages it replaces.
Submit(c, gone) ==
    LET r == held[c].root
        m == Mail(c)
    IN  /\ job[c].pc = "ready"
        /\ Owns(c)
        /\ m.state \in Unsent
        /\ m.attempt < MaxSend
        /\ Disposition(r) = "live"
        /\ Clear(r)
        /\ gone \subseteq Pending \ {r}
        /\ msg' = [s \in Root |->
                     CASE s = r ->
                            [m EXCEPT !.state = "submitting",
                                      !.attempt = @ + 1,
                                      !.retry = held[c].retry,
                                      !.fence = held[c].fence,
                                      !.worker = c,
                                      !.deadline = DeadlineTicks,
                                      !.hold = FALSE]
                       [] s \in gone -> Cancelled(msg[s])
                       [] OTHER -> msg[s]]
        /\ occurrence' = [s \in Root |->
                            CASE s = r -> "running"
                              [] s \in gone -> "skipped"
                              [] OTHER -> occurrence[s]]
        /\ job' = [job EXCEPT ![c] = [Idle EXCEPT
                      !.pc = "submitted", !.attempt = m.attempt + 1,
                      !.deadline = DeadlineTicks]]
        /\ UNCHANGED <<taskVars, deferrals, wire, environment, history>>

\* An exception before the submission committed: retry, or fail the task when
\* the preparation budget is spent; admit_task refuses either for mail that
\* was settled meanwhile, and the exception then ends the handler (LetGoMail).
PreparationFails(c, wait) ==
    LET r == held[c].root
        k == held[c].retry
    IN  /\ job[c].pc \in {"claimed", "nosend", "ready", "finishing",
                          "deferring"}
        /\ \/ /\ Preparations(r, k) >= MaxTries
              /\ Mail(c).state \in Unsent \cup
                                   {"permanent_failure", "delivery_unknown"}
              /\ Finish(c, "failed")
              /\ UNCHANGED deferrals
           \/ /\ Preparations(r, k) < MaxTries
              /\ Mail(c).state \in Unsent
              /\ RetryLater(c, wait)
              /\ CountDeferral(r, k)
        /\ Leave(c)
        /\ UNCHANGED <<msg, occurrence, wire, environment, history>>

-----------------------------------------------------------------------------
(* The helper process and the provider.                                    *)

\* The provider deadline, read once, has not passed: hand the request to the
\* helper.  Nothing here looks at the claim.
Launch(c) ==
    /\ job[c].pc = "submitted"
    /\ job[c].deadline > 0
    /\ wire' = [wire EXCEPT ![held[c].root][job[c].attempt] = "connecting"]
    /\ Goto(c, "sending")
    /\ UNCHANGED <<taskVars, msg, occurrence, deferrals, environment, history>>

\* The helper writes its "started" line before it submits; then the provider
\* accepts or refuses, whether or not anyone still listens.
Transmit(r, a) ==
    /\ \/ wire[r][a] = "connecting" /\ wire' = [wire EXCEPT ![r][a] = "started"]
       \/ wire[r][a] = "started"
             /\ \E end \in {"accepted", "refused"} :
                   wire' = [wire EXCEPT ![r][a] = end]
    /\ UNCHANGED <<taskVars, msg, occurrence, deferrals, job, environment,
                   history>>

\* Mutant: a helper killed after "started" is taken to have sent nothing.
OutcomesKilledUnsent(c) ==
    LET stage == wire[held[c].root][job[c].attempt]
    IN  CASE job[c].pc = "submitted" -> {"transient", "limited"}
          [] stage \in {"connecting", "started"} ->
                {"transient", "limited", "unknown"}
          [] stage = "accepted" -> {"accepted", "unknown"}
          [] stage = "refused" ->
                {"transient", "limited", "permanent", "unknown"}
          [] OTHER -> {}

\* What the consumer may conclude of an attempt, and what it leaves behind: a
\* helper killed before "started" never sends; after it, nothing is known.
Outcomes(c) ==
    LET stage == wire[held[c].root][job[c].attempt]
    IN  CASE job[c].pc = "submitted" -> {"transient", "limited"}
          [] stage = "connecting" -> {"transient", "limited", "unknown"}
          [] stage = "started" -> {"unknown"}
          [] stage = "accepted" -> {"accepted", "unknown"}
          [] stage = "refused" ->
                {"transient", "limited", "permanent", "unknown"}
          [] OTHER -> {}

Killed(stage) == IF stage = "connecting" THEN "unsent" ELSE stage

\* budget_spent: ordinary refusals are counted, spared ones are not (their
\* budget is hours of waiting, so giving up is possible at any of them).  A
\* changed mode or epoch gives up too; a changed current campaign does not.
GivesUp(m, outcome) ==
    LET spent == m.attempt - m.spared >= MaxTries
    IN  CASE outcome = "transient" /\ campaign # "replaced" -> {spent}
          [] outcome = "transient" /\ campaign = "replaced" -> {spent, TRUE}
          [] OTHER -> BOOLEAN

Target(outcome, spent) ==
    CASE outcome = "accepted" -> "delivered"
      [] outcome = "unknown" -> "delivery_unknown"
      [] outcome = "permanent" \/ (outcome \in {"transient", "limited"} /\ spent)
            -> "permanent_failure"
      [] OTHER -> "retry_wait"

\* Mutant: the occurrence takes the message's state.
OccurrenceOfMessage(state) == state

OccurrenceOf(state) ==
    CASE state = "delivered" -> "succeeded"
      [] state = "delivery_unknown" -> "delivery_unknown"
      [] state = "permanent_failure" -> "failed"
      [] state = "retry_wait" -> "pending"

\* _settle: finish_submission records the outcome under the exact claim that
\* submitted it and, for a limit or outage, the phase that spares the budget.
Settle(c, outcome, spent, wait) ==
    LET r == held[c].root
        m == Mail(c)
        state == Target(outcome, spent)
    IN  /\ job[c].pc \in {"submitted", "sending"}
        /\ outcome \in Outcomes(c)
        /\ spent \in GivesUp(m, outcome)
        /\ m.state = "submitting"
        /\ m.retry = held[c].retry
        /\ m.fence = held[c].fence
        /\ m.worker = c
        /\ IF outcome = "limited" /\ state = "retry_wait"
           THEN Progress(c, "reconciling")
           ELSE Owns(c) /\ UNCHANGED taskVars
        /\ PutMail(r, IF state = "retry_wait"
                      THEN [Requeued(m, state) EXCEPT
                              !.wait = wait,
                              !.spared = IF outcome = "limited" THEN @ + 1 ELSE @]
                      ELSE [m EXCEPT !.state = state])
        /\ PutOccurrence(r, OccurrenceOf(state))
        /\ wire' = [wire EXCEPT ![r][job[c].attempt] = Killed(@)]
        /\ ruledOut' = IF state \in {"retry_wait", "permanent_failure"}
                       THEN [ruledOut EXCEPT ![r] = @ \cup {m.attempt}]
                       ELSE ruledOut
        /\ job' = [job EXCEPT ![c] = [Idle EXCEPT !.pc = "settled",
                                                  !.seen = state]]
        /\ UNCHANGED <<deferrals, environment, answered>>

\* The task transition that follows the outcome read or recorded a step ago;
\* admit_task compares it with the message as it is now.
Conclude(c, wait) ==
    /\ job[c].pc = "settled"
    /\ \/ /\ job[c].seen = "delivered"
          /\ Mail(c).state = "delivered"
          /\ Finish(c, "succeeded")
          /\ UNCHANGED deferrals
       \/ /\ job[c].seen = "cancelled"
          /\ Mail(c).state = "cancelled"
          /\ Finish(c, "cancelled")
          /\ UNCHANGED deferrals
       \/ /\ job[c].seen \in {"permanent_failure", "delivery_unknown"}
          /\ Mail(c).state \in {"permanent_failure", "delivery_unknown"}
          /\ Finish(c, "failed")
          /\ UNCHANGED deferrals
       \/ /\ job[c].seen = "retry_wait"
          /\ Mail(c).state \in Unsent
          /\ RetryLater(c, wait)
          /\ CountDeferral(held[c].root, held[c].retry)
    /\ Leave(c)
    /\ UNCHANGED <<msg, occurrence, wire, environment, history>>

\* The process dies, or a refused transition or a lost claim ends the handler.
LetGoMail(c) ==
    /\ LetGo(c)
    /\ Leave(c)
    /\ UNCHANGED <<msg, occurrence, deferrals, wire, environment, history>>

-----------------------------------------------------------------------------
(* Recovery.                                                               *)

\* recovery_plan: from durable evidence only.
RecoveryPlan(r, k) ==
    CASE msg[r].state = "submitting" ->
            IF msg[r].deadline > 0 THEN "none" ELSE "recovery_fail"
      [] msg[r].state = "delivered" -> "recovery_complete"
      [] msg[r].state = "cancelled" -> "recovery_cancel"
      [] msg[r].state \in {"delivery_unknown", "permanent_failure"} ->
            "recovery_fail"
      [] msg[r].state \in Unsent ->
            IF Preparations(r, k) >= MaxTries THEN "recovery_fail"
            ELSE "recovery_retry"

\* Mutant: an abandoned submission is sent again.
RecoverMailResends(r, k, wait) ==
    /\ msg[r].state # "none"
    /\ Recover(r, k, IF msg[r].state = "submitting" THEN "recovery_retry"
                     ELSE RecoveryPlan(r, k), wait)
    /\ IF msg[r].state = "submitting"
       THEN /\ PutMail(r, Requeued(msg[r], "retry_wait"))
            /\ PutOccurrence(r, "pending")
       ELSE UNCHANGED <<msg, occurrence>>
    /\ UNCHANGED <<deferrals, job, wire, environment, history>>

\* Mutant: recovery forgets the schedule's record.
RecoverMailAlone(r, k, wait) ==
    /\ msg[r].state # "none"
    /\ Recover(r, k, RecoveryPlan(r, k), wait)
    /\ IF msg[r].state = "submitting" /\ msg[r].deadline = 0
       THEN PutMail(r, [msg[r] EXCEPT !.state = "delivery_unknown"])
       ELSE UNCHANGED msg
    /\ UNCHANGED <<occurrence, deferrals, job, wire, environment, history>>

\* Mutant: a submission is left to its owner even when the owner is gone.
RecoverMailWaits(r, k, wait) ==
    /\ msg[r].state \notin {"none", "submitting"}
    /\ Recover(r, k, RecoveryPlan(r, k), wait)
    /\ IF RecoveryPlan(r, k) = "recovery_retry" THEN CountDeferral(r, k)
       ELSE UNCHANGED deferrals
    /\ UNCHANGED <<msg, occurrence, job, wire, environment, history>>

\* recover_delivery: a submission whose owner is gone becomes uncertain, and
\* only after the provider deadline.
RecoverMail(r, k, wait) ==
    /\ msg[r].state # "none"
    /\ Recover(r, k, RecoveryPlan(r, k), wait)
    /\ IF msg[r].state = "submitting" /\ msg[r].deadline = 0
       THEN /\ PutMail(r, [msg[r] EXCEPT !.state = "delivery_unknown"])
            /\ PutOccurrence(r, "delivery_unknown")
       ELSE UNCHANGED <<msg, occurrence>>
    /\ IF RecoveryPlan(r, k) = "recovery_retry" THEN CountDeferral(r, k)
       ELSE UNCHANGED deferrals
    /\ UNCHANGED <<job, wire, environment, history>>

-----------------------------------------------------------------------------
(* The Administrator's resolutions (resolve_delivery and its SQL guard).   *)
(* Each needs the chain's latest run failed: its worker has drained.       *)

Drained(r, k) == Latest(r, k) /\ run[r][k].state = "failed"

Answered(r) == answered' = [answered EXCEPT ![r] = @ \cup {msg[r].attempt}]

AcceptUnknown(r, k) ==
    /\ Drained(r, k)
    /\ msg[r].state = "delivery_unknown"
    /\ PutMail(r, [msg[r] EXCEPT !.state = "delivered"])
    /\ PutOccurrence(r, "succeeded")
    /\ Answered(r)
    /\ UNCHANGED <<taskVars, deferrals, job, wire, environment, ruledOut>>

ConfirmUnsent(r, k) ==
    /\ Drained(r, k)
    /\ msg[r].state = "delivery_unknown"
    /\ PutMail(r, [msg[r] EXCEPT !.state = "permanent_failure"])
    /\ PutOccurrence(r, "failed")
    /\ Answered(r)
    /\ UNCHANGED <<taskVars, deferrals, job, wire, environment, ruledOut>>

\* Admitted during a pause: resume waits for every unknown delivery.
Resend(r, k, command) ==
    /\ msg[r].state = "delivery_unknown"
    /\ Disposition(r) \notin Ends
    /\ RetryFailed(r, k, command)
    /\ PutMail(r, Requeued(msg[r], "pending"))
    /\ PutOccurrence(r, "pending")
    /\ Answered(r)
    /\ UNCHANGED <<deferrals, job, wire, environment, ruledOut>>

\* SQL binds the retry to the run that made the failed attempt.
RetryFailedMail(r, k, command) ==
    /\ msg[r].state = "permanent_failure"
    /\ k = msg[r].retry
    /\ Disposition(r) = "live"
    /\ RetryFailed(r, k, command)
    /\ PutMail(r, Requeued(msg[r], "pending"))
    /\ PutOccurrence(r, "pending")
    /\ UNCHANGED <<deferrals, job, wire, environment, history>>

RetryUnsent(r, k, command) ==
    /\ msg[r].state \in Unsent
    /\ Disposition(r) = "live"
    /\ RetryFailed(r, k, command)
    /\ UNCHANGED mailVars

-----------------------------------------------------------------------------
(* The campaign around the messages.                                       *)

\* Pause and every unsent message's hold commit together.
Pause ==
    /\ "pause" \in Controls
    /\ ~paused
    /\ campaign # "replaced"
    /\ paused' = TRUE
    /\ msg' = [r \in Root |-> [msg[r] EXCEPT
                  !.hold = @ \/ msg[r].state \in Unsent]]
    /\ UNCHANGED <<taskVars, occurrence, deferrals, job, wire, campaign,
                   withdrawn, history>>

\* Resume waits for every uncertain delivery; its recovery plan coalesces or
\* skips some of the unsent messages, with their waiting runs.
Resume(gone) ==
    /\ paused
    /\ campaign = "open"
    /\ \A r \in Root : msg[r].state \notin Uncertain
    /\ gone \subseteq Pending
    /\ paused' = FALSE
    /\ msg' = [r \in Root |-> IF r \in gone THEN Cancelled(msg[r])
                              ELSE [msg[r] EXCEPT !.hold = FALSE]]
    /\ occurrence' = [r \in Root |-> IF r \in gone THEN "skipped"
                                     ELSE occurrence[r]]
    /\ CancelRuns(gone)
    /\ UNCHANGED <<deferrals, job, wire, campaign, withdrawn, history>>

\* The campaign's end passes, or the deployment's mode, epoch or current
\* campaign moves on: no message row is touched.
EndScope(scope) ==
    /\ campaign = "open"
    /\ campaign' = scope
    /\ UNCHANGED <<taskVars, msg, occurrence, deferrals, job, wire, paused,
                   withdrawn, history>>

\* schedule_cancel: a replaced or removed schedule ends its unsent mail, and
\* refuses while an attempt is uncertain.
Withdraw(r) ==
    /\ "withdraw" \in Controls
    /\ r \notin withdrawn
    /\ msg[r].state \notin Uncertain \cup {"none"}
    /\ withdrawn' = withdrawn \cup {r}
    /\ PutMail(r, IF msg[r].state \in Unsent THEN Cancelled(msg[r]) ELSE msg[r])
    /\ PutOccurrence(r, IF occurrence[r] \in {"pending", "running"}
                        THEN "skipped" ELSE occurrence[r])
    /\ CancelRuns({r})
    /\ UNCHANGED <<deferrals, job, wire, paused, campaign, history>>

MailTick ==
    /\ Tick
    /\ msg' = [r \in Root |-> [msg[r] EXCEPT !.deadline = Elapse(@),
                                             !.wait = Elapse(@)]]
    /\ job' = [c \in Consumer |-> [job[c] EXCEPT !.deadline = Elapse(@)]]
    /\ UNCHANGED <<occurrence, deferrals, wire, environment, history>>

-----------------------------------------------------------------------------
SettleSome(c) ==
    \E outcome \in {"accepted", "transient", "limited", "permanent", "unknown"},
       spent \in BOOLEAN, wait \in 1..WaitTicks :
          Settle(c, outcome, spent, wait)

RecoverSomeMail(r, k) == \E wait \in 1..WaitTicks : RecoverMail(r, k, wait)

Dispatch(c) ==
    \/ \E r \in Root, k \in Retry : ClaimMail(c, r, k)
    \/ RenewMail(c)
    \/ ReadMessage(c)
    \/ HoldBack(c)
    \/ \E wait \in 1..WaitTicks : Park(c, wait)
    \/ NoSend(c)
    \/ \E gone \in SUBSET Root : NotSelected(c, gone)
    \/ FinishNoSend(c)
    \/ \E gone \in SUBSET Root : Submit(c, gone)
    \/ \E wait \in 1..WaitTicks : PreparationFails(c, wait)
    \/ Launch(c)
    \/ SettleSome(c)
    \/ \E wait \in 1..WaitTicks : Conclude(c, wait)
    \/ LetGoMail(c)

Administer(r) ==
    \/ \E wait \in 0..WaitTicks : Create(r, wait)
    \/ \E k \in Retry : AcceptUnknown(r, k) \/ ConfirmUnsent(r, k)
    \/ \E k \in Retry, command \in Command :
          \/ Resend(r, k, command)
          \/ RetryFailedMail(r, k, command)
          \/ RetryUnsent(r, k, command)
    \/ Withdraw(r)

Control ==
    \/ Pause
    \/ \E gone \in SUBSET Root : Resume(gone)
    \/ \E scope \in Controls \cap {"closed", "replaced"} : EndScope(scope)

DeliveryNext ==
    \/ \E c \in Consumer : Dispatch(c)
    \/ \E r \in Root, a \in Attempt : Transmit(r, a)
    \/ \E r \in Root, k \in Retry : RecoverSomeMail(r, k)
    \/ \E r \in Root : Administer(r)
    \/ Control
    \/ MailTick

DeliverySpec == DeliveryInit /\ [][DeliveryNext]_vars

\* PostgreSQL's clock runs; the scheduler hints an expired or abandoned run
\* until its recovery commits; a consumer that lives and keeps its lease
\* records an outcome, because the helper is killed at the deadline.
DeliveryFair ==
    /\ WF_vars(MailTick)
    /\ \A r \in Root, k \in Retry : WF_vars(RecoverSomeMail(r, k))
    /\ \A c \in Consumer : WF_vars(SettleSome(c))

-----------------------------------------------------------------------------
(* Properties.                                                             *)

\* Type invariant of the outbox rows, the dispatching programs and the wire.
DeliveryTypeOK ==
    /\ msg \in [Root -> Message]
    /\ occurrence \in [Root -> Occurrence]
    /\ deferrals \in [Root -> [Retry -> Nat]]
    /\ job \in [Consumer -> Job]
    /\ wire \in [Root -> [Attempt -> Stage]]
    /\ paused \in BOOLEAN
    /\ campaign \in {"open", "closed", "replaced"}
    /\ withdrawn \in SUBSET Root
    /\ ruledOut \in [Root -> SUBSET Attempt]
    /\ answered \in [Root -> SUBSET Attempt]

Accepted == [r \in Root |-> {a \in Attempt : wire[r][a] = "accepted"}]
Started == [r \in Root |-> msg[r].attempt]

SendOnce == INSTANCE SendOnce WITH
    Message <- Root, started <- Started, accepted <- Accepted

\* The outbox, its workers, recovery and the Administrator together implement
\* SendOnce: no crash, lost lease or late answer starts an attempt while the
\* one before it is in doubt, and nothing recorded as unsent was accepted.
SendsOnce == SendOnce!SendSpec

\* What the outbox reports is true, or an Administrator said it: a delivered
\* message's last attempt was accepted, and mail reported as unsent, failed or
\* cancelled reached nobody by any attempt.
ReportIsTrue ==
    \A r \in Root :
        /\ msg[r].state = "delivered" =>
              msg[r].attempt \in Accepted[r] \cup answered[r]
        /\ msg[r].state \in Unsent \cup {"permanent_failure", "cancelled"} =>
              Accepted[r] \subseteq answered[r]

\* Whatever state a message is in, the latest run of its chain can still move
\* it on: a submission has a run that settles or is recovered, an uncertain or
\* failed message ends with the failed run every resolution asks for (the very
\* run of its last attempt), and unsent mail is never left behind a run that
\* succeeded or was cancelled.
NoMailStranded ==
    \A r \in Root, k \in Retry : Latest(r, k) =>
        LET state == run[r][k].state
        IN  CASE msg[r].state = "submitting" ->
                    /\ k = msg[r].retry
                    /\ state \in {"running", "abandoned"}
                    /\ state = "running" => run[r][k].fence = msg[r].fence
              [] msg[r].state \in {"delivery_unknown", "permanent_failure"} ->
                    /\ k = msg[r].retry
                    /\ state \in {"running", "abandoned", "failed"}
              [] msg[r].state \in Unsent ->
                    state \notin {"succeeded", "cancelled"}
              [] OTHER -> TRUE

\* stewardship_occurrence_delivery_conflict_v1 never finds a conflict (an ended
\* occurrence with unsent mail, delivered or failed mail recorded otherwise,
\* cancelled mail recorded as sent), so an inconsistent pair never blocks a
\* schedule change: the schedule's record of a message agrees with the
\* outbox's after every path that moves either.
OccurrenceAgrees ==
    \A r \in Root :
        /\ msg[r].state = "delivered" => occurrence[r] = "succeeded"
        /\ msg[r].state = "permanent_failure" => occurrence[r] = "failed"
        /\ msg[r].state = "delivery_unknown"
              <=> occurrence[r] = "delivery_unknown"
        /\ msg[r].state = "submitting" <=> occurrence[r] = "running"
        /\ msg[r].state \in Unsent <=> occurrence[r] = "pending"
        /\ msg[r].state = "cancelled" => occurrence[r] # "succeeded"

\* The Family's messages never overtake an unresolved one: at most one of them
\* is on its way or of unknown outcome, although each is prepared, checked and
\* submitted in separate transactions of separate consumers.
OneUncertainPerFamily ==
    \A r, s \in Root :
        msg[r].state \in Uncertain /\ msg[s].state \in Uncertain => r = s

\* During a pause every unsent message carries the pause's hold, also one that
\* an outcome or a resend returned to unsent after the pause began; no hold
\* outlives the pause or stays on mail that is no longer unsent.
PauseHoldsUnsent ==
    \A r \in Root : msg[r].hold <=> paused /\ msg[r].state \in Unsent

\* The preparation budget counts each claim of a live run once and forgives
\* each hold once, however the hold ends: by its own retry, or by a crash after
\* the phase was written and the recovery that follows (preparation_attempts).
BudgetCountsClaims ==
    [][\A r \in Root, k \in Retry :
          LET claimed == run[r][k].attempt # run'[r][k].attempt
              holds == ~Holding(r, k) /\ Holding(r, k)'
              one(b) == IF b THEN 1 ELSE 0
          IN  run'[r][k].state \notin Terminal \cup {"absent"} =>
                Preparations(r, k)' + one(holds) =
                    Preparations(r, k) + one(claimed)]_vars

\* A submission does not stay "submitting": its owner settles it, or its lease
\* and deadline run out and recovery records the uncertainty.
SubmissionEnds ==
    \A r \in Root : []<>(msg[r].state # "submitting")
=============================================================================
