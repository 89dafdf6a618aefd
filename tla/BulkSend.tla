------------------------------ MODULE BulkSend ------------------------------
(***************************************************************************)
(* The bulk Family send (jobs/family_mail_bulk.py): one transaction commits *)
(* a batch of messages as "submitting", the consumer then sends them one   *)
(* after another outside any transaction, and records every outcome before *)
(* it begins the next batch.  Until a message is launched it is definitely *)
(* unsent; from then on, until its helper answers, it is unknown.          *)
(*                                                                         *)
(* The claims of a batch are not renewed: constants relating the lease,    *)
(* the launch cutoff and the helper's budget are what keep a claim alive   *)
(* while its message is on the way.  The messages are of different         *)
(* Families.  Time is the ticks that remain, or that elapsed.              *)
(***************************************************************************)
EXTENDS Naturals, Sequences, FiniteSetsExt, Functions

CONSTANTS
  Message, Consumer,
  SendBatch,    \* SEND_BATCH
  SendLease,    \* SEND_LEASE_SECONDS
  SendMargin,   \* LEASE_MARGIN_SECONDS
  Cutoff,       \* SEND_CUTOFF_SECONDS
  MinLaunch,    \* MIN_LAUNCH_SECONDS
  First,        \* FIRST_DEADLINE_SECONDS
  Step,         \* DEADLINE_STEP_SECONDS
  MaxDeadline,  \* MAX_DEADLINE_SECONDS
  Helper,       \* the helper's own budget: 30 seconds
  Stall,        \* assumed: the longest a consumer takes from check to launch
  MaxSend,      \* bound: submissions of one message
  MayPause      \* bound: whether the campaign may be paused

ASSUME BulkConstants ==
  /\ {SendBatch, SendLease, SendMargin, Cutoff, MinLaunch, First, Step,
      Helper, MaxSend} \subseteq Nat \ {0}
  /\ Stall \in Nat /\ MayPause \in BOOLEAN

\* The comments of the constants, as inequalities; the last two are what is
\* assumed of Stall, which the code does not bound.
ASSUME BulkTiming ==
  /\ MaxDeadline = Cutoff + Helper
  /\ MinLaunch <= First
  /\ Cutoff + Helper + SendMargin <= SendLease
  /\ Cutoff + Stall + Helper <= SendLease
  /\ Cutoff + Stall + SendMargin <= SendLease

VARIABLES
  mail,      \* each message and the claim of its task
  batch,     \* the _Sending list in each consumer's memory
  pc, at,    \* where the consumer is in its batch
  elapsed,   \* its monotonic clock since the batch committed
  seconds,   \* what its helper is to be given
  budget,    \* what is left of the launch, or of the helper's seconds
  paused,
  wire,      \* what became of each submission at the provider
  late,      \* history: launches of a consumer since the pause began
  ruledOut, answered  \* history: as in SendOnce

history == <<ruledOut, answered>>
vars == <<mail, batch, pc, at, elapsed, seconds, budget, paused, wire, late,
          history>>

Submission == 1 .. MaxSend

BulkInit ==
  /\ mail = [m \in Message |->
               [state |-> "waiting", attempt |-> 0,
                lease |-> 0, deadline |-> 0]]
  /\ batch = [c \in Consumer |-> <<>>]
  /\ pc = [c \in Consumer |-> "idle"]
  /\ at = [c \in Consumer |-> 0]
  /\ elapsed = [c \in Consumer |-> 0]
  /\ seconds = [c \in Consumer |-> 0]
  /\ budget = [c \in Consumer |-> 0]
  /\ paused = FALSE
  /\ wire = [m \in Message |-> [a \in Submission |-> "none"]]
  /\ late = [c \in Consumer |-> 0]
  /\ ruledOut = [m \in Message |-> {}]
  /\ answered = [m \in Message |-> {}]

-----------------------------------------------------------------------------
Item(c) == batch[c][at[c]]
Result(c, i, result) == batch' = [batch EXCEPT ![c][i].result = result]

\* The loop of send_all ends with its last item; its clock is not read again.
Finishing(c) ==
  /\ pc' = [pc EXCEPT ![c] = "finishing"]
  /\ at' = [at EXCEPT ![c] = 1]
  /\ elapsed' = [elapsed EXCEPT ![c] = 0]

Advance(c) ==
  IF at[c] < Len(batch[c])
  THEN /\ pc' = [pc EXCEPT ![c] = "checking"]
       /\ at' = [at EXCEPT ![c] = @ + 1]
       /\ UNCHANGED elapsed
  ELSE Finishing(c)

\* The deadline grows with the item's position, so that those ahead of it may
\* each use a whole helper budget.
Deadline(position) == Min({MaxDeadline, First + Step * (position - 1)})

\* begin: up to SendBatch messages claimed and committed as submitting.  Which of
\* the candidates are refused or left out by the hold budget is free.
Begin(c, order) ==
  /\ pc[c] = "idle" /\ ~paused
  /\ \A i \in DOMAIN order : /\ mail[order[i]].state = "waiting"
                             /\ mail[order[i]].attempt < MaxSend
  /\ mail' = [m \in Message |->
                IF m \in Range(order)
                THEN [state |-> "submitting", attempt |-> mail[m].attempt + 1,
                      lease |-> SendLease,
                      deadline |-> Deadline(CHOOSE i \in DOMAIN order :
                                              order[i] = m)]
                ELSE mail[m]]
  /\ batch' = [batch EXCEPT ![c] =
                 [i \in DOMAIN order |->
                    [msg |-> order[i], attempt |-> mail[order[i]].attempt + 1,
                     result |-> "none"]]]
  /\ pc' = [pc EXCEPT ![c] = "checking"]
  /\ at' = [at EXCEPT ![c] = 1]
  /\ elapsed' = [elapsed EXCEPT ![c] = 0]
  /\ UNCHANGED <<seconds, budget, paused, wire, late, history>>

\* The deadline as the consumer computes it, from its own clock.
Remaining(c) ==
  LET whole == Deadline(at[c])
  IN IF whole > elapsed[c] THEN whole - elapsed[c] ELSE 0

HeldNow(c) == paused

\* Mutant: an item's turn is judged by its own deadline alone.
MayLaunchAnyTime(c) == TRUE

MayLaunch(c) == elapsed[c] < Cutoff /\ Remaining(c) >= MinLaunch

\* An item that may not be launched now is recorded as unsent; the circuit
\* may hold any item.
Hold(c) ==
  /\ pc[c] = "checking"
  /\ Result(c, at[c], "unsent")
  /\ Advance(c)
  /\ UNCHANGED <<mail, seconds, budget, paused, wire, late, history>>

\* The checks of send_all, the last of them a read without the lock; the
\* seconds given to the helper are computed before them.
Check(c) ==
  /\ pc[c] = "checking"
  /\ MayLaunch(c) /\ ~HeldNow(c)
  /\ pc' = [pc EXCEPT ![c] = "launching"]
  /\ budget' = [budget EXCEPT ![c] = Stall]
  /\ seconds' = [seconds EXCEPT ![c] = Min({Helper, Remaining(c)})]
  /\ Result(c, at[c], "unknown")
  /\ UNCHANGED <<mail, at, elapsed, paused, wire, late, history>>

\* submit_family: the helper gets the message.
Launch(c) ==
  /\ pc[c] = "launching"
  /\ pc' = [pc EXCEPT ![c] = "sending"]
  /\ budget' = [budget EXCEPT ![c] = seconds[c]]
  /\ seconds' = [seconds EXCEPT ![c] = 0]
  /\ wire' = [wire EXCEPT ![Item(c).msg][Item(c).attempt] = "launched"]
  /\ late' = [late EXCEPT ![c] = IF paused THEN @ + 1 ELSE @]
  /\ UNCHANGED <<mail, batch, at, elapsed, paused, history>>

\* The provider accepts, whether or not anyone still listens.
Accept(m, a) ==
  /\ wire[m][a] = "launched"
  /\ wire' = [wire EXCEPT ![m][a] = "accepted"]
  /\ UNCHANGED <<mail, batch, pc, at, elapsed, seconds, budget, paused, late,
                 history>>

\* The helper answers, or is stopped: at the end of its seconds, or by
\* _lease_check.
HelperEnds(c, result) ==
  LET m == Item(c).msg
      a == Item(c).attempt
  IN /\ pc[c] = "sending"
     /\ CASE result = "accepted" -> wire[m][a] = "accepted" /\ UNCHANGED wire
          [] result = "refused" ->
               /\ wire[m][a] = "launched"
               /\ wire' = [wire EXCEPT ![m][a] = "refused"]
          [] result = "unknown" -> UNCHANGED wire
     /\ Result(c, at[c], result)
     /\ Advance(c)
     /\ budget' = [budget EXCEPT ![c] = 0]
     /\ UNCHANGED <<mail, seconds, paused, late, history>>

\* What step's finally clause records of an item the loop did not reach.
LeftUnanswered(item) ==
  IF item.result = "none" THEN [item EXCEPT !.result = "unsent"] ELSE item

\* A check, or observing an outcome, raises: the loop ends there.
SendAllRaises(c) ==
  /\ pc[c] = "checking"
  /\ batch' = [batch EXCEPT ![c] =
                 [i \in DOMAIN @ |-> LeftUnanswered(@[i])]]
  /\ Finishing(c)
  /\ UNCHANGED <<mail, seconds, budget, paused, wire, late, history>>

NextOutcome(c) ==
  IF at[c] < Len(batch[c])
  THEN at' = [at EXCEPT ![c] = @ + 1] /\ UNCHANGED <<pc, batch>>
  ELSE /\ at' = [at EXCEPT ![c] = 0]
       /\ pc' = [pc EXCEPT ![c] = "idle"]
       /\ batch' = [batch EXCEPT ![c] = <<>>]

\* finish_submission proves the exact claim of the submission.
Owns(c) ==
  LET m == mail[Item(c).msg]
  IN m.state = "submitting" /\ m.attempt = Item(c).attempt /\ m.lease > 0

\* What a result may make of a message: a refusal may end its retries.
States(result) ==
  CASE result = "accepted" -> {"delivered"}
    [] result = "unknown" -> {"unknown"}
    [] result = "unsent" -> {"waiting"}
    [] result = "refused" -> {"waiting", "failed"}

\* finish_item: the outcome and the task's transitions, in one savepoint.
Record(c, state) ==
  LET m == Item(c).msg
  IN /\ pc[c] = "finishing" /\ Owns(c)
     /\ state \in States(Item(c).result)
     /\ mail' = [mail EXCEPT ![m].state = state, ![m].lease = 0,
                             ![m].deadline = 0]
     /\ ruledOut' = IF state \in {"waiting", "failed"}
                    THEN [ruledOut EXCEPT ![m] = @ \union {Item(c).attempt}]
                    ELSE ruledOut
     /\ NextOutcome(c)
     /\ UNCHANGED <<elapsed, seconds, budget, paused, wire, late, answered>>

\* _unrecorded: an outcome that cannot be written is left to recovery.
Unrecorded(c) ==
  /\ pc[c] = "finishing"
  /\ NextOutcome(c)
  /\ UNCHANGED <<mail, elapsed, seconds, budget, paused, wire, late, history>>

BulkCrash(c) ==
  /\ pc[c] # "idle"
  /\ batch' = [batch EXCEPT ![c] = <<>>]
  /\ pc' = [pc EXCEPT ![c] = "idle"]
  /\ at' = [at EXCEPT ![c] = 0]
  /\ elapsed' = [elapsed EXCEPT ![c] = 0]
  /\ seconds' = [seconds EXCEPT ![c] = 0]
  /\ budget' = [budget EXCEPT ![c] = 0]
  /\ UNCHANGED <<mail, paused, wire, late, history>>

-----------------------------------------------------------------------------
\* Mutant: an abandoned submission is queued again.
RecoverResends(m) ==
  /\ mail[m].state = "submitting"
  /\ mail[m].lease = 0 /\ mail[m].deadline = 0
  /\ mail' = [mail EXCEPT ![m].state = "waiting"]
  /\ UNCHANGED <<batch, pc, at, elapsed, seconds, budget, paused, wire, late,
                 history>>

\* recover_delivery: an abandoned submission is unknown, never resent.
Recover(m) ==
  /\ mail[m].state = "submitting"
  /\ mail[m].lease = 0 /\ mail[m].deadline = 0
  /\ mail' = [mail EXCEPT ![m].state = "unknown"]
  /\ UNCHANGED <<batch, pc, at, elapsed, seconds, budget, paused, wire, late,
                 history>>

\* resolve_delivery: an Administrator has an unknown message sent again.
Resend(m) ==
  /\ mail[m].state = "unknown"
  /\ mail' = [mail EXCEPT ![m].state = "waiting"]
  /\ answered' = [answered EXCEPT ![m] = @ \union {mail[m].attempt}]
  /\ UNCHANGED <<batch, pc, at, elapsed, seconds, budget, paused, wire, late,
                 ruledOut>>

Pause ==
  /\ MayPause
  /\ paused' = ~paused
  /\ late' = [c \in Consumer |-> 0]
  /\ UNCHANGED <<mail, batch, pc, at, elapsed, seconds, budget, wire, history>>

\* A helper is stopped at the end of its seconds, and at the lease's margin.
HelperMayRun(c) == budget[c] > 0 /\ elapsed[c] < SendLease - SendMargin

Down(n) == IF n > 0 THEN n - 1 ELSE 0

Tick ==
  /\ \A c \in Consumer : /\ pc[c] = "launching" => budget[c] > 0
                         /\ pc[c] = "sending" => HelperMayRun(c)
  /\ elapsed' = [c \in Consumer |->
                   IF pc[c] \in {"idle", "finishing"} THEN 0
                   ELSE Min({elapsed[c] + 1, SendLease})]
  /\ budget' = [c \in Consumer |-> Down(budget[c])]
  /\ mail' = [m \in Message |-> [mail[m] EXCEPT !.lease = Down(@),
                                                !.deadline = Down(@)]]
  /\ UNCHANGED <<batch, pc, at, seconds, paused, wire, late, history>>

Orders ==
  UNION {Injection(1 .. n, Message) : n \in 1 .. SendBatch}

ConsumerSteps(c) ==
  \/ \E order \in Orders : Begin(c, order)
  \/ Hold(c) \/ Check(c) \/ Launch(c) \/ SendAllRaises(c)
  \/ \E result \in {"accepted", "refused", "unknown"} : HelperEnds(c, result)
  \/ \E state \in {"waiting", "failed", "delivered", "unknown"} :
       Record(c, state)
  \/ Unrecorded(c) \/ BulkCrash(c)

BulkNext ==
  \/ \E c \in Consumer : ConsumerSteps(c)
  \/ \E m \in Message : \/ \E a \in Submission : Accept(m, a)
                         \/ Recover(m) \/ Resend(m)
  \/ Pause \/ Tick

BulkSpec == BulkInit /\ [][BulkNext]_vars

-----------------------------------------------------------------------------
\* Every variable has its type.
BulkTypeOK ==
  /\ mail \in [Message ->
                 [state : {"waiting", "submitting", "delivered", "failed",
                           "unknown"},
                  attempt : 0 .. MaxSend, lease : 0 .. SendLease,
                  deadline : 0 .. MaxDeadline]]
  /\ \A c \in Consumer :
       /\ Len(batch[c]) <= SendBatch
       /\ \A i \in DOMAIN batch[c] :
            batch[c][i] \in
              [msg : Message, attempt : Submission,
               result : {"none", "unsent", "unknown", "accepted", "refused"}]
       /\ pc[c] \in {"idle", "checking", "launching", "sending", "finishing"}
       /\ at[c] \in (IF pc[c] = "idle" THEN {0} ELSE DOMAIN batch[c])
       /\ elapsed[c] \in 0 .. SendLease
       /\ seconds[c] \in 0 .. Helper
       /\ budget[c] \in 0 .. Max({Helper, Stall})

Accepted(m) == {a \in Submission : wire[m][a] = "accepted"}

\* One message of a batch; the others' steps are stuttering steps for it.
SendOnce(m) == INSTANCE SendOnce WITH
  Message <- {m},
  started <- [x \in {m} |-> mail[x].attempt],
  accepted <- [x \in {m} |-> Accepted(x)],
  ruledOut <- [x \in {m} |-> ruledOut[x]],
  answered <- [x \in {m} |-> answered[x]]

\* The bulk path keeps the promise of the one-at-a-time path: for each message
\* it implements SendOnce, although a batch is committed long before its last
\* message is launched and its outcomes are written long after.  (SendSpec of
\* every message, with the quantifier inside the temporal operator.)
BulkSendsOnce ==
  /\ \A m \in Message : SendOnce(m)!SendInit
  /\ [][\A m \in Message :
          SendOnce(m)!SendNext \/ UNCHANGED SendOnce(m)!sendVars]_vars

\* What is recorded is true: delivered mail was accepted; mail recorded as
\* unsent or failed was accepted by no attempt an Administrator has not
\* answered for (finish_item, step).
BulkReportIsTrue ==
  \A m \in Message :
    /\ mail[m].state = "delivered" => mail[m].attempt \in Accepted(m)
    /\ mail[m].state \in {"waiting", "failed"} =>
         Accepted(m) \subseteq answered[m]

\* No helper sends for a claim that may have been taken away: while it runs,
\* its message is submitting under this very claim, and time is left to
\* record the outcome (_lease_check, SEND_LEASE_SECONDS).
ClaimOutlastsSend ==
  \A c \in Consumer :
    pc[c] = "sending" =>
      /\ Owns(c)
      /\ mail[Item(c).msg].lease >= SendMargin

\* After a pause each consumer launches at most the message whose check it
\* had already made, however many it had committed (_held_now).
PauseStopsBatch == \A c \in Consumer : paused => late[c] <= 1

\* A batch is as safe as its messages one by one: each launch is covered by
\* its claim, a pause stops the rest, and what is recorded is true.
BulkSafe == BulkTypeOK /\ ClaimOutlastsSend /\ PauseStopsBatch /\ BulkReportIsTrue
=============================================================================
