----------------------------- MODULE MailGiveUp -----------------------------
(***************************************************************************)
(* How long one message is retried: the provider outcomes that are spared  *)
(* from its attempt budget (sending-limit refusals and shared outages),    *)
(* the clocks that end those instead, and how both are read back from two  *)
(* journals (jobs/family_mail_dispatch.py: finish_submission,              *)
(* budget_spent, limit_history, limit_run; family_mail_delivery_tasks.py:  *)
(* _settle, mark_hold).                                                    *)
(*                                                                         *)
(* The outbox journal does not say that a refusal was a limit: that is     *)
(* inferred from a reconciling phase in the task journal under the same    *)
(* fence, which admission holds and bulk releases write too.  A failure    *)
(* for a changed mode, epoch or revision is Delivery's.  Time is in ticks; *)
(* any number of attempts fit in one.                                      *)
(***************************************************************************)
EXTENDS Integers, FiniteSetsExt, SequencesExt

CONSTANTS MaxAttempts,  \* MAX_ATTEMPTS
          GiveUp,       \* LIMIT_GIVE_UP
          Absolute,     \* LIMIT_GIVE_UP_ABSOLUTE
          Window,       \* ACCEPTANCE_WINDOW
          MaxNow,       \* bound: ticks
          MaxSends,     \* bound: provider outcomes and staff retries
          MaxFences     \* bound: claims and expiries

ASSUME GiveUpAssumption ==
  /\ MaxAttempts \in Nat \ {0} /\ MaxNow \in Nat /\ MaxSends \in Nat
  /\ MaxFences \in Nat
  /\ Window \in Nat /\ GiveUp \in Nat /\ Absolute \in Nat /\ GiveUp <= Absolute

VARIABLES now,
          state,       \* the message: waiting, submitting, failed, ended
          attempt,     \* its provider attempts
          fence,       \* its task's fence (a run's and its staff retry's)
          step,          \* its consumer, between two transactions
          journal,     \* OutboxEvents of outcomes and staff retries
          reconciled,  \* fences with a reconciling phase in the task journal
          accepted     \* when other mail was last accepted, or Never

giveUpVars == <<now, state, attempt, fence, step, journal, reconciled, accepted>>

Never == -1
Spared == {"limit", "outage"}

GiveUpInit ==
  /\ now = 0 /\ state = "waiting" /\ attempt = 0 /\ fence = 0 /\ step = "idle"
  /\ journal = <<>> /\ reconciled = {} /\ accepted = Never

-----------------------------------------------------------------------------
\* "x or created": the first of a run of instants.
Or(instant, at) == IF instant = Never THEN at ELSE instant

\* One event of limit_run's walk.  Only the stored evidence of an outage and
\* the fences in the task journal are read, never the outcome's true kind.
LimitStep(h, e) ==
  IF e.kind = "retry"
    THEN [h EXCEPT !.started = Never, !.first = Never, !.held = Never]
  ELSE IF e.kind = "outage"
    THEN [spared |-> h.spared + 1, started |-> Never,
          first |-> Or(h.first, e.at), held |-> Or(h.held, e.at)]
  ELSE IF e.fence \in reconciled
    THEN [spared |-> h.spared + 1, started |-> Or(h.started, e.at),
          first |-> Or(h.first, e.at), held |-> Or(h.held, e.at)]
  ELSE [h EXCEPT !.started = Never, !.first = Or(@, e.at)]

LimitHistory ==
  FoldLeft(LimitStep,
           [spared |-> 0, started |-> Never, first |-> Never, held |-> Never],
           journal)

AcceptedSince(instant) == accepted # Never /\ accepted >= instant

\* Mutant: every attempt counts against the budget.
BudgetSpentUnspared(kind) ==
  LET h == LimitHistory
      waited == now - h.started
  IN CASE kind = "outage" -> h.first # Never /\ now - h.first > Absolute
       [] kind = "other" -> attempt >= MaxAttempts
       [] OTHER ->
            /\ h.started # Never
            /\ \/ h.held # Never /\ now - h.held > Absolute
               \/ waited > Absolute
               \/ waited > GiveUp
                    /\ ~AcceptedSince(Max({h.started, now - Window}))

\* budget_spent: whether this non-acceptance ends the automatic retries.
BudgetSpent(kind) ==
  LET h == LimitHistory
      waited == now - h.started
  IN CASE kind = "outage" -> h.first # Never /\ now - h.first > Absolute
       [] kind = "other" -> attempt - h.spared >= MaxAttempts
       [] OTHER ->
            /\ h.started # Never
            /\ \/ h.held # Never /\ now - h.held > Absolute
               \/ waited > Absolute
               \/ waited > GiveUp
                    /\ ~AcceptedSince(Max({h.started, now - Window}))

-----------------------------------------------------------------------------
ClaimMessage ==
  /\ state = "waiting" /\ step = "idle" /\ fence < MaxFences
  /\ fence' = fence + 1 /\ step' = "claimed"
  /\ UNCHANGED <<now, state, attempt, journal, reconciled, accepted>>

\* _defer_held: an admission hold writes the same phase, before any submission.
AdmissionHold ==
  /\ step = "claimed"
  /\ reconciled' = reconciled \union {fence}
  /\ step' = "idle"
  /\ UNCHANGED <<now, state, attempt, fence, journal, accepted>>

SubmitAttempt ==
  /\ step = "claimed" /\ Len(journal) < MaxSends
  /\ state' = "submitting" /\ attempt' = attempt + 1 /\ step' = "submitted"
  /\ UNCHANGED <<now, fence, journal, reconciled, accepted>>

Outcome(kind, kept) ==
  journal' = Append(journal, [kind |-> kind, fence |-> fence, at |-> now,
                              kept |-> kept])

\* _settle of a definite non-acceptance: the outcome and, for a hold, its
\* phase in one transaction.
SettleRefusal(kind) ==
  /\ step = "submitted"
  /\ LET kept == ~BudgetSpent(kind)
     IN /\ Outcome(kind, kept)
        /\ state' = IF kept THEN "waiting" ELSE "failed"
        /\ reconciled' = IF kept /\ kind \in Spared
                         THEN reconciled \union {fence} ELSE reconciled
        /\ step' = IF kept THEN "settled" ELSE "idle"
  /\ UNCHANGED <<now, attempt, fence, accepted>>

\* family_mail_bulk.finish_item of a message released before its launch: the
\* outcome, the phase and the retry transition in one transaction.
BulkRelease ==
  /\ step = "submitted"
  /\ Outcome("release", TRUE)
  /\ state' = "waiting"
  /\ reconciled' = reconciled \union {fence}
  /\ step' = "idle"
  /\ UNCHANGED <<now, attempt, fence, accepted>>

\* An accepted, uncertain or permanently refused attempt.
AttemptEnds ==
  /\ step = "submitted"
  /\ state' = "ended" /\ step' = "idle"
  /\ UNCHANGED <<now, attempt, fence, journal, reconciled, accepted>>

\* The task's retry transition journals its phase again.
RetryTransition ==
  /\ step = "settled"
  /\ reconciled' = IF Last(journal).kind \in Spared
                   THEN reconciled \union {fence} ELSE reconciled
  /\ step' = "idle"
  /\ UNCHANGED <<now, state, attempt, fence, journal, accepted>>

\* The consumer dies; recovery fences its claim and retries the task, or
\* records an attempt it may have sent as uncertain.
ConsumerDies ==
  /\ step # "idle" /\ fence < MaxFences
  /\ fence' = fence + 1 /\ step' = "idle"
  /\ state' = IF state = "submitting" THEN "ended" ELSE state
  /\ UNCHANGED <<now, attempt, journal, reconciled, accepted>>

StaffRetry ==
  /\ state = "failed" /\ Len(journal) < MaxSends
  /\ Outcome("retry", TRUE)
  /\ state' = "waiting"
  /\ UNCHANGED <<now, attempt, fence, step, reconciled, accepted>>

OtherAccepted ==
  /\ accepted # now
  /\ accepted' = now
  /\ UNCHANGED <<now, state, attempt, fence, step, journal, reconciled>>

HourPasses ==
  /\ now < MaxNow
  /\ now' = now + 1
  /\ UNCHANGED <<state, attempt, fence, step, journal, reconciled, accepted>>

GiveUpNext ==
  \/ ClaimMessage \/ AdmissionHold \/ SubmitAttempt \/ AttemptEnds \/ RetryTransition \/ ConsumerDies
  \/ BulkRelease
  \/ \E kind \in {"limit", "outage", "other"} : SettleRefusal(kind)
  \/ StaffRetry \/ OtherAccepted \/ HourPasses

GiveUpSpec == GiveUpInit /\ [][GiveUpNext]_giveUpVars

-----------------------------------------------------------------------------
(* What really happened, from the true kind of each outcome.               *)

Kinds(i, kinds) == journal[i].kind \in kinds

\* The outcomes before the n-th event since the last staff retry.
Since(n) ==
  {i \in 1 .. n - 1 : \A j \in i .. n - 1 : journal[j].kind # "retry"}

\* The unbroken run of outcomes of these kinds just before the n-th event.
RunOf(kinds, n) == {i \in 1 .. n - 1 : \A j \in i .. n - 1 : Kinds(j, kinds)}

\* What limit_history takes for a limit run and for holds: a bulk release has
\* the same marks as a limit refusal.
LimitRun(n) == RunOf({"limit", "release"}, n)
Holds == Spared \union {"release"}

\* A spared outcome the journals tell as one: every outage and release, and
\* every limit refusal that kept the message.
RecordedSpared(i) ==
  Kinds(i, {"outage", "release"}) \/ (Kinds(i, {"limit"}) /\ journal[i].kept)

At(events) == IF events = {} THEN Never ELSE journal[Min(events)].at
HeldSince(n) == At({i \in Since(n) : Kinds(i, Holds)})

\* Every variable has its type.
GiveUpTypeOK ==
  /\ now \in 0 .. MaxNow /\ fence \in 0 .. MaxFences
  /\ attempt \in 0 .. Len(journal) + 1
  /\ state \in {"waiting", "submitting", "failed", "ended"}
  /\ step \in {"idle", "claimed", "submitted", "settled"}
  /\ \A i \in DOMAIN journal :
       journal[i] \in [kind : {"limit", "outage", "other", "release", "retry"},
                       fence : 0 .. fence, at : 0 .. now, kept : BOOLEAN]
  /\ reconciled \subseteq 1 .. fence
  /\ accepted \in {Never} \union 0 .. now

\* The history read back from the two journals is the true one, whatever
\* holds, crashes and staff retries lie between the outcomes: what was a
\* limit refusal stays one (limit_history, _settle).  Only a refusal that
\* ended the retries is forgotten: it wrote no hold.
HistoryIsTrue ==
  LET n == Len(journal) + 1
  IN state # "failed" =>
       LimitHistory =
         [spared |-> Cardinality({i \in 1 .. n - 1 : RecordedSpared(i)}),
          started |-> At(LimitRun(n)),
          first |-> At(Since(n)),
          held |-> HeldSince(n)]

\* A message fails only when it has earned it: by as many failures of its own
\* as the budget, by a limit run longer than LIMIT_GIVE_UP or a hold longer
\* than LIMIT_GIVE_UP_ABSOLUTE, or by outages after that long (budget_spent).
FailureIsEarned ==
  \A n \in DOMAIN journal :
    ~journal[n].kept =>
      LET at == journal[n].at
          own == {i \in 1 .. n : ~Kinds(i, {"retry"}) /\ ~RecordedSpared(i)}
      IN CASE journal[n].kind = "other" -> Cardinality(own) >= MaxAttempts
           [] journal[n].kind = "outage" -> at - At(Since(n)) > Absolute
           [] OTHER -> \/ at - At(LimitRun(n)) > GiveUp
                       \/ at - HeldSince(n) > Absolute

\* What budget_spent makes of the absolute cap.  Past LIMIT_GIVE_UP_ABSOLUTE
\* from its first hold a message may be kept once more, by the first limit
\* refusal after an outage or a failure of its own (no limit run has begun, and
\* that returns first), but by no two limit or outage outcomes in a row,
\* however the two alternate.  The cap the code documents is CapInAnyCase.
PastCapOnce ==
  \A n \in 2 .. Len(journal) :
    /\ Kinds(n - 1, Spared) /\ journal[n - 1].kept
    /\ Kinds(n, Spared)
    /\ HeldSince(n - 1) # Never
    /\ journal[n - 1].at - HeldSince(n - 1) > Absolute
    => ~journal[n].kept

\* The cap as it is documented: LIMIT_GIVE_UP_ABSOLUTE after its first limit or
\* outage outcome, a message is in any case kept by no further one.
CapInAnyCase ==
  \A n \in DOMAIN journal :
    LET held == At({i \in Since(n) : Kinds(i, Spared)})
    IN Kinds(n, Spared) /\ held # Never /\ journal[n].at - held > Absolute
         => ~journal[n].kept

\* Giving a message up is safe: what the retries remember is what happened,
\* a message fails for its own failures or at a limit's end, and past the
\* absolute one it is kept at most once more at a time.
GiveUpSafe == GiveUpTypeOK /\ HistoryIsTrue /\ FailureIsEarned /\ PastCapOnce
=============================================================================
