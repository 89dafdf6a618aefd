---------------------------- MODULE RefreshSlots ----------------------------
(***************************************************************************)
(* The scheduled full refreshes of ParishSoft data: the scheduler's        *)
(* producer (source/production.py) with its slots (source/cadence.py), the *)
(* hold during a bulk Family send (source/send_hold.py), the slots skipped *)
(* around Family emails, the catch-up after a change of schedule, and the  *)
(* data-age alarm that has to tell a held refresh from a broken one        *)
(* (source/data_age.py, source/health.py).                                 *)
(*                                                                         *)
(* A listed slot is named by its due time, so a time of the old schedule   *)
(* that the new one keeps is the same slot; the schedule-change catch-up   *)
(* is slot 0 and falls due when the schedule changed.  The horizon is less *)
(* than a day after a nightly refresh at time 0, so every due slot is one  *)
(* of today or yesterday and the schedule is in use.  Which slots lie in a *)
(* Family email's window is a choice at every read: emails move and sends  *)
(* end.  The go-live hold, which never meets a live campaign's sends, and  *)
(* failing refreshes, which alarm by themselves, are left out.             *)
(***************************************************************************)
EXTENDS Integers, FiniteSets, FiniteSetsExt

CONSTANTS
    OldSlots, OldNightly,   \* the schedule at first, and its nightly times
    NewSlots, NewNightly,   \* the one an Administrator may change it to
    Margin,                 \* source_stale_seconds
    Allowance,              \* SEND_ALLOWANCE
    Lead,                   \* RESUME_LEAD
    MaxTime,                \* bound: the horizon
    MaxSends,               \* bound: bulk sends begun
    MaxPauses,              \* bound: pauses and resumes of delivery
    SkipsAtFirst,           \* the skip setting at first
    MaySwitch, MayChange,   \* whether the setting, the schedule may change
    MayRestart,             \* whether the scheduler may restart
    Steady,                 \* timing: the scheduler loops in every time unit
    Prompt                  \* timing: a refresh promotes within Lead of its request

Times == 0..MaxTime
Never == -1

ASSUME SlotBounds ==
    /\ OldSlots \subseteq 1..MaxTime /\ OldNightly \subseteq OldSlots
    /\ NewSlots \subseteq 1..MaxTime /\ NewNightly \subseteq NewSlots
    /\ {Margin, Allowance, Lead} \subseteq Nat \ {0} /\ Lead < Margin + Allowance
    /\ {MaxTime, MaxSends, MaxPauses} \subseteq Nat
    /\ {SkipsAtFirst, MaySwitch, MayChange, MayRestart, Steady, Prompt} \subseteq BOOLEAN

VARIABLES
    now,        \* database_now
    ran,        \* slot |-> when its tick was created, or Never
    decision,   \* slot |-> its SourceSlotDecision, if any
    entries,    \* when durable source_refresh_held entries were written
    logged,     \* SourceProducer.skipped: held slots logged by this process
    pass,       \* what the producer read before the work-order lock
    looped,     \* the producer completed a pass in this time unit
    waiting,    \* when the refresh still waiting was first requested, or Never
    loading,    \* the refresh being loaded: its start and its request
    lastFull,   \* start of the newest promoted full refresh
    changed,    \* when the schedule changed, or Never
    skips,      \* skips_around_emails
    since,      \* skip_setting_since
    sending,    \* family_send_active
    sends,      \* bulk sends begun so far
    mailPaused, \* _delivery_state, as its only part that changes here
    pauses      \* pauses and resumes so far

sendVars == <<sending, sends, mailPaused, pauses>>
settingVars == <<changed, skips, since>>
loadVars == <<waiting, loading, lastFull>>
slotVars == <<ran, decision, entries, logged>>
refreshVars == <<now, slotVars, pass, looped, loadVars, settingVars, sendVars>>

CatchUp == 0
Slots == {CatchUp} \cup OldSlots \cup NewSlots
NotLoading == [start |-> Never, asked |-> Never]
NoPass == [reading |-> FALSE, held |-> FALSE, catchUp |-> FALSE, skips |-> FALSE,
           windows |-> {}, since |-> 0, paused |-> FALSE]

(***************************************************************************)
(* The schedule.                                                           *)
(***************************************************************************)
CurrentSlots == IF changed = Never THEN OldSlots ELSE NewSlots
NightlyNow == IF changed = Never THEN OldNightly ELSE NewNightly
DueAt(s) == IF s = CatchUp THEN changed ELSE s

\* listed_due_slots, and due_slots' latest.
Listed == {s \in CurrentSlots : s <= now}
LatestSlot == IF Listed = {} THEN {} ELSE {Max(Listed)}

\* _waits_for_send: every slot but the nightly refresh.
WaitsForSend(s) == s = CatchUp \/ s \notin NightlyNow

(***************************************************************************)
(* The overdue full slot (first_overdue over schedule_runs): the first due *)
(* time after the newest promoted full refresh started that was not        *)
(* skipped, each schedule counted only while it was in effect.             *)
(***************************************************************************)
Skipped == {s \in Slots : decision[s] = "skipped"}

CountedSlots(start, end) ==
    LET old == IF changed = Never THEN OldSlots ELSE {s \in OldSlots : s <= changed}
        new == IF changed = Never THEN {} ELSE {s \in NewSlots : s > changed}
    IN {s \in old \cup new : start < s /\ s <= end} \ Skipped

Overdue ==
    LET due == CountedSlots(lastFull, now)
    IN IF due = {} THEN Never ELSE Min(due)

\* catch_up_at: a slot of the old schedule was overdue as the new one took
\* effect, and no full refresh has promoted since the change was made.
CatchUpDue ==
    /\ changed # Never /\ lastFull < changed
    /\ \E s \in OldSlots \ Skipped : lastFull < s /\ s <= changed

(***************************************************************************)
(* The bulk-send hold (daytime_held) and its allowance.                    *)
(***************************************************************************)
ResumeAt(overdue) == overdue + Margin + Allowance - Lead

\* Mutant: a send holds refreshes for as long as it runs.
HeldWhileSending == sending

DaytimeHeld == sending /\ (Overdue = Never \/ now < ResumeAt(Overdue))

\* Scheduled full refreshes requested from one instant up to another.
Requested(from, to) == \E s \in Slots : from <= ran[s] /\ ran[s] < to

\* refreshes_skipped, in a horizon in which the schedule is in use.
RefreshesSkipped(overdue) == ~Requested(overdue, ResumeAt(overdue))

CatchUpHeld(overdue) ==
    \/ \E t \in entries : t >= overdue /\ ~Requested(overdue, t)
    \/ \E s \in Slots : /\ decision[s] = "held" /\ DueAt(s) >= overdue
                        /\ ~Requested(overdue, DueAt(s))

AllowanceApplies(overdue) ==
    /\ now - overdue < Margin + Allowance
    /\ (sending /\ RefreshesSkipped(overdue)) \/ CatchUpHeld(overdue)

\* observe_source_health's data-age alarm.
Alarm ==
    /\ Overdue # Never /\ now - Overdue >= Margin
    /\ ~AllowanceApplies(Overdue)

(***************************************************************************)
(* A pass of the producer under the lock, from what it read before it.     *)
(***************************************************************************)
\* The windows are used only if what they depend on has not changed.
Deciding(p) == p.skips /\ skips /\ p.paused = mailPaused

\* _undecided.
Undecided(p) ==
    {s \in Listed : /\ ran[s] = Never /\ decision[s] = "none"
                    /\ WaitsForSend(s) /\ s >= p.since}

\* _decide's records.
Decided(p) ==
    [s \in Slots |->
        IF ~Deciding(p) \/ s \notin Undecided(p) THEN decision[s]
        ELSE IF s \in p.windows THEN "skipped"
        ELSE IF p.held THEN "held"
        ELSE decision[s]]

\* Mutant: nothing replaces a held slot once the latest one was skipped.
NoExtra(p) == {}

\* _decide's extra slot: the newest held one when the latest was skipped.
Extra(p) ==
    LET open == {c \in Listed : Decided(p)[c] = "held" /\ ran[c] = Never} IN
    {c \in open : /\ Deciding(p) /\ ~p.held
                  /\ \E s \in LatestSlot : Decided(p)[s] = "skipped" /\ c < s
                  /\ \A d \in open : d <= c
                  /\ \A d \in Listed : ran[d] # Never => d <= c}

\* The slots the pass may create: the latest, the catch-up, the extra one.
Candidates(p) ==
    LatestSlot \cup (IF p.catchUp THEN {CatchUp} ELSE {}) \cup Extra(p)

\* Those that get neither a tick nor a skip wait for the send.
Eligible(p) == {s \in Candidates(p) : ran[s] = Never /\ Decided(p)[s] # "skipped"}
Held(p) == {s \in Eligible(p) : p.held /\ WaitsForSend(s)}
Created(p) == Eligible(p) \ Held(p)

\* Held slots logged by the pass, with those _decide records.
WaitingSlots(p) ==
    Held(p) \cup (IF Deciding(p) /\ p.held THEN Undecided(p) \ p.windows ELSE {})

RanAfter(p) == [s \in Slots |-> IF s \in Created(p) THEN now ELSE ran[s]]
DecisionAfter(p) ==
    [s \in Slots |-> IF Deciding(p) /\ s \in Held(p) /\ Decided(p)[s] = "none"
                       THEN "held" ELSE Decided(p)[s]]

\* What the producer reads before it takes the lock.
Reading(w) ==
    [reading |-> TRUE, held |-> DaytimeHeld, catchUp |-> CatchUpDue, skips |-> skips,
     windows |-> IF skips /\ ~mailPaused THEN w ELSE {},
     since |-> IF skips THEN since ELSE 0, paused |-> mailPaused]

(***************************************************************************)
(* The idle shortcut (_ticked, _may_decide): with these reads the lock is  *)
(* not taken at all.                                                       *)
(***************************************************************************)
\* Mutant: the shortcut looks at the windows only.
MayDecideWindows(p) == Undecided(p) \cap p.windows # {}

MayDecide(p) == Undecided(p) # {} /\ (p.held \/ Undecided(p) \cap p.windows # {})

IdlePass(p) ==
    /\ \A s \in LatestSlot \cup (IF p.catchUp THEN {CatchUp} ELSE {}) : ran[s] # Never
    /\ skips => ~MayDecide(p)

(***************************************************************************)
(* The actions.                                                            *)
(***************************************************************************)
SlotsInit ==
    /\ now = 0 /\ lastFull = 0
    /\ ran = [s \in Slots |-> Never] /\ decision = [s \in Slots |-> "none"]
    /\ entries = {} /\ logged = {} /\ pass = NoPass /\ looped = FALSE
    /\ waiting = Never /\ loading = NotLoading
    /\ changed = Never /\ skips = SkipsAtFirst /\ since = 0
    /\ sending = FALSE /\ sends = 0 /\ mailPaused = FALSE /\ pauses = 0

\* produce_refreshes, the reads before the lock.
Read ==
    /\ ~pass.reading
    /\ \E w \in SUBSET {s \in Listed : WaitsForSend(s)} :
          IF IdlePass(Reading(w))
            THEN pass' = pass /\ logged' = {} /\ looped' = TRUE
            ELSE pass' = Reading(w) /\ UNCHANGED <<logged, looped>>
    /\ UNCHANGED <<now, ran, decision, entries, loadVars, settingVars, sendVars>>

\* produce_refreshes, the transaction under the lock.  A refresh it requests
\* joins the one that waits, if any (request_refresh, _pending).
Write ==
    /\ pass.reading
    /\ ran' = RanAfter(pass) /\ decision' = DecisionAfter(pass)
    /\ entries' = IF WaitingSlots(pass) \subseteq logged THEN entries ELSE entries \cup {now}
    /\ logged' = WaitingSlots(pass)
    /\ waiting' = IF Created(pass) # {} /\ waiting = Never THEN now ELSE waiting
    /\ pass' = NoPass /\ looped' = TRUE
    /\ UNCHANGED <<now, loading, lastFull, settingVars, sendVars>>

\* The scheduler process ends anywhere and starts again.
RestartScheduler ==
    /\ MayRestart /\ (pass.reading \/ logged # {})
    /\ pass' = NoPass /\ logged' = {}
    /\ UNCHANGED <<now, ran, decision, entries, looped, loadVars, settingVars, sendVars>>

\* The source worker: one refresh is loaded at a time.
StartLoad ==
    /\ waiting # Never /\ loading = NotLoading
    /\ loading' = [start |-> now, asked |-> waiting] /\ waiting' = Never
    /\ UNCHANGED <<now, slotVars, pass, looped, lastFull, settingVars, sendVars>>

PromoteLoad ==
    /\ loading # NotLoading
    /\ lastFull' = loading.start /\ loading' = NotLoading
    /\ UNCHANGED <<now, slotVars, pass, looped, waiting, settingVars, sendVars>>

\* An Administrator saves the other schedule, or turns skipping on or off.
ChangeSchedule ==
    /\ MayChange /\ changed = Never /\ now > 0
    /\ changed' = now
    /\ UNCHANGED <<now, slotVars, pass, looped, loadVars, skips, since, sendVars>>

SwitchSkips ==
    /\ MaySwitch /\ skips = SkipsAtFirst
    /\ skips' = ~skips /\ since' = IF skips THEN since ELSE now
    /\ UNCHANGED <<now, slotVars, pass, looped, loadVars, changed, sendVars>>

\* A bulk Family send begins and ends; delivery is paused and resumed.
Send ==
    /\ \/ ~sending /\ sends < MaxSends /\ sending' = TRUE /\ sends' = sends + 1
       \/ sending /\ sending' = FALSE /\ sends' = sends
    /\ UNCHANGED <<now, slotVars, pass, looped, loadVars, settingVars, mailPaused, pauses>>

PauseMail ==
    /\ pauses < MaxPauses /\ mailPaused' = ~mailPaused /\ pauses' = pauses + 1
    /\ UNCHANGED <<now, slotVars, pass, looped, loadVars, settingVars, sending, sends>>

\* A refresh asked for at this instant is to be promoted before Lead is over.
Timely(asked) == asked = Never \/ now + 1 < asked + Lead

SlotTick ==
    /\ now < MaxTime
    /\ Steady => looped /\ ~pass.reading
    /\ Prompt => Timely(waiting) /\ Timely(loading.asked)
    /\ now' = now + 1 /\ looped' = FALSE
    /\ UNCHANGED <<slotVars, pass, loadVars, settingVars, sendVars>>

Finished == now = MaxTime /\ UNCHANGED refreshVars

SlotsNext ==
    \/ Read \/ Write \/ RestartScheduler \/ StartLoad \/ PromoteLoad
    \/ ChangeSchedule \/ SwitchSkips \/ Send \/ PauseMail \/ SlotTick \/ Finished

SlotsSpec == SlotsInit /\ [][SlotsNext]_refreshVars

(***************************************************************************)
(* Properties.                                                             *)
(***************************************************************************)
\* Every row holds a value its column admits; nothing was decided, requested
\* or logged before it was due, nor in the future.
SlotsTypeOK ==
    /\ now \in Times /\ lastFull \in 0..now /\ changed \in {Never} \cup 0..now
    /\ \A s \in Slots : /\ ran[s] \in {Never} \cup (DueAt(s))..now
                        /\ decision[s] \in {"none", "held", "skipped"}
                        /\ decision[s] # "none" => DueAt(s) <= now
    /\ entries \subseteq 0..now /\ logged \subseteq Slots
    /\ waiting \in {Never} \cup 0..now
    /\ loading \in [start : {Never} \cup 0..now, asked : {Never} \cup 0..now]
    /\ {looped, skips, sending, mailPaused} \subseteq BOOLEAN /\ since \in 0..now
    /\ sends \in 0..MaxSends /\ pauses \in 0..MaxPauses

\* The decision is made once and kept: no later pass, restart, window or
\* setting changes it, and a slot recorded as skipped never runs.
DecisionsKept ==
    [][\A s \in Slots : /\ decision[s] # "none" => decision'[s] = decision[s]
                        /\ decision'[s] = "skipped" => ran'[s] = Never]_refreshVars

\* Nothing the pass read has changed since.
SettledPass(p) == p.skips = skips /\ p.paused = mailPaused /\ p.catchUp = CatchUpDue

\* A refresh was requested, or a full one started, since the slot fell due.
CaughtUp(s) == (\E t \in Slots : ran[t] >= DueAt(s)) \/ lastFull >= DueAt(s)

\* A listed slot that was held stays due: once a pass reads that no send
\* holds it, a refresh has been requested since it fell due, whatever was
\* skipped or rescheduled after it.  (A held catch-up may lapse: the old
\* slot it stood for can be the new schedule's too, and skipped.)
HeldCaughtUp ==
    [][Write /\ ~pass.held /\ SettledPass(pass) /\ skips =>
        \A s \in Slots \ {CatchUp} : decision'[s] = "held" => CaughtUp(s)']_refreshVars

\* Refreshes held for a send, skipped or rescheduled never sound the
\* data-age alarm: holding stops early enough for the held refresh to
\* promote first.
NoFalseAlarm == ~Alarm

\* A refresh that was requested when it fell due, and not held in that very
\* instant, is not excused by a send that holds a later one: if it does not
\* promote, the alarm sounds.
HungAlarms ==
    /\ Overdue # Never /\ now - Overdue >= Margin
    /\ ran[Overdue] = Overdue /\ Overdue \notin entries
    /\ \A s \in Slots : decision[s] # "none" => DueAt(s) # Overdue
    => Alarm

\* The idle shortcut misses nothing: when the reads let the producer skip
\* the lock, the pass under it would have changed no durable row.
ShortcutAgrees ==
    \A w \in SUBSET {s \in Listed : WaitsForSend(s)} :
        LET p == Reading(w) IN
        IdlePass(p) => RanAfter(p) = ran /\ DecisionAfter(p) = decision

\* The producer's shortcut and the alarm look at the same truth as its pass.
SlotsSafe == SlotsTypeOK /\ ShortcutAgrees /\ HungAlarms

\* A slot's decision is final, and a held slot is made up for.
SlotsKept == DecisionsKept /\ HeldCaughtUp
=============================================================================
