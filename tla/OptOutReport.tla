---------------------------- MODULE OptOutReport ----------------------------
(***************************************************************************)
(* The scheduled unsubscribed report of pk-sync-ps-to-cc: every run in the *)
(* daily window decides from the state file whether the report is due,     *)
(* and later, under the flock on the file beside it, sends one email for   *)
(* each mapping not yet recorded for the day.  Runs may overlap, reach     *)
(* past midnight, fail before or after the provider has taken the report,  *)
(* and die.                                                                *)
(***************************************************************************)
EXTENDS Naturals, FiniteSets

CONSTANTS
    Run,         \* overlapping runs; an ended one stands for the next
    NoOne,
    NumLists,    \* mappings, reported in this order
    NumDays,     \* days with a window
    MaxDeaths,   \* runs that die
    MaxUnmarked  \* failures after a send, for each report

ASSUME ReportAssumption ==
    /\ NoOne \notin Run
    /\ {NumLists, NumDays} \subseteq Nat \ {0}
    /\ {MaxDeaths, MaxUnmarked} \subseteq Nat

Mapping == 1..NumLists
Day == 1..NumDays

VARIABLES
    today,    \* the local date
    file,     \* the state file: last_sent_date and sent_reports
    flock,    \* who holds the flock
    step,
    date,     \* decision.run_date
    view,     \* the mappings with opted-out addresses, as the run loaded them
    state,    \* the run's copy of the state file
    at,       \* the mapping it is at
    emailed,  \* reports the provider took, for all or some recipients
    unmarked, \* those whose run failed or died before recording them
    deaths

reportVars == <<today, file, flock, step, date, view, state, at, emailed,
                unmarked, deaths>>

States == [last : 0..NumDays, sent : SUBSET (Day \X Mapping)]
NoState == [last |-> 0, sent |-> {}]

ReportInit ==
    /\ today = 1
    /\ file = NoState
    /\ flock = NoOne
    /\ step = [r \in Run |-> "off"]
    /\ date = [r \in Run |-> 1]
    /\ view = [r \in Run |-> {}]
    /\ state = [r \in Run |-> NoState]
    /\ at = [r \in Run |-> 1]
    /\ emailed = [d \in Day |-> [m \in Mapping |-> 0]]
    /\ unmarked = [d \in Day |-> [m \in Mapping |-> 0]]
    /\ deaths = 0

-----------------------------------------------------------------------------
ToStep(r, place) == step' = [step EXCEPT ![r] = place]

\* Mutant: only the whole day's record counts.
ReportedWholeDay(r, m) == state[r].last = date[r]

\* unsubscribed_report_mapping_sent.
Reported(r, m) == <<date[r], m>> \in state[r].sent

\* unsubscribed_report_decision, in the window; the state file is read
\* without the lock, long before the report is sent.  A run with nothing to
\* report leaves the state alone.
Decide(r) ==
    /\ step[r] \in {"off", "done"}
    /\ file.last # today
    /\ date' = [date EXCEPT ![r] = today]
    /\ \E v \in SUBSET Mapping \ {{}} : view' = [view EXCEPT ![r] = v]
    /\ ToStep(r, "due")
    /\ UNCHANGED <<today, file, flock, state, at, emailed, unmarked, deaths>>

\* unsubscribed_report_state_lock: the state is read again under the lock.
EnterLock(r) ==
    /\ step[r] = "due"
    /\ flock = NoOne
    /\ flock' = r
    /\ state' = [state EXCEPT ![r] = file]
    /\ at' = [at EXCEPT ![r] = 1]
    /\ ToStep(r, "looking")
    /\ UNCHANGED <<today, file, date, view, emailed, unmarked, deaths>>

\* A mapping with nothing to report, or already recorded for the run's date.
Skip(r) ==
    /\ step[r] = "looking"
    /\ at[r] \in Mapping
    /\ at[r] \notin view[r] \/ Reported(r, at[r])
    /\ at' = [at EXCEPT ![r] = @ + 1]
    /\ UNCHANGED <<today, file, flock, step, date, view, state, emailed,
                   unmarked, deaths>>

\* provider.send: the server takes the report.
Send(r) ==
    /\ step[r] = "looking"
    /\ at[r] \in view[r] /\ ~Reported(r, at[r])
    /\ emailed' = [emailed EXCEPT ![date[r]][at[r]] = @ + 1]
    /\ ToStep(r, "sent")
    /\ UNCHANGED <<today, file, flock, date, view, state, at, unmarked, deaths>>

\* provider.send raises before anything was handed over (no token, no login,
\* every recipient refused): the run ends, leaving the lock.
SendFails(r) ==
    /\ step[r] = "looking"
    /\ at[r] \in view[r] /\ ~Reported(r, at[r])
    /\ flock' = NoOne
    /\ ToStep(r, "off")
    /\ UNCHANGED <<today, file, date, view, state, at, emailed, unmarked,
                   deaths>>

\* provider.send raises although the server took the report (it refused some
\* of the recipients, or the connection failed after DATA), or the state cannot
\* be written: the run ends, leaving the lock and no record.
SendFailsLate(r) ==
    /\ step[r] = "sent"
    /\ unmarked[date[r]][at[r]] < MaxUnmarked
    /\ unmarked' = [unmarked EXCEPT ![date[r]][at[r]] = @ + 1]
    /\ flock' = NoOne
    /\ ToStep(r, "off")
    /\ UNCHANGED <<today, file, date, view, state, at, emailed, deaths>>

\* mark_unsubscribed_report_mapping_sent: the whole state is written.
Mark(r) ==
    /\ step[r] = "sent"
    /\ LET marked == [state[r] EXCEPT !.sent = @ \cup {<<date[r], at[r]>>}]
       IN  /\ state' = [state EXCEPT ![r] = marked]
           /\ file' = marked
    /\ at' = [at EXCEPT ![r] = @ + 1]
    /\ ToStep(r, "looking")
    /\ UNCHANGED <<today, flock, date, view, emailed, unmarked, deaths>>

\* mark_unsubscribed_report_sent, for the date the run was due on.
Close(r) ==
    /\ step[r] = "looking"
    /\ at[r] > NumLists
    /\ file' = [state[r] EXCEPT !.last = date[r]]
    /\ flock' = NoOne
    /\ ToStep(r, "done")
    /\ UNCHANGED <<today, date, view, state, at, emailed, unmarked, deaths>>

\* The run dies; the kernel drops its flock.
Die(r) ==
    /\ step[r] \in {"due", "looking", "sent"}
    /\ deaths < MaxDeaths
    /\ deaths' = deaths + 1
    /\ flock' = IF flock = r THEN NoOne ELSE flock
    /\ unmarked' = IF step[r] = "sent"
                   THEN [unmarked EXCEPT ![date[r]][at[r]] = @ + 1]
                   ELSE unmarked
    /\ ToStep(r, "off")
    /\ UNCHANGED <<today, file, date, view, state, at, emailed>>

\* Midnight; runs under way keep the date they decided on.
NextDay ==
    /\ today < NumDays
    /\ today' = today + 1
    /\ UNCHANGED <<file, flock, step, date, view, state, at, emailed, unmarked,
                   deaths>>

RunStep(r) ==
    \/ EnterLock(r)
    \/ Skip(r)
    \/ Send(r)
    \/ SendFails(r)
    \/ SendFailsLate(r)
    \/ Mark(r)
    \/ Close(r)

ReportNext ==
    \/ \E r \in Run : Decide(r) \/ RunStep(r) \/ Die(r)
    \/ NextDay

ReportSpec == ReportInit /\ [][ReportNext]_reportVars

-----------------------------------------------------------------------------
(* Properties.                                                             *)

\* Type invariant; the flock is held exactly from the second read of the state
\* to its last write, and its holder's copy is what the file says.
ReportTypeOK ==
    /\ today \in Day
    /\ file \in States
    /\ flock \in Run \cup {NoOne}
    /\ step \in [Run -> {"off", "due", "looking", "sent", "done"}]
    /\ date \in [Run -> Day]
    /\ view \in [Run -> SUBSET Mapping]
    /\ state \in [Run -> States]
    /\ at \in [Run -> 1..(NumLists + 1)]
    /\ deaths \in 0..MaxDeaths
    /\ \A r \in Run : step[r] \in {"looking", "sent"} <=> flock = r
    /\ \A r \in Run : flock = r => state[r] = file

\* However runs overlap, wait for each other or cross midnight, and although
\* last_sent_date can go back to an earlier day, a mapping's report for a day
\* is repeated only for a run that failed or died between the provider's taking
\* it and the record of it.
RepeatNeedsLostRecord ==
    \A d \in Day : \A m \in Mapping : emailed[d][m] <= 1 + unmarked[d][m]

\* The tool's specification: the report is sent at most once per local day
\* inside its window.  A recipient the server refuses is enough to break it:
\* provider.send raises, nothing is recorded, and the next run of the window
\* sends the report again to the others.
OncePerDay ==
    \A d \in Day : \A m \in Mapping : emailed[d][m] <= 1

\* A run that ended well has had every mapping it saw opt-outs in reported for
\* its day, by itself or by another; a failed send is never taken for a report.
EndedMeansReported ==
    \A r \in Run :
        step[r] = "done" => \A m \in view[r] : emailed[date[r]][m] > 0

\* A day's opt-outs are reported, and reported again only for want of a record.
ReportSafe == ReportTypeOK /\ RepeatNeedsLostRecord /\ EndedMeansReported
=============================================================================
