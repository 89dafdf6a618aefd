------------------------------ MODULE HintScan ------------------------------
(***************************************************************************)
(* The scheduler's hints (jobs/scanning.py, scheduler.py, serve_scheduler  *)
(* in processes.py): durable due rows are found by a fair, paged sweep and *)
(* by a scan of the newest ones, admitted one by one, and published to a   *)
(* broker that may lose, delay or repeat them.  RecentHints keeps the      *)
(* scheduler from hinting an unchanged row again too soon.                 *)
(*                                                                         *)
(* Clocks are abstracted to the events that matter: a row falls due, a     *)
(* published hint leaves the RecentHints window, a row leaves the          *)
(* newest-due window.  The rows of one page are admitted and published in  *)
(* any order.                                                              *)
(***************************************************************************)
EXTENDS Naturals, FiniteSets, FiniteSetsExt

CONSTANTS
    DueRow,
    SweepLimit,   \* rows of a sweep page
    EarlyLimit,   \* EARLY_SCAN_ROWS
    NewestLimit,  \* NEWEST_DUE_ROWS
    MaxVersion,   \* bound: transitions of all rows
    MaxFaults     \* bound: failed scans and publications, scheduler restarts

ASSUME ScanAssumption ==
    /\ IsFiniteSet(DueRow)
    /\ SweepLimit \in Nat \ {0} /\ EarlyLimit \in Nat \ {0}
    /\ NewestLimit \in Nat \ {0}
    /\ MaxVersion \in Nat /\ MaxFaults \in Nat

VARIABLES
    state,     \* each row's state; "queued" and "expired" rows are due
    version,   \* TaskRun.version
    at,        \* the row's place in (not_before, id) order
    admits,      \* whether its handler admits it now
    new,       \* whether it fell due inside the newest-due window
    scan,      \* the scan in progress: "newest", "early", "late" or "sleep"
    step,      \* "select", "admit" or "publish" within it
    page,      \* the selected rows still to be admitted, with their versions
    pending,   \* RecentHints.pending: admitted rows, with their versions
    cursor,    \* the fair cursor; 0 for None
    next,      \* the position the current sweep page will leave
    recent,    \* RecentHints.published_at: the version hinted in the window
    seen,      \* RecentHints.newest_seen
    checked,   \* RecentHints.newest_checked
    sent,      \* every publication the broker accepted, by row and version
    faults

rows == <<state, version, at, admits, new>>
memory == <<cursor, recent, seen, checked>>
scanVars == <<rows, sent, scan, step, page, pending, next, memory,
              faults>>

None == 0
Versions == 0..MaxVersion
Places == 1..(Cardinality(DueRow) * (MaxVersion + 1))
Nobody == [r \in DueRow |-> None]

\* Rows and the versions at which a scan has read them, in one function: 0
\* for a row it has not, else the version plus one.
Noted(f, r) == f[r] = version[r] + 1
Note(f, r, v) == [f EXCEPT ![r] = v + 1]

\* due(): queued work whose time has come, or an expired claim.
Due(r) == state[r] \in {"queued", "expired"}

\* The first k of a set of rows, in the order of not_before and id; Newest is
\* the opposite order.
First(S, k) == {r \in S : Cardinality({q \in S : at[q] < at[r]}) < k}
Newest(S, k) == {r \in S : Cardinality({q \in S : at[q] > at[r]}) < k}

\* The rows start in some order, which one does not matter; some are claimed
\* already when the scheduler starts.
ScanInit ==
    /\ state \in [DueRow -> {"waiting", "running"}]
    /\ version = [r \in DueRow |-> 0]
    /\ at = CHOOSE f \in [DueRow -> 1..Cardinality(DueRow)] :
                \A r, q \in DueRow : r # q => f[r] # f[q]
    /\ admits = [r \in DueRow |-> TRUE]
    /\ new = [r \in DueRow |-> FALSE]
    /\ sent = {}
    /\ scan = "newest" /\ step = "select"
    /\ page = Nobody /\ pending = Nobody
    /\ cursor = None /\ next = None
    /\ recent = Nobody /\ seen = Nobody /\ checked = Nobody
    /\ faults = 0

-----------------------------------------------------------------------------
(* The rows and the consumers                                              *)

FallDue(r) ==
    /\ state[r] = "waiting"
    /\ state' = [state EXCEPT ![r] = "queued"]
    /\ new' = [new EXCEPT ![r] = TRUE]
    /\ UNCHANGED <<version, at, admits, sent, scan, step, page, pending, next,
                   memory, faults>>

\* Its not_before leaves the newest-due window.
GrowOld(r) ==
    /\ new[r]
    /\ new' = [new EXCEPT ![r] = FALSE]
    /\ UNCHANGED <<state, version, at, admits, sent, scan, step, page, pending,
                   next, memory, faults>>

\* A pause, a hold or its end.
Gate(r) ==
    /\ admits' = [admits EXCEPT ![r] = ~admits[r]]
    /\ UNCHANGED <<state, version, at, new, sent, scan, step, page, pending,
                   next, memory, faults>>

Transition(r, to) ==
    /\ MapThenSumSet(LAMBDA q : version[q], DueRow) < MaxVersion
    /\ state' = [state EXCEPT ![r] = to]
    /\ version' = [version EXCEPT ![r] = version[r] + 1]
    /\ UNCHANGED <<admits, scan, step, page, pending, next, memory,
                   faults>>

\* A consumer takes a hint, which the broker may deliver late, repeatedly or
\* never: it claims or recovers the row if that is still due and admitted.
TakeHint(r) ==
    /\ \E v \in Versions : <<r, v + 1>> \in sent
    /\ Due(r) /\ admits[r]
    /\ Transition(r, "running")
    /\ UNCHANGED <<at, new, sent>>

Complete(r) ==
    /\ state[r] = "running"
    /\ Transition(r, "done")
    /\ UNCHANGED <<at, new, sent>>

\* Its new not_before lies behind every row there is.
Requeue(r) ==
    /\ state[r] = "running"
    /\ Transition(r, "waiting")
    /\ at' = [at EXCEPT ![r] = Max({at[q] : q \in DueRow}) + 1]
    /\ new' = [new EXCEPT ![r] = FALSE]
    /\ UNCHANGED sent

\* The lease runs out without a transition of the row.
LeaseEnds(r) ==
    /\ state[r] = "running"
    /\ state' = [state EXCEPT ![r] = "expired"]
    /\ new' = [new EXCEPT ![r] = FALSE]
    /\ UNCHANGED <<version, at, admits, sent, scan, step, page, pending, next,
                   memory, faults>>

-----------------------------------------------------------------------------
(* Selecting a page                                                        *)

\* collect_newest_hints: over-read by the rows remembered, which may all
\* turn out to be unchanged.
SelectNewest ==
    /\ scan = "newest" /\ step = "select"
    /\ LET kept == [r \in DueRow |-> IF new[r] THEN seen[r] ELSE None]
           fresh == {r \in DueRow : state[r] = "queued" /\ new[r]}
           read == Newest(fresh, NewestLimit + Cardinality({r \in DueRow : kept[r] # None}))
           chosen == Newest({r \in read : ~Noted(kept, r)}, NewestLimit)
       IN /\ page' = [r \in DueRow |-> IF r \in chosen THEN version[r] + 1 ELSE None]
          /\ seen' = [r \in DueRow |-> IF r \in chosen THEN version[r] + 1 ELSE kept[r]]
    /\ pending' = Nobody
    /\ checked' = Nobody
    /\ step' = "admit"
    /\ UNCHANGED <<rows, sent, scan, next, cursor, recent, faults>>

\* collect_hints: the next page in order; a short page ends the sweep.
SelectSweep ==
    /\ scan \in {"early", "late"} /\ step = "select"
    /\ LET limit == IF scan = "early" THEN EarlyLimit ELSE SweepLimit
           chosen == First({r \in DueRow : Due(r) /\ at[r] > cursor}, limit)
       IN /\ page' = [r \in DueRow |-> IF r \in chosen THEN version[r] + 1 ELSE None]
          /\ next' = IF Cardinality(chosen) = limit
                     THEN Max({at[r] : r \in chosen})
                     ELSE None
    /\ pending' = Nobody
    /\ step' = "admit"
    /\ UNCHANGED <<rows, sent, scan, memory, faults>>

-----------------------------------------------------------------------------
(* _admit_page                                                             *)

\* RecentHints.fresh, for the candidate as it was selected.
Fresh(r) == recent[r] = page[r]

Dropped(r) == page' = [page EXCEPT ![r] = None]

SkipFresh(r) ==
    /\ step = "admit" /\ page[r] # None
    /\ Fresh(r)
    /\ Dropped(r)
    /\ UNCHANGED <<rows, sent, scan, step, pending, next, memory,
                   faults>>

CheckedByNewest(r) == scan # "newest" /\ checked[r] = page[r]

\* The sweep leaves the row to the next newest-due scan.
SkipChecked(r) ==
    /\ step = "admit" /\ page[r] # None
    /\ ~Fresh(r) /\ CheckedByNewest(r)
    /\ seen' = [seen EXCEPT ![r] = None]
    /\ Dropped(r)
    /\ UNCHANGED <<rows, sent, scan, step, pending, next, cursor, recent, checked, faults>>

\* One transaction: the row as it is now, due and admitted or not.
Admit(r) ==
    /\ step = "admit" /\ page[r] # None
    /\ ~Fresh(r) /\ ~CheckedByNewest(r)
    /\ checked' = IF scan = "newest" THEN [checked EXCEPT ![r] = page[r]] ELSE checked
    /\ pending' = IF Due(r) /\ admits[r] THEN Note(pending, r, version[r]) ELSE pending
    /\ Dropped(r)
    /\ UNCHANGED <<rows, sent, scan, step, next, cursor, recent, seen, faults>>

Admitted ==
    /\ step = "admit" /\ page = Nobody
    /\ step' = "publish"
    /\ UNCHANGED <<rows, sent, scan, page, pending, next, memory, faults>>

-----------------------------------------------------------------------------
(* _publish_all and the loop                                               *)

Publish(r) ==
    /\ step = "publish" /\ pending[r] # None
    /\ sent' = sent \cup {<<r, pending[r]>>}
    /\ recent' = [recent EXCEPT ![r] = pending[r]]
    /\ pending' = [pending EXCEPT ![r] = None]
    /\ UNCHANGED <<rows, scan, step, page, next, cursor, seen, checked,
                   faults>>

\* Mutant: a hint whose publication failed is remembered all the same.
PublishFailsNoted(r) ==
    /\ step = "publish" /\ pending[r] # None
    /\ faults < MaxFaults
    /\ faults' = faults + 1
    /\ recent' = [recent EXCEPT ![r] = pending[r]]
    /\ pending' = [pending EXCEPT ![r] = None]
    /\ UNCHANGED <<rows, sent, scan, step, page, next, cursor, seen, checked>>

\* HintPublicationUnavailable: the hint stays durable work.
PublishFails(r) ==
    /\ step = "publish" /\ pending[r] # None
    /\ faults < MaxFaults
    /\ faults' = faults + 1
    /\ pending' = [pending EXCEPT ![r] = None]
    /\ UNCHANGED <<rows, sent, scan, step, page, next, memory>>

\* The published hint leaves the RecentHints window.
WindowEnds(r) ==
    /\ recent[r] # None
    /\ recent' = [recent EXCEPT ![r] = None]
    /\ UNCHANGED <<rows, sent, scan, step, page, pending, next, cursor, seen,
                   checked, faults>>

\* After the newest-due scan comes the early one only if no sweep is under way.
After ==
    CASE scan = "newest" -> IF cursor = None THEN "early" ELSE "late"
      [] scan = "early" -> "late"
      [] OTHER -> "sleep"

EndScan ==
    /\ step = "publish" /\ pending = Nobody
    /\ scan' = After
    /\ cursor' = IF scan = "newest" THEN cursor ELSE next
    /\ step' = "select"
    /\ UNCHANGED <<rows, sent, page, pending, next, recent, seen, checked,
                   faults>>

\* Any other error: what the page still held is forgotten, the cursor kept.
ScanFails ==
    /\ scan # "sleep"
    /\ faults < MaxFaults
    /\ faults' = faults + 1
    /\ scan' = After
    /\ step' = "select"
    /\ page' = Nobody /\ pending' = Nobody
    /\ UNCHANGED <<rows, sent, next, memory>>

Wake ==
    /\ scan = "sleep"
    /\ scan' = "newest"
    /\ UNCHANGED <<rows, sent, step, page, pending, next, memory, faults>>

\* RecentHints and the cursor live in memory only.
Restart ==
    /\ faults < MaxFaults
    /\ faults' = faults + 1
    /\ scan' = "newest" /\ step' = "select"
    /\ page' = Nobody /\ pending' = Nobody
    /\ cursor' = None /\ next' = None
    /\ recent' = Nobody /\ seen' = Nobody /\ checked' = Nobody
    /\ UNCHANGED <<rows, sent>>

-----------------------------------------------------------------------------
RowStep(r) ==
    \/ FallDue(r) \/ GrowOld(r) \/ Gate(r) \/ TakeHint(r)
    \/ Complete(r) \/ Requeue(r) \/ LeaseEnds(r)

ScanStep ==
    \/ SelectNewest \/ SelectSweep \/ Admitted \/ EndScan \/ Wake
    \/ \E r \in DueRow : SkipFresh(r) \/ SkipChecked(r) \/ Admit(r) \/ Publish(r)

ScanNext ==
    \/ \E r \in DueRow : RowStep(r) \/ WindowEnds(r) \/ PublishFails(r)
    \/ ScanStep \/ ScanFails \/ Restart

ScanSpec == ScanInit /\ [][ScanNext]_scanVars

\* The clock runs.
ClockFair ==
    \A r \in DueRow : WF_scanVars(WindowEnds(r)) /\ WF_scanVars(GrowOld(r))

\* The scheduler's loop goes on, and its clock does.
ScanFair == WF_scanVars(ScanStep) /\ ClockFair

FairScanSpec == ScanSpec /\ ScanFair

-----------------------------------------------------------------------------
(* Properties                                                              *)

\* Types; a row is never both selected and admitted, and admitted rows exist
\* only inside a scan (RecentHints, scan_once).
ScanTypeOK ==
    /\ state \in [DueRow -> {"waiting", "queued", "running", "expired", "done"}]
    /\ version \in [DueRow -> Versions]
    /\ at \in [DueRow -> Places]
    /\ scan \in {"newest", "early", "late", "sleep"}
    /\ step \in {"select", "admit", "publish"}
    /\ {cursor, next} \subseteq Places \cup {None}
    /\ \A f \in {page, pending, recent, seen, checked} :
           f \in [DueRow -> Versions \cup {MaxVersion + 1}]
    /\ \A r \in DueRow : page[r] = None \/ pending[r] = None
    /\ step = "select" => page = Nobody /\ pending = Nobody

\* Work is never stranded by a lost hint, a refused neighbour, a failed
\* publication or a restart: a row that stays due and admitted is hinted again
\* and again (collect_hints' cursor, RecentHints' window).
HintedAgain ==
    \A r \in DueRow :
        []<><<Publish(r)>>_scanVars \/ []<>(~Due(r) \/ ~admits[r])

\* Suppression is earned: a row the sweep passes over as recently hinted was
\* really published at the version the sweep selected, so neither a failed
\* publication nor a later transition (a claim, a retry, a recovery) of the
\* row is ever taken for a hint still under way (RecentHints.fresh).
SuppressionEarned ==
    [][\A r \in DueRow : SkipFresh(r) => <<r, page[r]>> \in sent]_scanVars

\* Hints reach every row that needs one: none is suppressed that was not sent,
\* and none that stays due waits for ever.
HintsReach == SuppressionEarned /\ HintedAgain
=============================================================================
