---------------------------- MODULE Publication ----------------------------
(***************************************************************************)
(* How approved census changes reach ParishSoft (responses/).              *)
(*                                                                         *)
(* A Family's answers become rows (ProposedChange); Staff approve them; a  *)
(* preflight reads each Member's contact record and records a plan; an     *)
(* Administrator confirms the plan; one background run writes it, Member   *)
(* by Member, reading before and after each PUT.  Meanwhile the Family may *)
(* answer again, people edit ParishSoft by hand, a refresh compares every  *)
(* row with what ParishSoft now holds, the system may leave Production     *)
(* mode, and the run may die between any two of its steps.                 *)
(*                                                                         *)
(* ParishSoft is outside the code: ps is the contact record of each        *)
(* Member, a PUT may be lost, refused, or applied in part, and a read may  *)
(* fail.  One step is one transaction or one provider call.  The source    *)
(* lease (SourceRefresh) lets no refresh and no second run act while a run *)
(* owns it, and lets nobody take over a dead run's lease while a request   *)
(* of that run can still arrive: a crash therefore decides its PUT.        *)
(***************************************************************************)
EXTENDS Integers, Sequences, FiniteSets, Functions

CONSTANTS
    Members, Fields, Values,
    Attempts,     \* ATTEMPTS: PUTs of one entity in a run
    MaxRuns,      \* MAX_RUNS: runs of a task before it is left failed
    MaxRows, MaxPlans, MaxEdits, MaxSwitches, MaxCrashes, MaxVersion,  \* bounds
    MayLeave,     \* whether Members may leave the Family
    First         \* a value every field holds at first

ASSUME PublicationAssumption ==
    /\ First \in Values
    /\ Attempts \in Nat \ {0}
    /\ {MaxRuns, MaxRows, MaxPlans, MaxEdits, MaxSwitches, MaxCrashes, MaxVersion}
          \subseteq Nat

VARIABLES
    rows,        \* the proposed changes, in the order they were made
    plans,       \* the recorded plans, each with its entities and its task
    ps,          \* what ParishSoft holds: a contact record per Member
    seen,        \* what the promoted data says it holds
    listed,      \* the Members the promoted data lists in the Family
    production,  \* SystemConfiguration.mode = "production"
    pf,          \* the running preflight
    w,           \* the running publish worker
    used         \* how often people edited ParishSoft, modes changed, runs died
                 \* or found the source busy

vars == <<rows, plans, ps, seen, listed, production, pf, w, used>>

None == "none"      \* no outcome, no task
Nothing == <<>>     \* no record, no entity
Records == [Fields -> Values]
Open == {"pending", "conflict", "queued", "failed"}
Plannable == {"pending", "failed", "conflict"}
Executions == Open \cup {"published", "resolved_upstream", "cancelled", "superseded"}
Outcomes == {"write", "already", "conflict", "cannot_check", "not_approved"}
Final == {"published", "invalidated"}
Items == (1 .. MaxPlans) \X Members

NoRun == [pc |-> "idle", phase |-> "sweep", plan |-> 0, todo |-> {}, item |-> Nothing, tries |-> 0,
          fresh |-> Nothing, whole |-> FALSE, stopped |-> FALSE]
NoPreflight == [on |-> FALSE, scope |-> <<>>, reads |-> Nothing]

Row(m, f, v) ==
    [member |-> m, field |-> f, submitted |-> v, baseline |-> seen[m][f],
     current |-> seen[m][f], accepted |-> FALSE, decision |-> "unreviewed",
     execution |-> "pending", version |-> 1, confirmed |-> FALSE]

Init ==
    /\ rows = <<>>
    /\ plans = <<>>
    /\ ps = [m \in Members |-> [f \in Fields |-> First]]
    /\ seen = ps
    /\ listed = Members
    /\ production = TRUE
    /\ pf = NoPreflight
    /\ w = NoRun
    /\ used = [edits |-> 0, switches |-> 0, crashes |-> 0]

-----------------------------------------------------------------------------
(* The Family and Staff *)

Latest(r) == ~ \E q \in DOMAIN rows :
                /\ q > r
                /\ rows[q].member = rows[r].member
                /\ rows[q].field = rows[r].field

\* The change the form shows for a field: the newest one, unless withdrawn.
Shown(m, f) == {r \in DOMAIN rows : /\ rows[r].member = m /\ rows[r].field = f
                                    /\ Latest(r)
                                    /\ rows[r].execution \notin {"cancelled", "superseded"}}

\* The Family's answer to one field is v: left as shown, it changes nothing;
\* otherwise an open earlier change is replaced, or, at ParishSoft's own
\* value, withdrawn.
FamilyAnswers(m, f, v) ==
    LET old == Shown(m, f)
        open == {r \in old : rows[r].execution \in Open}
        new == v # seen[m][f]
        closed == [r \in DOMAIN rows |->
                      IF r \in open
                      THEN [rows[r] EXCEPT !.execution = IF new THEN "superseded" ELSE "cancelled",
                                           !.version = @ + 1]
                      ELSE rows[r]]
    IN  /\ m \in listed
        /\ \A r \in old : rows[r].submitted # v
        /\ new \/ open # {}
        /\ new => Len(rows) < MaxRows
        /\ rows' = IF new THEN Append(closed, Row(m, f, v)) ELSE closed
        /\ UNCHANGED <<plans, ps, seen, listed, production, pf, w, used>>

\* A reviewer may decide only a change that is open and not queued.
Reviewable(row) == row.execution \in {"pending", "conflict", "failed"}

\* An approval, or a decision away from it: that one undoes an accepted
\* ParishSoft value, so the change is a conflict again.
Review(r, decision) ==
    LET row == rows[r] IN
    /\ Reviewable(row)
    /\ row.version < MaxVersion
    /\ decision # row.decision
    /\ decision = "approved" => row.execution # "conflict"
    /\ rows' = [rows EXCEPT
          ![r].decision = decision,
          ![r].version = @ + 1,
          ![r].accepted = @ /\ decision = "approved",
          ![r].execution = IF row.accepted /\ decision # "approved" THEN "conflict" ELSE @]
    /\ UNCHANGED <<plans, ps, seen, listed, production, pf, w, used>>

\* Accept on a conflict: the Family's value goes over the ParishSoft value
\* the reviewer saw.
AcceptConflict(r) ==
    /\ rows[r].execution = "conflict"
    /\ rows[r].version < MaxVersion
    /\ rows' = [rows EXCEPT ![r].decision = "approved", ![r].execution = "pending",
                            ![r].accepted = TRUE, ![r].version = @ + 1]
    /\ UNCHANGED <<plans, ps, seen, listed, production, pf, w, used>>

-----------------------------------------------------------------------------
(* ParishSoft and its refresh *)

\* Somebody changes a contact record in ParishSoft itself.
EditParishSoft(m, f, v) ==
    /\ used.edits < MaxEdits
    /\ v # ps[m][f]
    /\ ps' = [ps EXCEPT ![m][f] = v]
    /\ used' = [used EXCEPT !.edits = @ + 1]
    /\ UNCHANGED <<rows, plans, seen, listed, production, pf, w>>

\* The value a change needs ParishSoft to hold still.
Base(row) == IF row.accepted THEN row.current ELSE row.baseline

\* Whether a refresh moves an open row, and where to.
Moved(row, value) == row.current # value
Reconciled(row, value) ==
    LET caughtUp == value = row.submitted
        execution == IF caughtUp /\ row.execution = "queued" THEN "resolved_upstream"
                     ELSE IF value \notin {row.submitted, row.baseline} THEN "conflict"
                     ELSE "pending"
        reset == /\ row.accepted /\ row.decision = "approved"
                 /\ row.execution \in {"pending", "failed"}
                 /\ ~ caughtUp
    IN  [row EXCEPT !.current = value, !.execution = execution, !.accepted = FALSE,
                    !.decision = IF reset THEN "unreviewed" ELSE @, !.version = @ + 1]

\* What a full refresh does with a row: an open one is merged with the new
\* value; one already written is confirmed, or found undone.
Refreshed(r, value) ==
    LET row == rows[r] IN
    CASE row.execution \in Open -> IF Moved(row, value) THEN Reconciled(row, value) ELSE row
      [] row.execution = "published" /\ Latest(r) /\ ~ row.confirmed ->
            IF value = row.submitted
            THEN [row EXCEPT !.confirmed = TRUE]
            ELSE [row EXCEPT !.current = value, !.execution = "conflict", !.accepted = FALSE,
                             !.decision = "unreviewed", !.version = @ + 1]
      [] OTHER -> row

\* A full refresh promotes what ParishSoft holds.  It owns the source lease,
\* so no publish run is under way.
Refresh(here) ==
    /\ w.pc \in {"idle", "finish"}
    /\ seen' = ps
    /\ listed' = here
    /\ rows' = [r \in DOMAIN rows |->
                   IF rows[r].member \in here
                   THEN Refreshed(r, ps[rows[r].member][rows[r].field])
                   ELSE rows[r]]
    /\ <<seen', listed', rows'>> # <<seen, listed, rows>>
    /\ UNCHANGED <<plans, ps, production, pf, w, used>>

SwitchMode ==
    /\ used.switches < MaxSwitches
    /\ production' = ~ production
    /\ used' = [used EXCEPT !.switches = @ + 1]
    /\ UNCHANGED <<rows, plans, ps, seen, listed, pf, w>>

-----------------------------------------------------------------------------
(* The plan: preflight, its record, its confirmation *)

\* Mutant: a value nobody reviewed is overwritten.
EvaluateBlind(row, value) ==
    IF row.decision # "approved" THEN "not_approved"
    ELSE IF row.execution = "conflict" THEN "conflict"
    ELSE IF value = row.submitted THEN "already"
    ELSE "write"

\* What a dry run would do with one change when ParishSoft holds value.
Evaluate(row, value) ==
    IF row.decision # "approved" THEN "not_approved"
    ELSE IF row.execution = "conflict" THEN "conflict"
    ELSE IF value = row.submitted THEN "already"
    ELSE IF value = Base(row) THEN "write"
    ELSE "conflict"

\* One Member's plan from a view of its rows and a read record: what is done
\* with each, and the record expected after the PUT (Nothing: there is nothing to write).
PlanEntity(view, record) ==
    LET open == {r \in DOMAIN view : view[r].execution \in Plannable}
        outcome == [r \in open |->
            IF record = Nothing THEN "cannot_check"
            ELSE Evaluate(view[r], record[view[r].field])]
        writes == {r \in open : outcome[r] = "write"}
        blocked == \E r \in open : outcome[r] \in {"conflict", "cannot_check"}
    IN  [fields |-> [r \in open |-> [version |-> view[r].version, outcome |-> outcome[r]]],
         read |-> IF blocked \/ writes = {} THEN Nothing ELSE record,
         planned |-> IF blocked \/ writes = {} THEN Nothing
                     ELSE [f \in Fields |->
                             IF \E r \in writes : view[r].field = f
                             THEN view[CHOOSE r \in writes : view[r].field = f].submitted
                             ELSE record[f]]]

\* The open, approved changes of the Members the promoted data lists.
Scope == {r \in DOMAIN rows : /\ rows[r].decision = "approved"
                              /\ rows[r].execution \in Plannable
                              /\ rows[r].member \in listed}

\* Check ParishSoft: the preflight reads its changes, with their versions...
StartPreflight ==
    /\ ~ pf.on
    /\ Len(plans) < MaxPlans
    /\ Scope # {}
    /\ pf' = [on |-> TRUE, scope |-> Restrict(rows, Scope), reads |-> Nothing]
    /\ UNCHANGED <<rows, plans, ps, seen, listed, production, w, used>>

\* ...then each Member's record; a Member whose read fails cannot be checked.
ReadMembers(unread) ==
    /\ pf.on /\ pf.reads = Nothing
    /\ pf' = [pf EXCEPT !.reads = [m \in Members |-> IF m \in unread THEN Nothing ELSE ps[m]]]
    /\ UNCHANGED <<rows, plans, ps, seen, listed, production, w, used>>

Entity(m) ==
    LET view == Restrict(pf.scope, {r \in DOMAIN pf.scope : pf.scope[r].member = m})
        plan == PlanEntity(view, pf.reads[m])
    IN  [fields |-> plan.fields, read |-> plan.read, planned |-> plan.planned,
         result |-> None, failed |-> FALSE, mismatch |-> FALSE]

\* The changes the plan found ParishSoft to hold already, in Production mode.
Marked(entities) ==
    {r \in DOMAIN pf.scope :
        production /\ entities[pf.scope[r].member].fields[r].outcome = "already"}

\* The plan is recorded, and the changes ParishSoft holds already are marked
\* published, nothing written.  The database refuses a plan of a change that
\* moved since it was read.
RecordPlan ==
    LET entities == [m \in Members |-> Entity(m)] IN
    /\ pf.on /\ pf.reads # Nothing
    /\ \A r \in DOMAIN pf.scope : rows[r].version = pf.scope[r].version
    /\ plans' = Append(plans,
          [entities |-> entities, testing |-> ~ production, confirmed |-> FALSE,
           expired |-> FALSE, task |-> None, attempt |-> 0, asked |-> FALSE, owed |-> FALSE])
    /\ rows' = [r \in DOMAIN rows |->
          IF r \in Marked(entities)
          THEN [rows[r] EXCEPT !.execution = "published", !.version = @ + 1]
          ELSE rows[r]]
    /\ pf' = NoPreflight
    /\ UNCHANGED <<ps, seen, listed, production, w, used>>

\* A refused, failed or crashed preflight leaves no plan.
LosePreflight ==
    /\ pf.on
    /\ pf' = NoPreflight
    /\ UNCHANGED <<rows, plans, ps, seen, listed, production, w, used>>

Writes(e) == {r \in DOMAIN e.fields : e.fields[r].outcome = "write"}
Unfinished(p) == {i \in {p} \X Members : /\ plans[p].entities[i[2]].planned # Nothing
                                         /\ plans[p].entities[i[2]].result = None}

\* Whether the plan's own check marked the row.
MarkedUpstream(e, r) ==
    /\ e.fields[r].outcome = "already"
    /\ rows[r].execution \in {"published", "resolved_upstream"}
    /\ rows[r].version = e.fields[r].version + 1

\* Every planned change is as preflight left it.
StillAsPlanned(e) ==
    \A r \in DOMAIN e.fields :
        \/ MarkedUpstream(e, r)
        \/ /\ e.fields[r].outcome # "already"
           /\ rows[r].version = e.fields[r].version
           /\ rows[r].execution \in Plannable
           /\ e.fields[r].outcome = "write" => /\ rows[r].decision = "approved"
                                               /\ rows[r].execution # "conflict"

\* Another confirmed plan still writes one of the plan's changes.
Overlaps(p) ==
    \E q \in DOMAIN plans \ {p} :
        /\ plans[q].confirmed
        /\ \E i \in Unfinished(q), j \in Unfinished(p) :
              Writes(plans[q].entities[i[2]]) \cap Writes(plans[p].entities[j[2]]) # {}

\* The Administrator confirms; the run is queued in the same transaction.
Confirm(p) ==
    /\ ~ plans[p].confirmed /\ ~ plans[p].testing
    /\ Unfinished(p) # {}
    /\ \A m \in Members : StillAsPlanned(plans[p].entities[m])
    /\ ~ Overlaps(p)
    /\ plans' = [plans EXCEPT ![p].confirmed = TRUE, ![p].task = "waiting"]
    /\ UNCHANGED <<rows, ps, seen, listed, production, pf, w, used>>

\* EXECUTION_WINDOW after the confirmation.
Expire(p) ==
    /\ plans[p].confirmed /\ ~ plans[p].expired
    /\ Unfinished(p) # {}
    /\ plans' = [plans EXCEPT ![p].expired = TRUE]
    /\ UNCHANGED <<rows, ps, seen, listed, production, pf, w, used>>

-----------------------------------------------------------------------------
(* The publish run *)

EntityOf(i) == plans[i[1]].entities[i[2]]

\* The promoted data lists the Member, active and living, in the Family.
Listed(i) == i[2] \in listed

\* A write of this entity that its own plan has queued.
QueuedByPlan(i, r) ==
    LET e == EntityOf(i) IN
    /\ r \in Writes(e)
    /\ rows[r].execution = "queued"
    /\ rows[r].version = e.fields[r].version + 1

AnyQueued(i) == \E r \in Writes(EntityOf(i)) : QueuedByPlan(i, r)
AllQueued(i) == \A r \in Writes(EntityOf(i)) : QueuedByPlan(i, r)

\* The rows as the planner sees them: what the plan queued, as it planned it.
View(i) ==
    [r \in DOMAIN EntityOf(i).fields |->
        IF QueuedByPlan(i, r)
        THEN [rows[r] EXCEPT !.execution = "pending", !.version = @ - 1]
        ELSE rows[r]]

\* The run's own earlier PUT is what ParishSoft holds: whole says whether
\* every write was queued by the plan when the rows were read.
Landed(i, whole, record) == whole /\ record = EntityOf(i).planned

\* Planned again from the fresh record, the entity is as it was confirmed.
MatchesConfirmed(i, record) ==
    LET e == EntityOf(i)
        again == PlanEntity(View(i), record)
        kept == {r \in DOMAIN e.fields : ~ MarkedUpstream(e, r)}
    IN  /\ again.planned # Nothing
        /\ again.fields = Restrict(e.fields, kept)
        /\ again.read = e.read /\ again.planned = e.planned

\* Rows an outcome settles: those the plan queued and nothing moved since.
Settle(i, target) ==
    [r \in DOMAIN rows |->
        IF r \in DOMAIN EntityOf(i).fields /\ QueuedByPlan(i, r)
        THEN [rows[r] EXCEPT !.execution = target, !.version = @ + 1]
        ELSE rows[r]]

\* One outcome and the rows it finishes, in one transaction.
RecordPublished(i) ==
    /\ plans' = [plans EXCEPT ![i[1]].entities[i[2]].result = "published", ![i[1]].owed = TRUE]
    /\ rows' = Settle(i, "published")
RecordInvalidated(i) ==
    /\ plans' = [plans EXCEPT ![i[1]].entities[i[2]].result = "invalidated"]
    /\ rows' = Settle(i, IF EntityOf(i).failed THEN "failed" ELSE "pending")
RecordFailed(i, mismatch) ==
    /\ plans' = [plans EXCEPT ![i[1]].entities[i[2]] =
                     [EntityOf(i) EXCEPT !.failed = TRUE, !.mismatch = @ \/ mismatch]]
    /\ UNCHANGED rows

\* The run leaves the entity it is at.
Left == [w EXCEPT !.pc = "next", !.item = Nothing, !.fresh = Nothing, !.whole = FALSE,
                  !.tries = 0, !.todo = @ \ {w.item}]
Stopped == [Left EXCEPT !.stopped = TRUE]

\* Mutant: the attempts are not counted.
RetriedForever == [w EXCEPT !.pc = "attempt", !.fresh = Nothing]

\* After a failed attempt the entity is tried again, ATTEMPTS times in all.
Retried == IF w.tries + 1 < Attempts
           THEN [w EXCEPT !.pc = "attempt", !.fresh = Nothing, !.tries = @ + 1]
           ELSE Left

\* The run finds the source lease free, takes it and lists the work expired
\* plans left.
Start(p) ==
    /\ w.pc = "idle"
    /\ plans[p].task = "waiting"
    /\ production
    /\ plans' = [plans EXCEPT ![p].task = "running", ![p].attempt = @ + 1]
    /\ w' = [NoRun EXCEPT !.pc = "next", !.phase = "sweep", !.plan = p,
                          !.todo = UNION {Unfinished(q) : q \in
                                      {q \in DOMAIN plans \ {p} : plans[q].expired}},
                          !.stopped = plans[p].expired]
    /\ UNCHANGED <<rows, ps, seen, listed, production, pf, used>>

\* acquire_source finds the lease with another run or a refresh, and raises:
\* the attempt is spent, and the claim lapses like that of a run that died.
StartBusy(p) ==
    /\ plans[p].task = "waiting"
    /\ production
    /\ used.crashes < MaxCrashes
    /\ plans' = [plans EXCEPT ![p].task = "abandoned", ![p].attempt = @ + 1]
    /\ used' = [used EXCEPT !.crashes = @ + 1]
    /\ UNCHANGED <<rows, ps, seen, listed, production, pf, w>>

\* Out of Production mode the run is refused before it takes the lease.
Refuse(p) ==
    /\ w.pc = "idle"
    /\ plans[p].task = "waiting"
    /\ ~ production
    /\ plans' = [plans EXCEPT ![p].attempt = @ + 1,
                    ![p].task = IF Unfinished(p) = {} THEN "succeeded" ELSE "failed"]
    /\ UNCHANGED <<rows, ps, seen, listed, production, pf, w, used>>

\* Close what expired plans left, attempt this plan, close what is left of it.
NextPhase ==
    /\ w.pc = "next" /\ w.todo = {}
    /\ w' = IF w.phase = "closing" THEN [w EXCEPT !.pc = "release"]
            ELSE [w EXCEPT !.phase = IF @ = "sweep" THEN "attempts" ELSE "closing",
                           !.todo = Unfinished(w.plan)]
    /\ UNCHANGED <<rows, plans, ps, seen, listed, production, pf, used>>

\* An entity whose PUT was accepted and read back wrong is not attempted.
TakeEntity(i) ==
    /\ w.pc = "next" /\ w.phase = "attempts" /\ i \in w.todo
    /\ w' = IF w.stopped \/ EntityOf(i).mismatch
            THEN [w EXCEPT !.todo = @ \ {i}]
            ELSE [w EXCEPT !.item = i, !.pc = "attempt"]
    /\ UNCHANGED <<rows, plans, ps, seen, listed, production, pf, used>>

\* Right before a PUT the Member's record is read uncached.
AttemptRead(fails) ==
    LET i == w.item IN
    /\ w.pc = "attempt"
    /\ \/ /\ ~ production
          /\ w' = Stopped
          /\ UNCHANGED <<rows, plans>>
       \/ /\ production /\ ~ AnyQueued(i) /\ ~ Listed(i)
          /\ RecordInvalidated(i)
          /\ w' = Left
       \/ /\ production /\ (AnyQueued(i) \/ Listed(i))
          /\ IF fails
             THEN RecordFailed(i, FALSE) /\ w' = Retried
             ELSE /\ w' = [w EXCEPT !.pc = "decide", !.fresh = ps[i[2]]]
                  /\ UNCHANGED <<rows, plans>>
    /\ UNCHANGED <<ps, seen, listed, production, pf, used>>

\* Mutant: the confirmed read is trusted, not the fresh one.
MayWriteConfirmed(i) == MatchesConfirmed(i, EntityOf(i).read)

\* The entity may be written: ParishSoft holds exactly what was confirmed and
\* the changes plan exactly as they did.
MayWrite(i) == w.fresh = EntityOf(i).read /\ MatchesConfirmed(i, w.fresh)

\* A landed PUT is recorded; a difference invalidates the entity; otherwise
\* its writes are queued, under the lock that checks them again.
Decide ==
    LET i == w.item
        landed == Landed(i, AllQueued(i), w.fresh)
    IN
    /\ w.pc = "decide"
    /\ \/ /\ landed
          /\ w' = [w EXCEPT !.pc = "publish"]
          /\ UNCHANGED <<rows, plans>>
       \/ /\ ~ landed /\ ~ MayWrite(i)
          /\ RecordInvalidated(i)
          /\ w' = Left
       \/ /\ ~ landed /\ MayWrite(i) /\ ~ production
          /\ w' = Stopped
          /\ UNCHANGED <<rows, plans>>
       \/ /\ ~ landed /\ MayWrite(i) /\ production /\ ~ Listed(i)
          /\ RecordInvalidated(i)
          /\ w' = Left
       \/ /\ ~ landed /\ MayWrite(i) /\ production /\ Listed(i)
          /\ rows' = [r \in DOMAIN rows |->
                IF r \in Writes(EntityOf(i)) /\ rows[r].execution # "queued"
                THEN [rows[r] EXCEPT !.execution = "queued", !.version = @ + 1]
                ELSE rows[r]]
          /\ w' = [w EXCEPT !.pc = "put"]
          /\ UNCHANGED plans
    /\ UNCHANGED <<ps, seen, listed, production, pf, used>>

\* The fields the PUT body holds: only those to write.
Body(i) == {rows[r].field : r \in Writes(EntityOf(i))}

\* ParishSoft applies the part of the body in applied.
Apply(i, applied) ==
    ps' = [ps EXCEPT ![i[2]] = [f \in Fields |-> IF f \in applied THEN EntityOf(i).planned[f] ELSE @[f]]]

\* The PUT: whatever of it lands, ParishSoft may answer, or not.
Put(applied, answered) ==
    LET i == w.item IN
    /\ w.pc = "put"
    /\ applied \subseteq Body(i)
    /\ Apply(i, applied)
    /\ IF answered
       THEN w' = [w EXCEPT !.pc = "verify"] /\ UNCHANGED <<rows, plans>>
       ELSE RecordFailed(i, FALSE) /\ w' = Retried
    /\ UNCHANGED <<seen, listed, production, pf, used>>

\* The record is read back and must be the one planned.
Verify(fails) ==
    LET i == w.item IN
    /\ w.pc = "verify"
    /\ \/ fails /\ RecordFailed(i, FALSE) /\ w' = Retried
       \/ ~ fails /\ ps[i[2]] = EntityOf(i).planned /\ RecordPublished(i) /\ w' = Left
       \/ ~ fails /\ ps[i[2]] # EntityOf(i).planned /\ RecordFailed(i, TRUE) /\ w' = Left
    /\ UNCHANGED <<ps, seen, listed, production, pf, used>>

Publish ==
    /\ w.pc = "publish"
    /\ RecordPublished(w.item)
    /\ w' = Left
    /\ UNCHANGED <<ps, seen, listed, production, pf, used>>

\* Closing: an entity with nothing queued was never written; one with its
\* writes queued is read back first.
BeginClose(i) ==
    /\ w.pc = "next" /\ w.phase \in {"sweep", "closing"} /\ i \in w.todo
    /\ IF AnyQueued(i)
       THEN /\ w' = [w EXCEPT !.item = i, !.pc = "close", !.whole = AllQueued(i)]
            /\ UNCHANGED <<rows, plans>>
       ELSE /\ RecordInvalidated(i)
            /\ w' = [w EXCEPT !.todo = @ \ {i}]
    /\ UNCHANGED <<ps, seen, listed, production, pf, used>>

CloseRead(fails) ==
    LET i == w.item IN
    /\ w.pc = "close"
    /\ IF ~ fails /\ Landed(i, w.whole, ps[i[2]])
       THEN RecordPublished(i)
       ELSE RecordInvalidated(i)
    /\ w' = Left
    /\ UNCHANGED <<ps, seen, listed, production, pf, used>>

ReleaseSource ==
    /\ w.pc = "release"
    /\ w' = [w EXCEPT !.pc = "finish"]
    /\ UNCHANGED <<rows, plans, ps, seen, listed, production, pf, used>>

\* A plan that updated a Member since its last final refresh asks for one, at
\* most once per task row and as best it can; then the run is complete.
Finish(admitted) ==
    LET p == w.plan
        asks == plans[p].owed /\ ~ plans[p].asked /\ admitted
    IN
    /\ w.pc = "finish"
    /\ plans' = [plans EXCEPT ![p].task = "succeeded", ![p].asked = @ \/ asks,
                              ![p].owed = @ /\ ~ asks]
    /\ w' = NoRun
    /\ UNCHANGED <<rows, ps, seen, listed, production, pf, used>>

\* The run dies, or ends with an error: its claim and its lease lapse, once
\* its last request has landed or never will.
Crash(applied) ==
    /\ w.pc # "idle"
    /\ used.crashes < MaxCrashes
    /\ IF w.pc = "put"
       THEN applied \subseteq Body(w.item) /\ Apply(w.item, applied)
       ELSE applied = {} /\ UNCHANGED ps
    /\ plans' = [plans EXCEPT ![w.plan].task = "abandoned"]
    /\ w' = NoRun
    /\ used' = [used EXCEPT !.crashes = @ + 1]
    /\ UNCHANGED <<rows, seen, listed, production, pf>>

\* An abandoned run is retried on the same plan while it has work left or its
\* final refresh is owed, MAX_RUNS times in all.
Recover(p) ==
    LET left == Unfinished(p) # {}
        again == plans[p].attempt < MaxRuns
    IN
    /\ plans[p].task = "abandoned"
    /\ plans' = [plans EXCEPT ![p].task =
          IF again /\ (left \/ plans[p].owed) THEN "waiting"
          ELSE IF left THEN "failed" ELSE "succeeded"]
    /\ UNCHANGED <<rows, ps, seen, listed, production, pf, w, used>>

\* Run again, for a failed run with work left: a task row of its own.
Rerun(p) ==
    /\ plans[p].task = "failed"
    /\ Unfinished(p) # {}
    /\ plans' = [plans EXCEPT ![p].task = "waiting", ![p].attempt = 0, ![p].asked = FALSE]
    /\ UNCHANGED <<rows, ps, seen, listed, production, pf, w, used>>

-----------------------------------------------------------------------------
RunStep ==
    \/ NextPhase
    \/ \E i \in w.todo : TakeEntity(i) \/ BeginClose(i)
    \/ \E fails \in BOOLEAN : AttemptRead(fails) \/ Verify(fails) \/ CloseRead(fails)
    \/ Decide
    \/ \E applied \in SUBSET Fields, answered \in BOOLEAN : Put(applied, answered)
    \/ Publish
    \/ ReleaseSource
    \/ \E admitted \in BOOLEAN : Finish(admitted)

PlanStep(p) == Start(p) \/ Refuse(p) \/ Recover(p)

Next ==
    \/ RunStep
    \/ \E p \in DOMAIN plans : PlanStep(p) \/ Confirm(p) \/ Expire(p) \/ Rerun(p) \/ StartBusy(p)
    \/ \E applied \in SUBSET Fields : Crash(applied)
    \/ StartPreflight \/ RecordPlan \/ LosePreflight
    \/ \E unread \in SUBSET Members : ReadMembers(unread)
    \/ \E m \in Members, f \in Fields, v \in Values :
          FamilyAnswers(m, f, v) \/ EditParishSoft(m, f, v)
    \/ \E r \in DOMAIN rows : AcceptConflict(r) \/ \E d \in {"approved", "unreviewed"} : Review(r, d)
    \/ \E here \in (IF MayLeave THEN SUBSET Members ELSE {Members}) : Refresh(here)
    \/ SwitchMode

Spec == Init /\ [][Next]_vars

-----------------------------------------------------------------------------
(* Correctness *)

RowType == [member : Members, field : Fields, submitted : Values, baseline : Values,
            current : Values, accepted : BOOLEAN, decision : {"unreviewed", "approved"},
            execution : Executions, version : Nat, confirmed : BOOLEAN]

\* The rows, the plans and the run have their types, and an entity is tried at
\* most ATTEMPTS times in a run.
PublicationTypeOK ==
    /\ rows \in Seq(RowType)
    /\ \A p \in DOMAIN plans, m \in Members :
          LET e == plans[p].entities[m] IN
          /\ e.read \in Records \cup {Nothing} /\ e.planned \in Records \cup {Nothing}
          /\ e.result \in Final \cup {None}
          /\ \A r \in DOMAIN e.fields : e.fields[r].outcome \in Outcomes
    /\ ps \in [Members -> Records] /\ seen \in [Members -> Records]
    /\ w.todo \subseteq Items /\ w.tries \in 0 .. Attempts - 1

\* A field of a Member never has two open changes: preflight could not plan
\* them, and neither could be written.
OneOpenChange ==
    \A r, q \in DOMAIN rows :
        /\ r # q /\ rows[r].member = rows[q].member /\ rows[r].field = rows[q].field
        /\ rows[r].execution \in Open
        => rows[q].execution \notin Open

\* A change shown as Updated in ParishSoft is what ParishSoft holds, as long
\* as nobody edits ParishSoft itself: whether the run wrote it, found its own
\* earlier PUT there after a crash, or the check found it there.
PublishedIsHeld ==
    used.edits = 0 =>
        \A r \in DOMAIN rows :
            rows[r].execution = "published" /\ Latest(r) =>
                ps[rows[r].member][rows[r].field] = rows[r].submitted

\* A queued change is always one that some confirmed, unfinished entity queued
\* and will settle: no crash, refresh, resubmission or closing strands it.
QueuedHasOwner ==
    \A r \in DOMAIN rows :
        rows[r].execution = "queued" =>
            \E p \in DOMAIN plans : \E i \in Unfinished(p) :
                plans[p].confirmed /\ QueuedByPlan(i, r)

\* What is being written stays approved: from the queueing until the read
\* back only the Family itself can take a written change away.
WritesApproved ==
    w.pc \in {"put", "verify"} =>
        \A r \in Writes(EntityOf(w.item)) :
            \/ rows[r].execution \in {"superseded", "cancelled"}
            \/ rows[r].execution = "queued" /\ rows[r].decision = "approved"

\* A run that is reported complete left nothing of its plan unfinished.
CompleteIsFinal ==
    \A p \in DOMAIN plans : plans[p].task = "succeeded" => Unfinished(p) = {}

\* No PUT goes over the plan's own earlier PUT: without edits in ParishSoft a
\* PUT is sent only while it holds what the Administrator confirmed.
WritesOnce ==
    w.pc = "put" /\ used.edits = 0 => ps[w.item[2]] = EntityOf(w.item).read

\* No Member the promoted data lists outside the Family is written.
WritesListed == w.pc = "put" => w.item[2] \in listed

\* A PUT changes only the fields the plan writes: what somebody else edited
\* in the Member's other fields since the read survives it.
OthersKept ==
    [][\A m \in Members, f \in Fields :
          used'.edits = used.edits /\ ps'[m][f] # ps[m][f] =>
              /\ w.item[2] = m
              /\ \E r \in Writes(EntityOf(w.item)) : rows[r].field = f]_vars

\* Once a PUT was accepted and read back as something else, no PUT of that
\* entity is sent again, by this run or by a later one.
MismatchIsLast ==
    [][w'.pc = "put" => ~ plans'[w'.item[1]].entities[w'.item[2]].mismatch]_vars

\* A write starts only from the Family's newest answers, open and approved
\* right then, whatever happened since the plan was confirmed.
NewestIsWritten ==
    [][w'.pc = "put" /\ w.pc # "put" =>
          \A r \in Writes(EntityOf(w'.item)) :
              Latest(r) /\ rows[r].decision = "approved"
                        /\ rows[r].execution \in {"pending", "failed", "queued"}]_vars

\* A PUT replaces only a value the Family answered against or a reviewer
\* accepted, unless somebody edited ParishSoft after the read right before it.
NoBlindOverwrite ==
    [][\A m \in Members, f \in Fields :
          /\ used'.edits = used.edits /\ ps'[m][f] # ps[m][f]
          /\ ps[m][f] = w.fresh[f]
          => \E r \in Writes(EntityOf(w.item)) :
                 rows[r].field = f /\ ps[m][f] = Base(rows[r])]_vars

\* The worker runs what waits and goes on with what runs; an abandoned run is
\* recovered.
PublicationFair ==
    /\ WF_vars(RunStep)
    /\ \A p \in 1 .. MaxPlans : WF_vars(p \in DOMAIN plans /\ PlanStep(p))

FairSpec == Spec /\ PublicationFair

\* A confirmed plan is finished, every entity published or invalidated, or
\* its run is left failed for an Administrator to run again: no failing read,
\* lost PUT, mode switch or crash keeps it going for ever.
PublicationEnds ==
    \A p \in 1 .. MaxPlans :
        (p \in DOMAIN plans /\ plans[p].confirmed)
            ~> (p \in DOMAIN plans /\ (Unfinished(p) = {} \/ plans[p].task = "failed"))

\* What reaches ParishSoft was approved and planned, reaches it once, and what
\* is reported as published is there.
PublicationSafe ==
    /\ PublicationTypeOK
    /\ PublishedIsHeld
    /\ WritesOnce
    /\ OneOpenChange
    /\ QueuedHasOwner
    /\ CompleteIsFinal
    /\ WritesListed
    /\ WritesApproved

\* A write changes only its own field, from the value that was reviewed, to
\* the newest approved answer.
WritesSafe ==
    /\ OthersKept
    /\ MismatchIsLast
    /\ NewestIsWritten
    /\ NoBlindOverwrite
=============================================================================
