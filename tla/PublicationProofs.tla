------------------------- MODULE PublicationProofs -------------------------
(***************************************************************************)
(* Proofs about the publication, for any Members, fields, values, plans,   *)
(* answers, edits, crashes and attempts.                                   *)
(*                                                                         *)
(* The safety properties are not inductive.  That a change shown as        *)
(* Updated is what ParishSoft holds needs to know what the run's read, the *)
(* preflight's reads and the promoted data say of it while nobody edits    *)
(* ParishSoft (Unedited), the last because a PUT may replace a field that  *)
(* the Family has answered anew while it was under way: the newer answer   *)
(* cannot be one that ParishSoft already held.  That a write starts from   *)
(* the newest answer needs every open change to be the newest of its field *)
(* (RowsOK), and a preflight to see a change as it was while its version   *)
(* is (ScopeOK).                                                           *)
(***************************************************************************)
EXTENDS Publication, SequenceTheorems, TLAPS

-----------------------------------------------------------------------------
(* The inductive invariant.                                                *)

TaskStates == {None, "waiting", "running", "abandoned", "failed", "succeeded"}
FieldPlans == UNION {[D -> [version : Nat, outcome : Outcomes]] : D \in SUBSET Nat}
EntityType ==
    [fields : FieldPlans, read : Records \cup {Nothing},
     planned : Records \cup {Nothing}, result : Final \cup {None},
     failed : BOOLEAN, mismatch : BOOLEAN]
PlanType ==
    [entities : [Members -> EntityType], testing : BOOLEAN, confirmed : BOOLEAN,
     expired : BOOLEAN, task : TaskStates, attempt : Nat, asked : BOOLEAN,
     owed : BOOLEAN]
RunType ==
    [pc : {"idle", "next", "attempt", "decide", "put", "verify", "publish",
           "close", "release", "finish"},
     phase : {"sweep", "attempts", "closing"}, plan : Nat, todo : SUBSET Items,
     item : Items \cup {Nothing}, tries : 0 .. Attempts - 1,
     fresh : Records \cup {Nothing}, whole : BOOLEAN, stopped : BOOLEAN]
Scopes == UNION {[D -> RowType] : D \in SUBSET Nat}
Preflights ==
    [on : {TRUE}, scope : Scopes,
     reads : [Members -> Records \cup {Nothing}] \cup {Nothing}]

Typed ==
    /\ rows \in Seq(RowType)
    /\ plans \in Seq(PlanType) /\ Len(plans) <= MaxPlans
    /\ ps \in [Members -> Records] /\ seen \in [Members -> Records]
    /\ listed \subseteq Members /\ production \in BOOLEAN
    /\ pf = NoPreflight \/ (pf \in Preflights /\ Len(plans) < MaxPlans)
    /\ w \in RunType
    /\ used \in [edits : Nat, switches : Nat, crashes : Nat]

\* What ParishSoft and the promoted data say of the change's field.
Held(row) == ps[row.member][row.field]
SeenAt(row) == seen[row.member][row.field]
SameField(row, other) == row.member = other.member /\ row.field = other.field

\* An open change is the newest of its field; of a listed Member it knows the
\* promoted value, and outside a conflict that is the Family's or the one the
\* Family answered against, unless a reviewer accepted another.
RowsOK ==
    \A r \in DOMAIN rows :
        /\ rows[r].execution \in Open => Latest(r)
        /\ rows[r].execution \in Open /\ rows[r].member \in listed =>
               rows[r].current = SeenAt(rows[r])
        /\ rows[r].execution \in {"pending", "failed", "queued"} /\ ~ rows[r].accepted =>
               rows[r].current \in {rows[r].submitted, rows[r].baseline}

\* A plan names changes of its Member and plans to write what they say.
EntityOK(e, m) ==
    /\ \A r \in DOMAIN e.fields : r \in DOMAIN rows /\ rows[r].member = m
    /\ e.planned # Nothing =>
           \A r \in Writes(e) : e.planned[rows[r].field] = rows[r].submitted

PlansOK ==
    \A p \in DOMAIN plans :
        /\ \A m \in Members : EntityOK(plans[p].entities[m], m)
        /\ plans[p].expired \/ plans[p].task # None => plans[p].confirmed

\* A change that has the version the preflight read is as it was read.
ScopeOK ==
    \A r \in DOMAIN pf.scope :
        /\ r \in DOMAIN rows /\ SameField(pf.scope[r], rows[r])
        /\ pf.scope[r].submitted = rows[r].submitted
        /\ pf.scope[r].execution \in Plannable
        /\ pf.scope[r].version <= rows[r].version
        /\ pf.scope[r].version = rows[r].version => rows[r] = pf.scope[r]
        /\ \A q \in DOMAIN pf.scope : SameField(pf.scope[r], pf.scope[q]) => r = q

PreflightOK == pf.on => ScopeOK

\* The run works on unfinished entities of confirmed plans, and closes what is
\* left of its own.
AtItem == {"attempt", "decide", "put", "verify", "publish"}
RunOK ==
    w.pc # "idle" =>
        /\ w.plan \in DOMAIN plans /\ plans[w.plan].confirmed
        /\ \A i \in w.todo :
               i[1] \in DOMAIN plans /\ plans[i[1]].confirmed /\ i \in Unfinished(i[1])
        /\ w.phase = "closing" /\ w.pc \in {"next", "close"} => Unfinished(w.plan) \subseteq w.todo
        /\ w.pc \in {"release", "finish"} => Unfinished(w.plan) = {}
        /\ w.pc \in AtItem => w.item \in w.todo /\ w.phase = "attempts"
        /\ w.pc = "close" => w.item \in w.todo /\ w.phase \in {"sweep", "closing"}

\* What a PUT about to be sent rests on.
PutOK ==
    /\ w.pc \in AtItem => ~ EntityOf(w.item).mismatch
    /\ WritesApproved
    /\ WritesListed
    /\ w.pc = "put" =>
          /\ w.fresh = EntityOf(w.item).read
          /\ \A r \in Writes(EntityOf(w.item)) :
                /\ w.fresh[rows[r].field] = Base(rows[r])
                /\ \A q \in DOMAIN rows : q > r /\ SameField(rows[q], rows[r]) =>
                       rows[q].current = SeenAt(rows[r]) /\ rows[q].submitted # SeenAt(rows[r])

\* What holds while nobody edits ParishSoft itself.  An open change whose value
\* the promoted data had is one that ParishSoft holds.
CaughtUpIsHeld ==
    \A r \in DOMAIN rows :
        rows[r].execution \in Open /\ rows[r].current = rows[r].submitted =>
            Held(rows[r]) = rows[r].submitted

\* The run knows the record, and the promoted data every field it will write.
RunKnows ==
    /\ w.pc \in {"decide", "put", "publish"} => w.fresh = ps[w.item[2]]
    /\ w.pc = "publish" => w.fresh = EntityOf(w.item).planned
    /\ w.pc = "put" => \A r \in Writes(EntityOf(w.item)) : Held(rows[r]) = SeenAt(rows[r])

\* What the preflight found in ParishSoft already is there until its change moves.
FoundIsHeld ==
    pf.on /\ pf.reads # Nothing =>
        \A r \in DOMAIN pf.scope :
            /\ pf.scope[r].version = rows[r].version
            /\ pf.reads[rows[r].member] # Nothing
            /\ pf.reads[rows[r].member][rows[r].field] = rows[r].submitted
            => Held(rows[r]) = rows[r].submitted

Unedited == PublishedIsHeld /\ CaughtUpIsHeld /\ RunKnows /\ FoundIsHeld

PublicationInv ==
    /\ Typed
    /\ RowsOK
    /\ PlansOK
    /\ PreflightOK
    /\ RunOK
    /\ PutOK
    /\ QueuedHasOwner
    /\ CompleteIsFinal
    /\ used.edits = 0 => Unedited

-----------------------------------------------------------------------------
(* Rows.                                                                   *)

LEMMA RowsAre ==
  ASSUME Typed
  PROVE  /\ Len(rows) \in Nat /\ DOMAIN rows = 1 .. Len(rows)
         /\ \A r \in DOMAIN rows : rows[r] \in RowType
         /\ Len(plans) \in Nat /\ DOMAIN plans = 1 .. Len(plans)
         /\ \A p \in DOMAIN plans : plans[p] \in PlanType
  BY LenProperties DEF Typed

\* A step of a row: what the Family said stays, and what else changes of an
\* open change gives it a new version.
RowStep(row, new) ==
    /\ new \in RowType
    /\ SameField(new, row) /\ new.submitted = row.submitted
    /\ new.baseline = row.baseline
    /\ row.version <= new.version
    /\ row.version = new.version => new = row \/ row.execution \notin Open

RowsStep ==
    /\ rows' \in Seq(RowType)
    /\ DOMAIN rows \subseteq DOMAIN rows'
    /\ \A r \in DOMAIN rows : RowStep(rows[r], rows'[r])

LEMMA RowStays ==
  ASSUME NEW row \in RowType
  PROVE  RowStep(row, row)
<1>1. row.version \in Nat
  BY DEF RowType
<1> QED
  BY <1>1 DEF RowStep, SameField

\* A new execution, with its version.
MovedTo(row, x) == [row EXCEPT !.execution = x, !.version = @ + 1]

LEMMA RowMovesTo ==
  ASSUME NEW row \in RowType, NEW x \in Executions
  PROVE  /\ RowStep(row, MovedTo(row, x)) /\ MovedTo(row, x).execution = x
         /\ MovedTo(row, x).accepted = row.accepted
         /\ MovedTo(row, x).current = row.current
         /\ MovedTo(row, x).decision = row.decision
         /\ MovedTo(row, x).version = row.version + 1
         /\ MovedTo(row, x).confirmed = row.confirmed
         /\ MovedTo(row, x).member = row.member /\ MovedTo(row, x).field = row.field
<1> DEFINE new == MovedTo(row, x)
<1>1. row.version \in Nat /\ row.version + 1 \in Nat
  BY DEF RowType
<1>2. /\ new \in RowType /\ new.execution = x /\ new.accepted = row.accepted
      /\ new.current = row.current /\ new.decision = row.decision
      /\ new.version = row.version + 1 /\ new.confirmed = row.confirmed
      /\ new.member = row.member /\ new.field = row.field
      /\ new.submitted = row.submitted /\ new.baseline = row.baseline
  BY <1>1 DEF RowType, MovedTo
<1> QED
  BY <1>1, <1>2 DEF RowStep, SameField

\* Rows that change in place.
LEMMA RowsInPlace ==
  ASSUME Typed, NEW new, DOMAIN new = DOMAIN rows,
         new = [r \in DOMAIN rows |-> new[r]],
         \A r \in DOMAIN rows : RowStep(rows[r], new[r])
  PROVE  /\ new \in Seq(RowType) /\ Len(new) = Len(rows)
<1>0. Len(rows) \in Nat /\ DOMAIN rows = 1 .. Len(rows)
  BY RowsAre
<1>1. new \in [1 .. Len(rows) -> RowType]
  BY <1>0 DEF RowStep
<1>2. new \in Seq(RowType)
  BY <1>0, <1>1, SeqDef
<1> QED
  BY <1>0, <1>2, LenProperties

\* Latest looks at Members and fields only.
LEMMA LatestStays ==
  ASSUME Typed, RowsStep, DOMAIN rows' = DOMAIN rows, NEW r \in DOMAIN rows
  PROVE  Latest(r)' <=> Latest(r)
  BY DEF RowsStep, RowStep, SameField, Latest

LEMMA ScopeKept ==
  ASSUME Typed, RowsStep, ScopeOK, pf' = pf
  PROVE  ScopeOK'
<1> SUFFICES ASSUME NEW r \in DOMAIN pf.scope
             PROVE  /\ r \in DOMAIN rows' /\ SameField(pf.scope[r], rows'[r])
                    /\ pf.scope[r].submitted = rows'[r].submitted
                    /\ pf.scope[r].execution \in Plannable
                    /\ pf.scope[r].version <= rows'[r].version
                    /\ pf.scope[r].version = rows'[r].version => rows'[r] = pf.scope[r]
                    /\ \A q \in DOMAIN pf.scope : SameField(pf.scope[r], pf.scope[q]) => r = q
  BY DEF ScopeOK
<1>1. /\ r \in DOMAIN rows /\ SameField(pf.scope[r], rows[r])
      /\ pf.scope[r].submitted = rows[r].submitted
      /\ pf.scope[r].execution \in Plannable
      /\ pf.scope[r].version <= rows[r].version
      /\ pf.scope[r].version = rows[r].version => rows[r] = pf.scope[r]
      /\ \A q \in DOMAIN pf.scope : SameField(pf.scope[r], pf.scope[q]) => r = q
  BY DEF ScopeOK
<1>2. /\ r \in DOMAIN rows' /\ SameField(rows'[r], rows[r])
      /\ rows'[r].submitted = rows[r].submitted
      /\ rows[r].version <= rows'[r].version
      /\ rows[r].version = rows'[r].version =>
             rows'[r] = rows[r] \/ rows[r].execution \notin Open
  BY <1>1 DEF RowsStep, RowStep
<1>3. rows[r].version \in Nat /\ rows'[r].version \in Nat
  BY <1>1, RowsAre DEF RowType, RowsStep, RowStep
<1>4. pf.scope[r].version \in Int
  <2>1. pf \in Preflights \/ pf = NoPreflight
    BY DEF Typed
  <2>2. CASE pf = NoPreflight
    BY <2>2 DEF NoPreflight
  <2>3. CASE pf \in Preflights
    <3>1. pf.scope \in Scopes
      BY <2>3 DEF Preflights
    <3>2. pf.scope[r] \in RowType
      BY <3>1 DEF Scopes
    <3> QED
      BY <3>2 DEF RowType
  <2> QED
    BY <2>1, <2>2, <2>3
<1>5. pf.scope[r].version = rows'[r].version => rows'[r] = pf.scope[r]
  BY <1>1, <1>2, <1>3, <1>4 DEF Plannable, Open
<1> QED
  BY <1>1, <1>2, <1>3, <1>4, <1>5 DEF SameField

LEMMA ScopeRows ==
  ASSUME Typed, pf.on, NEW r \in DOMAIN pf.scope
  PROVE  pf \in Preflights /\ pf.scope[r] \in RowType /\ r \in Nat
<1>1. pf \in Preflights
  BY DEF Typed, NoPreflight
<1>2. pf.scope \in Scopes
  BY <1>1 DEF Preflights
<1> QED
  BY <1>1, <1>2 DEF Scopes

-----------------------------------------------------------------------------
(* Plans.                                                                  *)

\* What is fixed when a plan is recorded stays, and a confirmation too.
PlansStep ==
    /\ plans' \in Seq(PlanType)
    /\ DOMAIN plans' = DOMAIN plans
    /\ \A p \in DOMAIN plans :
          /\ plans[p].confirmed => plans'[p].confirmed
          /\ \A m \in Members :
                /\ plans'[p].entities[m].fields = plans[p].entities[m].fields
                /\ plans'[p].entities[m].read = plans[p].entities[m].read
                /\ plans'[p].entities[m].planned = plans[p].entities[m].planned

LEMMA PlansKept ==
  ASSUME Typed, PlansOK, RowsStep, PlansStep,
         \A p \in DOMAIN plans :
             plans'[p].expired \/ plans'[p].task # None => plans'[p].confirmed
  PROVE  PlansOK'
<1> SUFFICES ASSUME NEW p \in DOMAIN plans, NEW m \in Members
             PROVE  EntityOK(plans[p].entities[m], m)'
  BY DEF PlansOK, PlansStep
<1>1. EntityOK(plans[p].entities[m], m)
  BY DEF PlansOK
<1>2. /\ plans'[p].entities[m].fields = plans[p].entities[m].fields
      /\ plans'[p].entities[m].planned = plans[p].entities[m].planned
  BY DEF PlansStep
<1>3. \A r \in DOMAIN rows : /\ r \in DOMAIN rows' /\ SameField(rows'[r], rows[r])
                             /\ rows'[r].submitted = rows[r].submitted
  BY DEF RowsStep, RowStep
<1> QED
  BY <1>1, <1>2, <1>3 DEF EntityOK, Writes, SameField

-----------------------------------------------------------------------------
(* What the planner promises.                                              *)

\* What an entity's plan says of one of its rows.
LEMMA PlanEntityIs ==
  ASSUME NEW view, NEW record, NEW r
  PROVE  /\ DOMAIN PlanEntity(view, record).fields =
                {q \in DOMAIN view : view[q].execution \in Plannable}
         /\ r \in DOMAIN PlanEntity(view, record).fields =>
               PlanEntity(view, record).fields[r] =
                   [version |-> view[r].version,
                    outcome |-> IF record = Nothing THEN "cannot_check"
                                ELSE Evaluate(view[r], record[view[r].field])]
  BY DEF PlanEntity

LEMMA EvaluateIs ==
  ASSUME NEW row, NEW value
  PROVE  /\ Evaluate(row, value) \in Outcomes
         /\ Evaluate(row, value) = "already" => value = row.submitted
         /\ Evaluate(row, value) = "write" =>
               /\ row.decision = "approved" /\ row.execution # "conflict"
               /\ value # row.submitted /\ value = Base(row)
  BY DEF Evaluate, Outcomes

\* The record expected after the PUT holds the written answers: a Member's
\* planned changes are of different fields.
LEMMA PlannedIs ==
  ASSUME NEW view, NEW record \in Records \cup {Nothing},
         \A r \in DOMAIN view : view[r].field \in Fields /\ view[r].submitted \in Values,
         \A r, q \in DOMAIN view : view[r].field = view[q].field => r = q
  PROVE  LET e == PlanEntity(view, record) IN
         /\ e.read \in Records \cup {Nothing} /\ e.planned \in Records \cup {Nothing}
         /\ e.planned # Nothing => \A r \in DOMAIN e.fields :
               e.fields[r].outcome = "write" => e.planned[view[r].field] = view[r].submitted
<1> DEFINE open == {r \in DOMAIN view : view[r].execution \in Plannable}
           outcome == [r \in open |->
               IF record = Nothing THEN "cannot_check"
               ELSE Evaluate(view[r], record[view[r].field])]
           writes == {r \in open : outcome[r] = "write"}
           blocked == \E r \in open : outcome[r] \in {"conflict", "cannot_check"}
           goal == [f \in Fields |->
                      IF \E r \in writes : view[r].field = f
                      THEN view[CHOOSE r \in writes : view[r].field = f].submitted
                      ELSE record[f]]
           e == PlanEntity(view, record)
<1>1. /\ e.fields = [r \in open |-> [version |-> view[r].version, outcome |-> outcome[r]]]
      /\ e.read = (IF blocked \/ writes = {} THEN Nothing ELSE record)
      /\ e.planned = (IF blocked \/ writes = {} THEN Nothing ELSE goal)
  BY DEF PlanEntity
<1>2. /\ DOMAIN e.fields = open
      /\ \A r \in open : e.fields[r].outcome = outcome[r]
  BY <1>1
<1>3. /\ open \subseteq DOMAIN view /\ writes \subseteq open
      /\ \A r \in open : outcome[r] = "write" => r \in writes
      /\ record = Nothing => writes = {}
  OBVIOUS
<1> HIDE DEF open, outcome, writes, blocked, e
<1>4. ASSUME NEW f \in Fields, NEW r \in writes, view[r].field = f
      PROVE  goal[f] = view[r].submitted
  <2> DEFINE c == CHOOSE q \in writes : view[q].field = f
  <2>1. c \in writes /\ view[c].field = f
    BY <1>4
  <2>2. c = r
    BY <1>3, <1>4, <2>1
  <2>3. goal[f] = view[c].submitted
    BY <1>4
  <2> QED
    BY <2>2, <2>3
<1>5. record \in Records => goal \in Records
  <2> SUFFICES ASSUME record \in Records, NEW f \in Fields
               PROVE  goal[f] \in Values
    BY DEF Records
  <2>1. CASE \E r \in writes : view[r].field = f
    BY <1>3, <1>4, <2>1
  <2>2. CASE ~ \E r \in writes : view[r].field = f
    BY <2>2 DEF Records
  <2> QED
    BY <2>1, <2>2
<1> HIDE DEF goal
<1>6. e.planned # Nothing => e.planned = goal /\ writes # {}
  BY <1>1
<1>7. e.planned \in Records \cup {Nothing} /\ e.read \in Records \cup {Nothing}
  BY <1>1, <1>3, <1>5
<1>8. ASSUME e.planned # Nothing, NEW r \in DOMAIN e.fields,
             e.fields[r].outcome = "write"
      PROVE  e.planned[view[r].field] = view[r].submitted
  BY <1>2, <1>3, <1>4, <1>6, <1>8
<1> QED
  BY <1>7, <1>8 DEF e

LEMMA EntityMade ==
  ASSUME Typed, pf.on, pf.reads # Nothing, ScopeOK, NEW m \in Members
  PROVE  /\ Entity(m) \in EntityType /\ EntityOK(Entity(m), m)
         /\ Entity(m).result = None
         /\ \A r \in DOMAIN pf.scope : pf.scope[r].member = m =>
                r \in DOMAIN Entity(m).fields
         /\ \A r \in DOMAIN Entity(m).fields :
               /\ r \in DOMAIN pf.scope /\ pf.scope[r].member = m
               /\ Entity(m).fields[r].version = pf.scope[r].version
               /\ Entity(m).fields[r].outcome = "already" =>
                     /\ pf.reads[m] # Nothing
                     /\ pf.reads[m][pf.scope[r].field] = pf.scope[r].submitted
<1> DEFINE mine == {r \in DOMAIN pf.scope : pf.scope[r].member = m}
           view == Restrict(pf.scope, mine)
           plan == PlanEntity(view, pf.reads[m])
           e == Entity(m)
<1>0. pf.reads \in [Members -> Records \cup {Nothing}]
  <2>1. pf \in Preflights
    BY DEF Typed, NoPreflight
  <2> QED
    BY <2>1 DEF Preflights
<1>1. /\ DOMAIN view = mine /\ \A r \in mine : view[r] = pf.scope[r]
  BY DEF Restrict
<1>2. \A r \in mine : /\ r \in DOMAIN pf.scope /\ pf.scope[r].member = m
                      /\ pf.scope[r] \in RowType /\ r \in Nat
                      /\ pf.scope[r].execution \in Plannable
  BY ScopeRows DEF ScopeOK
<1>3. \A r \in DOMAIN pf.scope : pf.scope[r].member = m => r \in mine
  OBVIOUS
<1>4. e = [fields |-> plan.fields, read |-> plan.read, planned |-> plan.planned,
           result |-> None, failed |-> FALSE, mismatch |-> FALSE]
  BY DEF Entity
<1> HIDE DEF mine, view
<1>5. /\ DOMAIN plan.fields = mine
      /\ \A r \in mine : plan.fields[r] =
            [version |-> pf.scope[r].version,
             outcome |-> IF pf.reads[m] = Nothing THEN "cannot_check"
                         ELSE Evaluate(pf.scope[r], pf.reads[m][pf.scope[r].field])]
  <2>1. DOMAIN plan.fields = {r \in DOMAIN view : view[r].execution \in Plannable}
    BY PlanEntityIs
  <2>2. DOMAIN plan.fields = mine
    BY <1>1, <1>2, <2>1
  <2>3. ASSUME NEW r \in mine
        PROVE  plan.fields[r] =
                  [version |-> view[r].version,
                   outcome |-> IF pf.reads[m] = Nothing THEN "cannot_check"
                               ELSE Evaluate(view[r], pf.reads[m][view[r].field])]
    <3> DEFINE record == pf.reads[m]
    <3>1. r \in DOMAIN PlanEntity(view, record).fields
      BY <2>2
    <3> HIDE DEF record
    <3>2. PlanEntity(view, record).fields[r] =
              [version |-> view[r].version,
               outcome |-> IF record = Nothing THEN "cannot_check"
                           ELSE Evaluate(view[r], record[view[r].field])]
      BY <3>1, PlanEntityIs
    <3> QED
      BY <3>2 DEF record
  <2> QED
    BY <1>1, <2>2, <2>3
<1>a. \A r \in mine :
          /\ plan.fields[r].version = pf.scope[r].version
          /\ plan.fields[r].outcome = IF pf.reads[m] = Nothing THEN "cannot_check"
                 ELSE Evaluate(pf.scope[r], pf.reads[m][pf.scope[r].field])
  <2> TAKE r \in mine
  <2> DEFINE x == IF pf.reads[m] = Nothing THEN "cannot_check"
                  ELSE Evaluate(pf.scope[r], pf.reads[m][pf.scope[r].field])
  <2>1. plan.fields[r] = [version |-> pf.scope[r].version, outcome |-> x]
    BY <1>5
  <2> HIDE DEF x, plan
  <2>2. plan.fields[r].version = pf.scope[r].version /\ plan.fields[r].outcome = x
    BY <2>1
  <2> QED
    BY <2>2 DEF x
<1>6. /\ plan.read \in Records \cup {Nothing} /\ plan.planned \in Records \cup {Nothing}
      /\ plan.planned # Nothing => \A r \in DOMAIN plan.fields :
            plan.fields[r].outcome = "write" =>
                plan.planned[view[r].field] = view[r].submitted
  <2>1. \A r \in DOMAIN view : view[r].field \in Fields /\ view[r].submitted \in Values
    BY <1>1, <1>2 DEF RowType
  <2>2. \A r, q \in DOMAIN view : view[r].field = view[q].field => r = q
    BY <1>1, <1>2 DEF ScopeOK, SameField
  <2>3. pf.reads[m] \in Records \cup {Nothing}
    BY <1>0
  <2> QED
    BY <2>1, <2>2, <2>3, PlannedIs
<1>7. plan.fields \in FieldPlans
  <2>1. \A r \in mine : plan.fields[r].outcome \in Outcomes /\ plan.fields[r].version \in Nat
    <3> TAKE r \in mine
    <3>1. "cannot_check" \in Outcomes /\ pf.scope[r].version \in Nat
      BY <1>2 DEF Outcomes, RowType
    <3> QED
      BY <1>a, <3>1, EvaluateIs
  <2>2. \A r \in mine : plan.fields[r] \in [version : Nat, outcome : Outcomes]
    <3> TAKE r \in mine
    <3> DEFINE x == IF pf.reads[m] = Nothing THEN "cannot_check"
                    ELSE Evaluate(pf.scope[r], pf.reads[m][pf.scope[r].field])
    <3>1. plan.fields[r] = [version |-> pf.scope[r].version, outcome |-> x]
      BY <1>5
    <3>2. pf.scope[r].version \in Nat /\ x \in Outcomes
      BY <1>a, <2>1
    <3> HIDE DEF x, plan
    <3> QED
      BY <3>1, <3>2
  <2>3. plan.fields = [r \in mine |-> plan.fields[r]]
    BY <1>5 DEF PlanEntity
  <2>4. plan.fields \in [mine -> [version : Nat, outcome : Outcomes]]
    BY <2>2, <2>3
  <2>5. mine \in SUBSET Nat
    BY <1>2
  <2> QED
    BY <2>4, <2>5 DEF FieldPlans
<1> HIDE DEF plan
<1>8. e \in EntityType /\ e.fields = plan.fields /\ e.planned = plan.planned
      /\ e.result = None
  BY <1>4, <1>6, <1>7 DEF EntityType
<1> HIDE DEF e
<1>9. EntityOK(e, m)
  <2>1. \A r \in mine : /\ r \in DOMAIN rows /\ rows[r].member = m
                        /\ rows[r].field = pf.scope[r].field
                        /\ rows[r].submitted = pf.scope[r].submitted
    BY <1>2 DEF ScopeOK, SameField
  <2> QED
    BY <1>1, <1>5, <1>6, <1>8, <2>1 DEF EntityOK, Writes
<1>10. \A r \in mine : plan.fields[r].outcome = "already" =>
           pf.reads[m] # Nothing /\ pf.reads[m][pf.scope[r].field] = pf.scope[r].submitted
  BY <1>a, EvaluateIs
<1> QED
  BY <1>2, <1>3, <1>5, <1>a, <1>8, <1>9, <1>10 DEF e

\* What planning the entity again found: every change to write is open,
\* approved and not in conflict, has the version that was confirmed, or the
\* next if this plan queued it, and ParishSoft holds the value it is to replace.
LEMMA ConfirmedAgain ==
  ASSUME Typed, PlansOK, NEW i \in Items, i[1] \in DOMAIN plans, NEW record,
         MatchesConfirmed(i, record), NEW r \in Writes(EntityOf(i))
  PROVE  /\ r \in DOMAIN rows /\ rows[r].member = i[2]
         /\ rows[r].decision = "approved"
         /\ rows[r].execution \in {"pending", "failed", "queued"}
         /\ rows[r].execution = "queued" => QueuedByPlan(i, r)
         /\ rows[r].execution # "queued" =>
                rows[r].version = EntityOf(i).fields[r].version
         /\ record[rows[r].field] = Base(rows[r])
         /\ record[rows[r].field] # rows[r].submitted
<1> DEFINE e == EntityOf(i)
           again == PlanEntity(View(i), record)
           kept == {q \in DOMAIN e.fields : ~ MarkedUpstream(e, q)}
<1>1. again.fields = Restrict(e.fields, kept)
  BY DEF MatchesConfirmed
<1>2. r \in DOMAIN e.fields /\ e.fields[r].outcome = "write"
  BY DEF Writes
<1>3. r \in kept
  BY <1>2 DEF MarkedUpstream
<1>4. r \in DOMAIN again.fields /\ again.fields[r] = e.fields[r]
  BY <1>1, <1>3 DEF Restrict
<1>5. /\ r \in DOMAIN View(i) /\ View(i)[r].execution \in Plannable
      /\ e.fields[r].version = View(i)[r].version
      /\ record # Nothing /\ Evaluate(View(i)[r], record[View(i)[r].field]) = "write"
  <2>1. /\ DOMAIN again.fields = {q \in DOMAIN View(i) : View(i)[q].execution \in Plannable}
        /\ again.fields[r] =
              [version |-> View(i)[r].version,
               outcome |-> IF record = Nothing THEN "cannot_check"
                           ELSE Evaluate(View(i)[r], record[View(i)[r].field])]
    BY <1>4, PlanEntityIs
  <2> HIDE DEF again, e
  <2> QED
    BY <1>2, <1>4, <2>1
<1>6. r \in DOMAIN rows /\ rows[r].member = i[2] /\ rows[r] \in RowType
  <2>1. EntityOK(plans[i[1]].entities[i[2]], i[2])
    BY DEF PlansOK, Items
  <2> QED
    BY <1>2, <2>1, RowsAre DEF EntityOK, EntityOf
<1>7. View(i)[r] = IF QueuedByPlan(i, r)
                   THEN [rows[r] EXCEPT !.execution = "pending", !.version = @ - 1]
                   ELSE rows[r]
  BY <1>2, Zenon DEF View
<1>8. /\ View(i)[r].field = rows[r].field /\ View(i)[r].decision = rows[r].decision
      /\ View(i)[r].submitted = rows[r].submitted
      /\ View(i)[r].accepted = rows[r].accepted
      /\ View(i)[r].current = rows[r].current
      /\ View(i)[r].baseline = rows[r].baseline
      /\ ~ QueuedByPlan(i, r) => View(i)[r] = rows[r]
  BY <1>6, <1>7 DEF RowType
<1>9. Base(View(i)[r]) = Base(rows[r])
  BY <1>8 DEF Base
<1>10. /\ View(i)[r].decision = "approved" /\ View(i)[r].execution # "conflict"
       /\ record[View(i)[r].field] # View(i)[r].submitted
       /\ record[View(i)[r].field] = Base(View(i)[r])
  BY <1>5, EvaluateIs
<1>11. QueuedByPlan(i, r) => rows[r].execution = "queued"
  BY DEF QueuedByPlan
<1> QED
  BY <1>5, <1>6, <1>8, <1>9, <1>10, <1>11 DEF Plannable

-----------------------------------------------------------------------------
(* What the invariant says of the entity at hand.                          *)

LEMMA TodoIs ==
  ASSUME PublicationInv, w.pc # "idle", NEW i \in w.todo
  PROVE  /\ i \in Items /\ i = <<i[1], i[2]>> /\ i[1] \in DOMAIN plans /\ i[2] \in Members
         /\ plans[i[1]].confirmed /\ plans[i[1]] \in PlanType
         /\ EntityOf(i) \in EntityType /\ EntityOK(EntityOf(i), i[2])
         /\ EntityOf(i).planned \in Records /\ EntityOf(i).planned # Nothing
         /\ EntityOf(i).result = None
         /\ \A r \in Writes(EntityOf(i)) :
               /\ r \in DOMAIN rows /\ rows[r] \in RowType /\ rows[r].member = i[2]
               /\ EntityOf(i).planned[rows[r].field] = rows[r].submitted
<1>1. Typed /\ RunOK /\ PlansOK
  BY DEF PublicationInv
<1>2. i \in Items
  BY <1>1 DEF Typed, RunType
<1>3. i = <<i[1], i[2]>> /\ i[2] \in Members
  BY <1>2 DEF Items
<1>4. i[1] \in DOMAIN plans /\ plans[i[1]].confirmed /\ i \in Unfinished(i[1])
  BY <1>1 DEF RunOK
<1>5. EntityOf(i).planned # Nothing /\ EntityOf(i).result = None
  BY <1>4 DEF Unfinished, EntityOf
<1>6. plans[i[1]] \in PlanType
  BY <1>1, <1>4, RowsAre
<1>7. EntityOf(i) \in EntityType
  BY <1>3, <1>6 DEF PlanType, EntityOf
<1>8. EntityOK(EntityOf(i), i[2])
  BY <1>1, <1>3, <1>4 DEF PlansOK, EntityOf
<1>9. EntityOf(i).planned \in Records
  BY <1>5, <1>7 DEF EntityType
<1>10. \A r \in Writes(EntityOf(i)) :
          /\ r \in DOMAIN rows /\ rows[r] \in RowType /\ rows[r].member = i[2]
          /\ EntityOf(i).planned[rows[r].field] = rows[r].submitted
  BY <1>1, <1>5, <1>8, RowsAre DEF EntityOK, Writes
<1> QED
  BY <1>2, <1>3, <1>4, <1>5, <1>6, <1>7, <1>8, <1>9, <1>10

\* The entity at hand is one to do.
LEMMA ItemIs ==
  ASSUME PublicationInv, w.pc \in AtItem \/ w.pc = "close"
  PROVE  w.item \in w.todo /\ w.pc # "idle"
  BY DEF PublicationInv, RunOK, AtItem

-----------------------------------------------------------------------------
(* Steps that leave most of the state alone.                               *)

\* What the preflight found stays while ParishSoft does: a change that moved
\* has another version.
LEMMA FoundStays ==
  ASSUME Typed, PreflightOK, FoundIsHeld, RowsStep, pf' = pf, ps' = ps
  PROVE  FoundIsHeld'
<1> SUFFICES ASSUME pf.on, pf.reads # Nothing, NEW r \in DOMAIN pf.scope,
                    pf.scope[r].version = rows'[r].version,
                    pf.reads[rows'[r].member] # Nothing,
                    pf.reads[rows'[r].member][rows'[r].field] = rows'[r].submitted
             PROVE  ps[rows'[r].member][rows'[r].field] = rows'[r].submitted
  BY DEF FoundIsHeld, Held
<1>1. r \in DOMAIN rows /\ pf.scope[r].version <= rows[r].version
  BY DEF PreflightOK, ScopeOK
<1>2. /\ rows[r].version <= rows'[r].version /\ SameField(rows'[r], rows[r])
      /\ rows'[r].submitted = rows[r].submitted
  BY <1>1 DEF RowsStep, RowStep
<1>3. rows[r].version \in Nat /\ pf.scope[r].version \in Nat
  BY <1>1, RowsAre, ScopeRows DEF RowType
<1>4. pf.scope[r].version = rows[r].version
  BY <1>1, <1>2, <1>3
<1> QED
  BY <1>2, <1>4 DEF FoundIsHeld, Held, SameField

\* Only changes of rows.
LEMMA OnlyRows ==
  ASSUME PublicationInv, RowsStep,
         UNCHANGED <<plans, ps, seen, listed, production, pf, w, used>>,
         RowsOK', PutOK', QueuedHasOwner',
         used.edits = 0 => PublishedIsHeld' /\ CaughtUpIsHeld' /\ RunKnows'
  PROVE  PublicationInv'
<1>1. Typed /\ RowsOK /\ PlansOK /\ PreflightOK /\ RunOK /\ CompleteIsFinal
  BY DEF PublicationInv
<1>2. Typed'
  BY <1>1 DEF Typed, RowsStep
<1>3. PlansStep
  BY <1>1 DEF PlansStep, Typed
<1>4. PlansOK'
  BY <1>1, <1>3, PlansKept DEF PlansOK
<1>5. PreflightOK'
  BY <1>1, ScopeKept DEF PreflightOK
<1>6. RunOK' /\ CompleteIsFinal'
  BY <1>1 DEF RunOK, CompleteIsFinal, Unfinished
<1>7. used.edits = 0 => FoundIsHeld'
  BY <1>1, FoundStays DEF PublicationInv, Unedited
<1> QED
  BY <1>2, <1>4, <1>5, <1>6, <1>7 DEF PublicationInv, Unedited

\* Only changes of the run.
LEMMA OnlyRun ==
  ASSUME PublicationInv, UNCHANGED <<rows, plans, ps, seen, listed, production, pf, used>>,
         w' \in RunType, RunOK', PutOK', used.edits = 0 => RunKnows'
  PROVE  PublicationInv'
<1>1. Typed'
  BY DEF PublicationInv, Typed
<1>2. RowsOK'
  BY DEF PublicationInv, RowsOK, Latest, SeenAt
<1>3. PlansOK'
  BY DEF PublicationInv, PlansOK, EntityOK, Writes
<1>4. PreflightOK'
  BY DEF PublicationInv, PreflightOK, ScopeOK
<1>5. QueuedHasOwner'
  BY DEF PublicationInv, QueuedHasOwner, Unfinished, QueuedByPlan, EntityOf, Writes
<1>6. CompleteIsFinal'
  BY DEF PublicationInv, CompleteIsFinal, Unfinished
<1>7. used.edits = 0 => PublishedIsHeld' /\ CaughtUpIsHeld' /\ FoundIsHeld'
  BY DEF PublicationInv, Unedited, PublishedIsHeld, Latest, CaughtUpIsHeld, FoundIsHeld, Held
<1> QED
  BY <1>1, <1>2, <1>3, <1>4, <1>5, <1>6, <1>7 DEF PublicationInv, Unedited

\* Nothing is about to be written.
LEMMA NoPut ==
  ASSUME w'.pc \notin AtItem
  PROVE  PutOK' /\ RunKnows'
  BY DEF AtItem, PutOK, WritesApproved, WritesListed, RunKnows

-----------------------------------------------------------------------------
(* The Family and Staff.                                                   *)

\* A reviewer's decision on an open change that is not queued.
LEMMA ReviewKeeps ==
  ASSUME PublicationInv, NEW r \in DOMAIN rows, rows[r].execution \in Plannable,
         NEW new, rows' = [rows EXCEPT ![r] = new], RowStep(rows[r], new),
         new.version = rows[r].version + 1, new.current = rows[r].current,
         new.execution \in Plannable,
         new.execution # "conflict" /\ ~ new.accepted =>
             new.current \in {new.submitted, new.baseline},
         UNCHANGED <<plans, ps, seen, listed, production, pf, w, used>>
  PROVE  PublicationInv'
<1>1. Typed /\ RowsOK /\ RunOK /\ PutOK /\ QueuedHasOwner
  BY DEF PublicationInv
<1>2. DOMAIN rows' = DOMAIN rows /\ rows'[r] = new
  OBVIOUS
<1>3. \A q \in DOMAIN rows : q # r => rows'[q] = rows[q]
  OBVIOUS
<1>4. \A q \in DOMAIN rows : RowStep(rows[q], rows'[q])
  BY <1>1, <1>2, <1>3, RowsAre, RowStays
<1>5. rows' \in Seq(RowType) /\ RowsStep
  <2>1. rows' = [q \in DOMAIN rows |-> rows'[q]]
    OBVIOUS
  <2>2. rows' \in Seq(RowType)
    BY <1>1, <1>2, <1>4, <2>1, RowsInPlace
  <2> QED
    BY <1>2, <1>4, <2>2 DEF RowsStep
<1>6. \A q \in DOMAIN rows :
         /\ rows'[q].member = rows[q].member /\ rows'[q].field = rows[q].field
         /\ rows'[q].submitted = rows[q].submitted
         /\ rows'[q].current = rows[q].current
  BY <1>2, <1>3, <1>4 DEF RowStep, SameField
<1>7. \A q \in DOMAIN rows : Latest(q)' <=> Latest(q)
  BY <1>1, <1>2, <1>5, LatestStays
<1>8. Plannable \subseteq Open /\ "published" \notin Plannable /\ "queued" \notin Plannable
      /\ "superseded" \notin Plannable /\ "cancelled" \notin Plannable
  BY DEF Plannable, Open
<1>9. RowsOK'
  <2> SUFFICES ASSUME NEW q \in DOMAIN rows
               PROVE  /\ rows'[q].execution \in Open => Latest(q)'
                      /\ rows'[q].execution \in Open /\ rows'[q].member \in listed =>
                             rows'[q].current = seen[rows'[q].member][rows'[q].field]
                      /\ rows'[q].execution \in {"pending", "failed", "queued"}
                            /\ ~ rows'[q].accepted =>
                             rows'[q].current \in {rows'[q].submitted, rows'[q].baseline}
    BY <1>2 DEF RowsOK, SeenAt
  <2>1. CASE q # r
    BY <1>1, <1>3, <1>7, <2>1 DEF RowsOK, SeenAt
  <2>2. CASE q = r
    BY <1>1, <1>2, <1>6, <1>7, <1>8, <2>2 DEF RowsOK, SeenAt
  <2> QED
    BY <2>1, <2>2
<1>10. w.pc \in AtItem => r \in DOMAIN rows /\ \A q \in Writes(EntityOf(w.item)) : q \in DOMAIN rows
  BY ItemIs, TodoIs
<1>e. /\ EntityOf(w.item)' = EntityOf(w.item)
      /\ Writes(EntityOf(w.item))' = Writes(EntityOf(w.item))
  BY DEF EntityOf, Writes
<1>11. PutOK'
  <2>1. w.pc \in {"put", "verify"} => \A q \in Writes(EntityOf(w.item)) : q \in DOMAIN rows /\ q # r
    BY <1>1, <1>8, <1>10 DEF PutOK, WritesApproved, AtItem
  <2>2. WritesApproved'
    BY <1>1, <1>3, <1>e, <2>1 DEF PutOK, WritesApproved
  <2>3. w.pc = "put" => \A q \in Writes(EntityOf(w.item)) :
            /\ w.fresh[rows'[q].field] = Base(rows'[q])
            /\ \A s \in DOMAIN rows' : s > q /\ SameField(rows'[s], rows'[q]) =>
                   /\ rows'[s].current = seen[rows'[q].member][rows'[q].field]
                   /\ rows'[s].submitted # seen[rows'[q].member][rows'[q].field]
    <3> SUFFICES ASSUME w.pc = "put", NEW q \in Writes(EntityOf(w.item))
                 PROVE  /\ w.fresh[rows'[q].field] = Base(rows'[q])
                        /\ \A s \in DOMAIN rows' : s > q /\ SameField(rows'[s], rows'[q]) =>
                               /\ rows'[s].current = seen[rows'[q].member][rows'[q].field]
                               /\ rows'[s].submitted # seen[rows'[q].member][rows'[q].field]
      OBVIOUS
    <3>1. q \in DOMAIN rows /\ q # r /\ rows'[q] = rows[q]
      BY <1>3, <2>1
    <3>2. /\ w.fresh[rows[q].field] = Base(rows[q])
          /\ \A s \in DOMAIN rows : s > q /\ SameField(rows[s], rows[q]) =>
                 rows[s].current = SeenAt(rows[q]) /\ rows[s].submitted # SeenAt(rows[q])
      BY <1>1 DEF PutOK
    <3> QED
      BY <1>2, <1>6, <3>1, <3>2 DEF SameField, SeenAt
  <2>4. WritesListed' /\ (w.pc \in AtItem => ~ EntityOf(w.item)'.mismatch)
    BY <1>1 DEF PutOK, WritesListed, EntityOf
  <2>5. w.pc = "put" => w.fresh = EntityOf(w.item)'.read
    BY <1>1 DEF PutOK, EntityOf
  <2> QED
    BY <2>2, <2>3, <2>4, <2>5 DEF PutOK, EntityOf, Writes, SeenAt
<1>12. QueuedHasOwner'
  <2> SUFFICES ASSUME NEW q \in DOMAIN rows, rows'[q].execution = "queued"
               PROVE  \E p \in DOMAIN plans : \E i \in Unfinished(p) :
                          plans[p].confirmed /\ QueuedByPlan(i, q)'
    BY <1>2 DEF QueuedHasOwner, Unfinished
  <2>1. rows'[q] = rows[q]
    BY <1>2, <1>3, <1>8
  <2>2. PICK p \in DOMAIN plans : \E i \in Unfinished(p) :
            plans[p].confirmed /\ QueuedByPlan(i, q)
    BY <1>1, <2>1 DEF QueuedHasOwner
  <2>3. \A i : QueuedByPlan(i, q) => QueuedByPlan(i, q)'
    BY <2>1 DEF QueuedByPlan, EntityOf, Writes
  <2> QED
    BY <2>2, <2>3
<1>13. used.edits = 0 => PublishedIsHeld' /\ CaughtUpIsHeld' /\ RunKnows'
  <2> SUFFICES ASSUME used.edits = 0
               PROVE  PublishedIsHeld' /\ CaughtUpIsHeld' /\ RunKnows'
    OBVIOUS
  <2>1. PublishedIsHeld /\ CaughtUpIsHeld /\ RunKnows
    BY DEF PublicationInv, Unedited
  <2>2. PublishedIsHeld'
    BY <1>2, <1>3, <1>7, <1>8, <2>1 DEF PublishedIsHeld
  <2>3. CaughtUpIsHeld'
    BY <1>2, <1>3, <1>6, <1>8, <2>1 DEF CaughtUpIsHeld, Held
  <2>4. RunKnows'
    BY <1>6, <1>10, <1>e, <2>1 DEF RunKnows, Held, SeenAt, AtItem
  <2> QED
    BY <2>2, <2>3, <2>4
<1> QED
  BY <1>5, <1>9, <1>11, <1>12, <1>13, OnlyRows

LEMMA ReviewIsSafe ==
  ASSUME PublicationInv, NEW r \in DOMAIN rows, NEW d \in {"approved", "unreviewed"},
         Review(r, d)
  PROVE  PublicationInv'
<1> DEFINE row == rows[r]
           a == row.accepted /\ d = "approved"
           x == IF row.accepted /\ d # "approved" THEN "conflict" ELSE row.execution
           new == [row EXCEPT !.decision = d, !.version = @ + 1, !.accepted = a,
                              !.execution = x]
<1>1. row \in RowType /\ Typed /\ RowsOK
  BY RowsAre DEF PublicationInv
<1>2. rows' = [rows EXCEPT ![r] = new]
  BY DEF Review
<1>3. /\ row.execution \in {"pending", "conflict", "failed"}
      /\ row.version \in Nat /\ row.version + 1 \in Nat
  BY <1>1 DEF Review, Reviewable, RowType
<1>a. a \in BOOLEAN /\ x \in {"pending", "conflict", "failed"} /\ x \in Executions
  BY <1>3 DEF Executions, Open
<1>b. x # "conflict" /\ ~ a => ~ row.accepted /\ row.execution # "conflict"
  BY Zenon
<1> HIDE DEF a, x
<1>4. /\ new \in RowType /\ new.version = row.version + 1 /\ new.current = row.current
      /\ new.submitted = row.submitted /\ new.baseline = row.baseline
      /\ new.member = row.member /\ new.field = row.field
      /\ new.accepted = a /\ new.execution = x
  BY <1>1, <1>3, <1>a DEF RowType
<1> HIDE DEF new
<1>5. RowStep(row, new)
  BY <1>3, <1>4 DEF RowStep, SameField
<1>6. new.execution \in Plannable /\ row.execution \in Plannable
  BY <1>3, <1>4, <1>a DEF Plannable
<1>7. new.execution # "conflict" /\ ~ new.accepted =>
          new.current \in {new.submitted, new.baseline}
  <2> SUFFICES ASSUME new.execution # "conflict", ~ new.accepted
               PROVE  new.current \in {new.submitted, new.baseline}
    OBVIOUS
  <2>1. ~ row.accepted /\ row.execution \in {"pending", "failed", "queued"}
    BY <1>3, <1>4, <1>b
  <2> QED
    BY <1>1, <1>4, <2>1 DEF RowsOK
<1> QED
  BY <1>2, <1>4, <1>5, <1>6, <1>7, ReviewKeeps DEF Review

LEMMA AcceptIsSafe ==
  ASSUME PublicationInv, NEW r \in DOMAIN rows, AcceptConflict(r)
  PROVE  PublicationInv'
<1> DEFINE row == rows[r]
           new == [row EXCEPT !.decision = "approved", !.execution = "pending",
                              !.accepted = TRUE, !.version = @ + 1]
<1>1. row \in RowType /\ Typed
  BY RowsAre DEF PublicationInv
<1>2. rows' = [rows EXCEPT ![r] = new]
  BY DEF AcceptConflict
<1>3. row.execution = "conflict" /\ row.version \in Nat /\ row.version + 1 \in Nat
  BY <1>1 DEF AcceptConflict, RowType
<1>4. /\ new \in RowType /\ new.version = row.version + 1 /\ new.current = row.current
      /\ new.submitted = row.submitted /\ new.baseline = row.baseline
      /\ new.member = row.member /\ new.field = row.field
      /\ new.accepted = TRUE /\ new.execution = "pending"
  BY <1>1, <1>3 DEF RowType, Executions, Open
<1> HIDE DEF new
<1>5. RowStep(row, new)
  BY <1>3, <1>4 DEF RowStep, SameField
<1>6. new.execution \in Plannable /\ row.execution \in Plannable
  BY <1>3, <1>4 DEF Plannable
<1> QED
  BY <1>2, <1>4, <1>5, <1>6, ReviewKeeps DEF AcceptConflict

\* The Family answers again: an open change of the field is closed, and a new
\* one follows it.
LEMMA FamilyIsSafe ==
  ASSUME PublicationInv, NEW m \in Members, NEW f \in Fields, NEW v \in Values,
         FamilyAnswers(m, f, v)
  PROVE  PublicationInv'
<1> DEFINE open == {r \in Shown(m, f) : rows[r].execution \in Open}
           new == v # seen[m][f]
           x == IF new THEN "superseded" ELSE "cancelled"
           closed == [r \in DOMAIN rows |->
                         IF r \in open
                         THEN [rows[r] EXCEPT !.execution = x, !.version = @ + 1]
                         ELSE rows[r]]
           row == Row(m, f, v)
<1>1. Typed /\ RowsOK /\ RunOK /\ PutOK /\ QueuedHasOwner
  BY DEF PublicationInv
<1>2. /\ rows' = IF new THEN Append(closed, row) ELSE closed
      /\ UNCHANGED <<plans, ps, seen, listed, production, pf, w, used>>
  BY Zenon DEF FamilyAnswers
<1>3. DOMAIN closed = DOMAIN rows /\ closed = [r \in DOMAIN rows |-> closed[r]]
  BY Zenon
<1>a. \A r \in DOMAIN rows : r \notin open => closed[r] = rows[r]
  BY Zenon
<1>b. \A r \in DOMAIN rows :
          r \in open => closed[r] = MovedTo(rows[r], x)
  BY Zenon DEF MovedTo
<1>4. /\ row.member = m /\ row.field = f /\ row.submitted = v /\ row.current = seen[m][f]
      /\ row.baseline = seen[m][f] /\ row.execution = "pending" /\ row \in RowType
  <2>1. seen[m][f] \in Values
    BY <1>1 DEF Typed, Records
  <2> QED
    BY <2>1 DEF Row, RowType, Executions, Open
<1>5. x \in {"superseded", "cancelled"} /\ x \in Executions
  BY DEF Executions
<1>6. \A r \in DOMAIN rows :
          rows[r].execution \in Open /\ rows[r].member = m /\ rows[r].field = f => r \in open
  BY <1>1 DEF RowsOK, Shown, Open
<1> HIDE DEF closed, row, x, open
<1>7. \A r \in DOMAIN rows :
         /\ RowStep(rows[r], closed[r])
         /\ closed[r].current = rows[r].current /\ closed[r].accepted = rows[r].accepted
         /\ closed[r].decision = rows[r].decision
         /\ closed[r] = rows[r] \/ closed[r].execution \in {"superseded", "cancelled"}
  <2> TAKE r \in DOMAIN rows
  <2>1. rows[r] \in RowType
    BY <1>1, RowsAre
  <2>2. CASE r \in open
    BY <1>5, <1>b, <2>1, <2>2, RowMovesTo
  <2>3. CASE r \notin open
    <3>1. closed[r] = rows[r]
      BY <1>a, <2>3, Zenon
    <3> QED
      BY <2>1, <3>1, RowStays
  <2> QED
    BY <2>2, <2>3
<1>8. closed \in Seq(RowType) /\ Len(closed) = Len(rows)
  BY <1>1, <1>3, <1>7, RowsInPlace
<1>9. /\ rows' \in Seq(RowType) /\ DOMAIN rows \subseteq DOMAIN rows'
      /\ \A r \in DOMAIN rows : rows'[r] = closed[r] /\ r \in DOMAIN rows'
      /\ \A r \in DOMAIN rows' : r \in DOMAIN rows \/
             (new /\ rows'[r] = row /\ \A q \in DOMAIN rows : q < r)
      /\ DOMAIN rows' \subseteq Nat /\ \A r \in DOMAIN rows' : r <= Len(rows) + 1
  <2>1. Len(rows) \in Nat /\ DOMAIN rows = 1 .. Len(rows)
    BY <1>1, RowsAre
  <2>2. CASE ~ new
    BY <1>2, <1>3, <1>8, <2>1, <2>2
  <2>3. CASE new
    <3>1. rows' = Append(closed, row)
      BY <1>2, <2>3
    <3>2. /\ rows' \in Seq(RowType) /\ Len(rows') = Len(rows) + 1
          /\ \A i \in 1 .. Len(rows) : rows'[i] = closed[i]
          /\ rows'[Len(rows) + 1] = row
      BY <1>4, <1>8, <3>1, AppendProperties
    <3>3. DOMAIN rows' = 1 .. (Len(rows) + 1)
      BY <2>1, <3>2, LenProperties
    <3> QED
      BY <2>1, <2>3, <3>2, <3>3
  <2> QED
    BY <2>2, <2>3
<1> HIDE DEF new
<1>10. RowsStep
  BY <1>7, <1>9 DEF RowsStep
<1>11. \A r \in DOMAIN rows :
          /\ rows'[r].member = rows[r].member /\ rows'[r].field = rows[r].field
          /\ rows'[r].submitted = rows[r].submitted /\ rows'[r].baseline = rows[r].baseline
          /\ rows'[r].current = rows[r].current /\ rows'[r].accepted = rows[r].accepted
          /\ rows'[r].decision = rows[r].decision
          /\ rows'[r] = rows[r] \/ rows'[r].execution \in {"superseded", "cancelled"}
  BY <1>7, <1>9 DEF RowStep, SameField
<1>12. \A r \in DOMAIN rows : Latest(r)' => Latest(r)
  BY <1>9, <1>11 DEF Latest
<1>13. \A r \in DOMAIN rows : rows'[r].execution \in Open =>
           rows'[r] = rows[r] /\ Latest(r)' /\ ~ (rows[r].member = m /\ rows[r].field = f)
  <2> SUFFICES ASSUME NEW r \in DOMAIN rows, rows'[r].execution \in Open
               PROVE  /\ rows'[r] = rows[r] /\ Latest(r)'
                      /\ ~ (rows[r].member = m /\ rows[r].field = f)
    OBVIOUS
  <2>1. rows'[r] = rows[r]
    BY <1>11 DEF Open
  <2>2. r \notin open
    <3> SUFFICES ASSUME r \in open
                 PROVE  FALSE
      OBVIOUS
    <3>1. rows[r] \in RowType
      BY <1>1, RowsAre
    <3>2. closed[r].execution = x
      BY <1>5, <1>b, <3>1, RowMovesTo
    <3> QED
      BY <1>5, <1>9, <3>2 DEF Open
  <2>3. ~ (rows[r].member = m /\ rows[r].field = f)
    BY <1>6, <2>1, <2>2
  <2>4. Latest(r)
    BY <1>1, <2>1 DEF RowsOK
  <2>5. Latest(r)'
    BY <1>4, <1>9, <1>11, <2>3, <2>4 DEF Latest
  <2> QED
    BY <2>1, <2>3, <2>5
<1>14. RowsOK'
  <2> SUFFICES ASSUME NEW q \in DOMAIN rows'
               PROVE  /\ rows'[q].execution \in Open => Latest(q)'
                      /\ rows'[q].execution \in Open /\ rows'[q].member \in listed =>
                             rows'[q].current = seen[rows'[q].member][rows'[q].field]
                      /\ rows'[q].execution \in {"pending", "failed", "queued"}
                            /\ ~ rows'[q].accepted =>
                             rows'[q].current \in {rows'[q].submitted, rows'[q].baseline}
    BY <1>2 DEF RowsOK, SeenAt
  <2>1. CASE q \in DOMAIN rows
    BY <1>1, <1>13, <2>1 DEF RowsOK, SeenAt, Open
  <2>2. CASE q \notin DOMAIN rows
    <3>1. rows'[q] = row /\ \A r \in DOMAIN rows : r < q
      BY <1>9, <2>2
    <3>2. Latest(q)'
      <4> SUFFICES ASSUME NEW s \in DOMAIN rows', s > q
                   PROVE  FALSE
        BY DEF Latest
      <4>1. s \in Nat /\ q \in Nat /\ Len(rows) \in Nat /\ DOMAIN rows = 1 .. Len(rows)
        BY <1>1, <1>9, RowsAre
      <4>2. s <= Len(rows) + 1 /\ ~ (q <= Len(rows) /\ q >= 1)
        BY <1>9, <2>2, <4>1
      <4>3. s \in DOMAIN rows \/ \A r \in DOMAIN rows : r < s
        BY <1>9
      <4>4. q = 0 => Len(rows) = 0
        BY <3>1, <4>1
      <4>5. q # 0
        BY <1>9, LenProperties
      <4> QED
        BY <4>1, <4>2, <4>5
    <3> QED
      BY <1>4, <3>1, <3>2
  <2> QED
    BY <2>1, <2>2
<1>15. w.pc \in AtItem => \A q \in Writes(EntityOf(w.item)) : q \in DOMAIN rows
  BY ItemIs, TodoIs
<1>e. /\ EntityOf(w.item)' = EntityOf(w.item)
      /\ Writes(EntityOf(w.item))' = Writes(EntityOf(w.item))
  BY <1>2 DEF EntityOf, Writes
<1>16. PutOK'
  <2>1. WritesApproved'
    <3>1. ASSUME w.pc \in {"put", "verify"}, NEW q \in Writes(EntityOf(w.item))
          PROVE  \/ rows'[q].execution \in {"superseded", "cancelled"}
                 \/ rows'[q].execution = "queued" /\ rows'[q].decision = "approved"
      <4>1. q \in DOMAIN rows
        BY <1>15, <3>1 DEF AtItem
      <4>2. \/ rows[q].execution \in {"superseded", "cancelled"}
            \/ rows[q].execution = "queued" /\ rows[q].decision = "approved"
        BY <1>1, <3>1 DEF PutOK, WritesApproved
      <4>3. rows'[q] = rows[q] \/ rows'[q].execution \in {"superseded", "cancelled"}
        BY <1>11, <4>1
      <4> QED
        BY <4>2, <4>3
    <3> QED
      BY <1>2, <1>e, <3>1 DEF WritesApproved
  <2>2. ASSUME w.pc = "put", NEW q \in Writes(EntityOf(w.item))
        PROVE  /\ w.fresh[rows'[q].field] = Base(rows'[q])
               /\ \A s \in DOMAIN rows' : s > q /\ SameField(rows'[s], rows'[q]) =>
                      /\ rows'[s].current = seen[rows'[q].member][rows'[q].field]
                      /\ rows'[s].submitted # seen[rows'[q].member][rows'[q].field]
    <3>1. q \in DOMAIN rows
      BY <1>15, <2>2 DEF AtItem
    <3>2. /\ w.fresh[rows[q].field] = Base(rows[q])
          /\ \A s \in DOMAIN rows : s > q /\ SameField(rows[s], rows[q]) =>
                 rows[s].current = SeenAt(rows[q]) /\ rows[s].submitted # SeenAt(rows[q])
      BY <1>1, <2>2 DEF PutOK
    <3>3. w.fresh[rows'[q].field] = Base(rows'[q])
      BY <1>11, <3>1, <3>2 DEF Base
    <3>4. ASSUME NEW s \in DOMAIN rows', s > q, SameField(rows'[s], rows'[q])
          PROVE  /\ rows'[s].current = seen[rows'[q].member][rows'[q].field]
                 /\ rows'[s].submitted # seen[rows'[q].member][rows'[q].field]
      <4>1. CASE s \in DOMAIN rows
        BY <1>11, <3>1, <3>2, <3>4, <4>1 DEF SameField, SeenAt
      <4>2. CASE s \notin DOMAIN rows
        BY <1>4, <1>9, <3>4, <4>2 DEF SameField, new
      <4> QED
        BY <4>1, <4>2
    <3> QED
      BY <3>3, <3>4
  <2>3. WritesListed' /\ (w.pc \in AtItem => ~ EntityOf(w.item)'.mismatch)
    BY <1>1, <1>2, <1>e DEF PutOK, WritesListed
  <2>4. w.pc = "put" => w.fresh = EntityOf(w.item)'.read
    BY <1>1, <1>e DEF PutOK
  <2> QED
    BY <1>2, <1>e, <2>1, <2>2, <2>3, <2>4 DEF PutOK, SeenAt
<1>17. QueuedHasOwner'
  <2> SUFFICES ASSUME NEW q \in DOMAIN rows', rows'[q].execution = "queued"
               PROVE  \E p \in DOMAIN plans : \E i \in Unfinished(p) :
                          plans[p].confirmed /\ QueuedByPlan(i, q)'
    BY <1>2 DEF QueuedHasOwner, Unfinished
  <2>1. q \in DOMAIN rows /\ rows'[q] = rows[q]
    BY <1>4, <1>9, <1>11
  <2>2. PICK p \in DOMAIN plans : \E i \in Unfinished(p) :
            plans[p].confirmed /\ QueuedByPlan(i, q)
    BY <1>1, <2>1 DEF QueuedHasOwner
  <2>3. \A i : QueuedByPlan(i, q) => QueuedByPlan(i, q)'
    BY <1>2, <2>1 DEF QueuedByPlan, EntityOf, Writes
  <2> QED
    BY <2>2, <2>3
<1>18. used.edits = 0 => PublishedIsHeld' /\ CaughtUpIsHeld' /\ RunKnows'
  <2> SUFFICES ASSUME used.edits = 0
               PROVE  PublishedIsHeld' /\ CaughtUpIsHeld' /\ RunKnows'
    OBVIOUS
  <2>1. PublishedIsHeld /\ CaughtUpIsHeld /\ RunKnows
    BY DEF PublicationInv, Unedited
  <2>2. PublishedIsHeld'
    <3> SUFFICES ASSUME NEW q \in DOMAIN rows', rows'[q].execution = "published", Latest(q)'
                 PROVE  ps[rows'[q].member][rows'[q].field] = rows'[q].submitted
      BY <1>2 DEF PublishedIsHeld
    <3>1. q \in DOMAIN rows /\ rows'[q] = rows[q] /\ Latest(q)
      BY <1>4, <1>9, <1>11, <1>12
    <3> QED
      BY <2>1, <3>1 DEF PublishedIsHeld
  <2>3. CaughtUpIsHeld'
    <3> SUFFICES ASSUME NEW q \in DOMAIN rows', rows'[q].execution \in Open,
                        rows'[q].current = rows'[q].submitted
                 PROVE  ps[rows'[q].member][rows'[q].field] = rows'[q].submitted
      BY <1>2 DEF CaughtUpIsHeld, Held
    <3>1. q \in DOMAIN rows
      BY <1>4, <1>9 DEF new
    <3> QED
      BY <1>13, <2>1, <3>1 DEF CaughtUpIsHeld, Held
  <2>4. RunKnows'
    <3>1. ASSUME w.pc = "put", NEW r \in Writes(EntityOf(w.item))
          PROVE  ps[rows'[r].member][rows'[r].field] = seen[rows'[r].member][rows'[r].field]
      <4>1. r \in DOMAIN rows
        BY <1>15, <3>1 DEF AtItem
      <4> QED
        BY <1>11, <2>1, <3>1, <4>1 DEF RunKnows, Held, SeenAt
    <3> QED
      BY <1>2, <1>e, <2>1, <3>1 DEF RunKnows, Held, SeenAt
  <2> QED
    BY <2>2, <2>3, <2>4
<1> QED
  BY <1>2, <1>10, <1>14, <1>16, <1>17, <1>18, OnlyRows

-----------------------------------------------------------------------------
(* The refresh.                                                            *)

\* What a merge makes of an open row whose value moved.
LEMMA ReconciledIs ==
  ASSUME NEW row \in RowType, NEW value \in Values
  PROVE  /\ Reconciled(row, value) \in RowType
         /\ RowStep(row, Reconciled(row, value))
         /\ Reconciled(row, value).current = value
         /\ Reconciled(row, value).execution \in {"resolved_upstream", "conflict", "pending"}
         /\ Reconciled(row, value).execution = "pending" =>
               value \in {row.submitted, row.baseline}
<1> DEFINE x == IF value = row.submitted /\ row.execution = "queued" THEN "resolved_upstream"
                ELSE IF value \notin {row.submitted, row.baseline} THEN "conflict"
                ELSE "pending"
           reset == /\ row.accepted /\ row.decision = "approved"
                    /\ row.execution \in {"pending", "failed"}
                    /\ ~ (value = row.submitted)
           d == IF reset THEN "unreviewed" ELSE row.decision
           new == [row EXCEPT !.current = value, !.execution = x, !.accepted = FALSE,
                              !.decision = d, !.version = @ + 1]
<1>1. Reconciled(row, value) = new
  BY Zenon DEF Reconciled
<1>2. /\ x \in {"resolved_upstream", "conflict", "pending"}
      /\ x = "pending" => value \in {row.submitted, row.baseline}
  OBVIOUS
<1>3. d \in {"unreviewed", "approved"}
  BY DEF RowType
<1>4. row.version \in Nat /\ row.version + 1 \in Nat
  BY DEF RowType
<1>5. x \in Executions
  BY <1>2 DEF Executions, Open
<1> HIDE DEF x, d
<1>6. /\ new \in RowType /\ new.current = value /\ new.execution = x
      /\ new.member = row.member /\ new.field = row.field /\ new.submitted = row.submitted
      /\ new.baseline = row.baseline /\ new.version = row.version + 1
  BY <1>3, <1>4, <1>5 DEF RowType
<1> HIDE DEF new
<1>7. RowStep(row, new)
  BY <1>4, <1>6 DEF RowStep, SameField
<1> QED
  BY <1>1, <1>2, <1>6, <1>7

\* What a refresh makes of a row.
LEMMA RefreshedIs ==
  ASSUME Typed, RowsOK, NEW r \in DOMAIN rows, NEW value \in Values
  PROVE  /\ RowStep(rows[r], Refreshed(r, value))
         /\ Refreshed(r, value).execution \in Open =>
               Latest(r) /\ Refreshed(r, value).current = value
         /\ Refreshed(r, value).execution \in {"pending", "failed", "queued"}
               /\ ~ Refreshed(r, value).accepted =>
               Refreshed(r, value).current \in
                   {Refreshed(r, value).submitted, Refreshed(r, value).baseline}
         /\ Refreshed(r, value).execution = "queued" => Refreshed(r, value) = rows[r]
         /\ Refreshed(r, value).execution = "published" => rows[r].execution = "published"
<1> DEFINE row == rows[r]
           new == Refreshed(r, value)
<1>0. row \in RowType
  BY RowsAre
<1>v. row.version \in Nat /\ row.version + 1 \in Nat
  BY <1>0 DEF RowType
<1>1. CASE row.execution \in Open /\ row.current = value
  <2>1. new = row
    BY <1>1 DEF Refreshed, Moved, Open
  <2> QED
    BY <1>0, <1>1, <2>1, RowStays DEF RowsOK
<1>2. CASE row.execution \in Open /\ row.current # value
  <2>1. new = Reconciled(row, value)
    BY <1>2 DEF Refreshed, Moved, Open
  <2>2. /\ RowStep(row, new) /\ new.current = value
        /\ new.execution \in {"resolved_upstream", "conflict", "pending"}
        /\ new.execution = "pending" => value \in {row.submitted, row.baseline}
    BY <1>0, <2>1, ReconciledIs
  <2>3. new.submitted = row.submitted /\ new.baseline = row.baseline
    BY <2>2 DEF RowStep
  <2>4. Latest(r)
    BY <1>2 DEF RowsOK
  <2> QED
    BY <2>2, <2>3, <2>4
<1>3. CASE /\ row.execution = "published" /\ Latest(r) /\ ~ row.confirmed
           /\ value = row.submitted
  <2>1. new = [row EXCEPT !.confirmed = TRUE]
    BY <1>3 DEF Refreshed, Open
  <2>2. /\ new \in RowType /\ new.execution = "published"
        /\ new.member = row.member /\ new.field = row.field /\ new.submitted = row.submitted
        /\ new.baseline = row.baseline /\ new.version = row.version
    BY <1>0, <1>3, <2>1 DEF RowType
  <2>3. RowStep(row, new)
    BY <1>3, <1>v, <2>2 DEF RowStep, SameField, Open
  <2> QED
    BY <1>3, <2>2, <2>3 DEF Open
<1>4. CASE /\ row.execution = "published" /\ Latest(r) /\ ~ row.confirmed
           /\ value # row.submitted
  <2>1. new = [row EXCEPT !.current = value, !.execution = "conflict", !.accepted = FALSE,
                          !.decision = "unreviewed", !.version = @ + 1]
    BY <1>4 DEF Refreshed, Open
  <2>a. "conflict" \in Executions
    BY DEF Executions, Open
  <2>2. /\ new \in RowType /\ new.execution = "conflict" /\ new.current = value
        /\ new.member = row.member /\ new.field = row.field /\ new.submitted = row.submitted
        /\ new.baseline = row.baseline /\ new.version = row.version + 1
    BY <1>0, <1>v, <2>1, <2>a DEF RowType
  <2>3. RowStep(row, new)
    BY <1>v, <2>2 DEF RowStep, SameField
  <2> QED
    BY <1>4, <2>2, <2>3
<1>5. CASE /\ row.execution \notin Open
           /\ ~ (row.execution = "published" /\ Latest(r) /\ ~ row.confirmed)
  <2>1. new = row
    BY <1>5 DEF Refreshed
  <2> QED
    BY <1>0, <1>5, <2>1, RowStays DEF Open
<1> QED
  BY <1>1, <1>2, <1>3, <1>4, <1>5

LEMMA RefreshIsSafe ==
  ASSUME PublicationInv, NEW here \in SUBSET Members, Refresh(here)
  PROVE  PublicationInv'
<1> DEFINE value(r) == ps[rows[r].member][rows[r].field]
<1>1. Typed /\ RowsOK /\ PlansOK /\ PreflightOK /\ RunOK /\ QueuedHasOwner /\ CompleteIsFinal
  BY DEF PublicationInv
<1>2. /\ seen' = ps /\ listed' = here /\ DOMAIN rows' = DOMAIN rows
      /\ UNCHANGED <<plans, ps, production, pf, w, used>>
  BY DEF Refresh
<1>3. \A r \in DOMAIN rows :
          rows'[r] = IF rows[r].member \in here THEN Refreshed(r, value(r)) ELSE rows[r]
  BY Zenon DEF Refresh
<1>4. rows' = [r \in DOMAIN rows |-> rows'[r]]
  BY DEF Refresh
<1>w. w'.pc \notin AtItem
  BY DEF Refresh, AtItem
<1>5. \A r \in DOMAIN rows : value(r) \in Values /\ rows[r] \in RowType
  BY <1>1, RowsAre DEF Typed, Records, RowType
<1> HIDE DEF value
<1>6. \A r \in DOMAIN rows :
         /\ RowStep(rows[r], rows'[r])
         /\ rows'[r].execution \in Open => Latest(r)
         /\ rows'[r].execution \in Open /\ rows[r].member \in here =>
               rows'[r].current = value(r)
         /\ rows'[r].execution \in {"pending", "failed", "queued"} /\ ~ rows'[r].accepted =>
               rows'[r].current \in {rows'[r].submitted, rows'[r].baseline}
         /\ rows'[r].execution = "queued" => rows'[r] = rows[r]
         /\ rows'[r].execution = "published" => rows[r].execution = "published"
         /\ rows[r].member \notin here => rows'[r] = rows[r]
  <2> TAKE r \in DOMAIN rows
  <2>1. CASE rows[r].member \in here
    <3>1. rows'[r] = Refreshed(r, value(r))
      BY <1>3, <2>1
    <3> QED
      BY <1>1, <1>5, <2>1, <3>1, RefreshedIs
  <2>2. CASE rows[r].member \notin here
    <3>1. rows'[r] = rows[r]
      BY <1>3, <2>2
    <3> QED
      BY <1>1, <1>5, <2>2, <3>1, RowStays DEF RowsOK
  <2> QED
    BY <2>1, <2>2
<1>7. rows' \in Seq(RowType) /\ RowsStep
  BY <1>1, <1>2, <1>4, <1>6, RowsInPlace DEF RowsStep
<1>8. \A r \in DOMAIN rows : Latest(r)' <=> Latest(r)
  BY <1>1, <1>2, <1>7, LatestStays
<1>9. \A r \in DOMAIN rows :
         /\ rows'[r].member = rows[r].member /\ rows'[r].field = rows[r].field
         /\ rows'[r].submitted = rows[r].submitted
  BY <1>6 DEF RowStep, SameField
<1>10. Typed'
  BY <1>1, <1>2, <1>7 DEF Typed
<1>11. RowsOK'
  BY <1>2, <1>6, <1>8, <1>9 DEF RowsOK, SeenAt, value
<1>12. PlansOK'
  <2>1. PlansStep
    BY <1>1, <1>2 DEF PlansStep, Typed
  <2> QED
    BY <1>1, <1>2, <1>7, <2>1, PlansKept DEF PlansOK
<1>13. PreflightOK'
  BY <1>1, <1>2, <1>7, ScopeKept DEF PreflightOK
<1>14. RunOK' /\ CompleteIsFinal'
  BY <1>1, <1>2 DEF RunOK, CompleteIsFinal, Unfinished
<1>15. PutOK' /\ RunKnows'
  BY <1>w, NoPut
<1>16. QueuedHasOwner'
  <2> SUFFICES ASSUME NEW q \in DOMAIN rows, rows'[q].execution = "queued"
               PROVE  \E p \in DOMAIN plans : \E i \in Unfinished(p) :
                          plans[p].confirmed /\ QueuedByPlan(i, q)'
    BY <1>2 DEF QueuedHasOwner, Unfinished
  <2>1. rows'[q] = rows[q]
    BY <1>6
  <2>2. PICK p \in DOMAIN plans : \E i \in Unfinished(p) :
            plans[p].confirmed /\ QueuedByPlan(i, q)
    BY <1>1, <2>1 DEF QueuedHasOwner
  <2>3. \A i : QueuedByPlan(i, q) => QueuedByPlan(i, q)'
    BY <1>2, <2>1 DEF QueuedByPlan, EntityOf, Writes
  <2> QED
    BY <2>2, <2>3
<1>17. ASSUME used.edits = 0
       PROVE  PublishedIsHeld' /\ CaughtUpIsHeld' /\ FoundIsHeld'
  <2>1. PublishedIsHeld /\ CaughtUpIsHeld /\ FoundIsHeld
    BY <1>17 DEF PublicationInv, Unedited
  <2>2. PublishedIsHeld'
    BY <1>2, <1>6, <1>8, <1>9, <1>17, <2>1 DEF PublishedIsHeld
  <2>3. CaughtUpIsHeld'
    <3> SUFFICES ASSUME NEW q \in DOMAIN rows, rows'[q].execution \in Open,
                        rows'[q].current = rows'[q].submitted
                 PROVE  ps[rows'[q].member][rows'[q].field] = rows'[q].submitted
      BY <1>2 DEF CaughtUpIsHeld, Held
    <3>1. CASE rows[q].member \in here
      BY <1>6, <1>9, <3>1 DEF value
    <3>2. CASE rows[q].member \notin here
      BY <1>6, <2>1, <3>2 DEF CaughtUpIsHeld, Held
    <3> QED
      BY <3>1, <3>2
  <2>4. FoundIsHeld'
    BY <1>1, <1>2, <1>7, <2>1, FoundStays
  <2> QED
    BY <2>2, <2>3, <2>4
<1> QED
  BY <1>2, <1>10, <1>11, <1>12, <1>13, <1>14, <1>15, <1>16, <1>17 DEF PublicationInv, Unedited

-----------------------------------------------------------------------------
(* ParishSoft, the mode and the preflight.                                 *)

LEMMA EditIsSafe ==
  ASSUME PublicationInv, NEW m \in Members, NEW f \in Fields, NEW v \in Values,
         EditParishSoft(m, f, v)
  PROVE  PublicationInv'
<1>1. used \in [edits : Nat, switches : Nat, crashes : Nat] /\ ps \in [Members -> Records]
  BY DEF PublicationInv, Typed
<1>2. used'.edits = used.edits + 1 /\ used' \in [edits : Nat, switches : Nat, crashes : Nat]
  BY <1>1 DEF EditParishSoft
<1>3. used'.edits # 0
  BY <1>1, <1>2
<1>4. ps' \in [Members -> Records]
  BY <1>1 DEF EditParishSoft, Records
<1>5. UNCHANGED <<rows, plans, seen, listed, production, pf, w>>
  BY DEF EditParishSoft
<1>6. Typed'
  BY <1>2, <1>4, <1>5 DEF PublicationInv, Typed
<1>7. RowsOK' /\ PlansOK' /\ PreflightOK'
  BY <1>5 DEF PublicationInv, RowsOK, Latest, SeenAt, PlansOK, EntityOK, Writes,
              PreflightOK, ScopeOK
<1>8. RunOK' /\ CompleteIsFinal'
  BY <1>5 DEF PublicationInv, RunOK, CompleteIsFinal, Unfinished
<1>9. PutOK'
  <2>1. /\ EntityOf(w.item)' = EntityOf(w.item)
        /\ Writes(EntityOf(w.item))' = Writes(EntityOf(w.item))
    BY <1>5 DEF EntityOf, Writes
  <2> QED
    BY <1>5, <2>1 DEF PublicationInv, PutOK, WritesApproved, WritesListed, SeenAt
<1>10. QueuedHasOwner'
  BY <1>5 DEF PublicationInv, QueuedHasOwner, Unfinished, QueuedByPlan, EntityOf, Writes
<1> QED
  BY <1>3, <1>6, <1>7, <1>8, <1>9, <1>10 DEF PublicationInv

\* Only the preflight changes, or the mode.
LEMMA OnlyPreflight ==
  ASSUME PublicationInv, UNCHANGED <<rows, plans, ps, seen, listed, w>>,
         production' \in BOOLEAN, used' \in [edits : Nat, switches : Nat, crashes : Nat],
         used'.edits = used.edits,
         pf' = NoPreflight \/ (pf' \in Preflights /\ Len(plans) < MaxPlans),
         PreflightOK', used.edits = 0 => FoundIsHeld'
  PROVE  PublicationInv'
<1>1. Typed'
  BY DEF PublicationInv, Typed
<1>2. RowsOK' /\ PlansOK'
  BY DEF PublicationInv, RowsOK, Latest, SeenAt, PlansOK, EntityOK, Writes
<1>3. RunOK' /\ CompleteIsFinal'
  BY DEF PublicationInv, RunOK, CompleteIsFinal, Unfinished
<1>4. PutOK'
  <2>1. /\ EntityOf(w.item)' = EntityOf(w.item)
        /\ Writes(EntityOf(w.item))' = Writes(EntityOf(w.item))
    BY DEF EntityOf, Writes
  <2> QED
    BY <2>1 DEF PublicationInv, PutOK, WritesApproved, WritesListed, SeenAt
<1>5. QueuedHasOwner'
  BY DEF PublicationInv, QueuedHasOwner, Unfinished, QueuedByPlan, EntityOf, Writes
<1>6. used.edits = 0 => PublishedIsHeld' /\ CaughtUpIsHeld' /\ RunKnows'
  BY DEF PublicationInv, Unedited, PublishedIsHeld, Latest, CaughtUpIsHeld, Held,
         RunKnows, EntityOf, Writes, SeenAt
<1> QED
  BY <1>1, <1>2, <1>3, <1>4, <1>5, <1>6 DEF PublicationInv, Unedited

LEMMA SwitchIsSafe ==
  ASSUME PublicationInv, SwitchMode
  PROVE  PublicationInv'
<1>1. used \in [edits : Nat, switches : Nat, crashes : Nat]
  BY DEF PublicationInv, Typed
<1>2. /\ used'.edits = used.edits /\ used' \in [edits : Nat, switches : Nat, crashes : Nat]
      /\ UNCHANGED <<rows, plans, ps, seen, listed, pf, w>> /\ production' \in BOOLEAN
  BY <1>1 DEF SwitchMode
<1>3. pf = NoPreflight \/ (pf \in Preflights /\ Len(plans) < MaxPlans)
  BY DEF PublicationInv, Typed
<1>4. PreflightOK' /\ (used.edits = 0 => FoundIsHeld')
  BY <1>2 DEF PublicationInv, Unedited, PreflightOK, ScopeOK, FoundIsHeld, Held
<1> QED
  BY <1>2, <1>3, <1>4, OnlyPreflight

LEMMA LoseIsSafe ==
  ASSUME PublicationInv, LosePreflight
  PROVE  PublicationInv'
<1>1. /\ pf' = NoPreflight /\ ~ pf'.on
      /\ UNCHANGED <<rows, plans, ps, seen, listed, production, w, used>>
  BY DEF LosePreflight, NoPreflight
<1>2. PreflightOK' /\ FoundIsHeld'
  BY <1>1 DEF PreflightOK, FoundIsHeld
<1>3. production \in BOOLEAN /\ used \in [edits : Nat, switches : Nat, crashes : Nat]
  BY DEF PublicationInv, Typed
<1> QED
  BY <1>1, <1>2, <1>3, OnlyPreflight

LEMMA ReadIsSafe ==
  ASSUME PublicationInv, NEW unread \in SUBSET Members, ReadMembers(unread)
  PROVE  PublicationInv'
<1> DEFINE reads == [m \in Members |-> IF m \in unread THEN Nothing ELSE ps[m]]
<1>1. /\ pf.on /\ pf' = [pf EXCEPT !.reads = reads]
      /\ UNCHANGED <<rows, plans, ps, seen, listed, production, w, used>>
  BY DEF ReadMembers
<1>2. pf \in Preflights /\ Len(plans) < MaxPlans /\ ps \in [Members -> Records]
      /\ production \in BOOLEAN /\ used \in [edits : Nat, switches : Nat, crashes : Nat]
  BY <1>1 DEF PublicationInv, Typed, NoPreflight
<1>3. reads \in [Members -> Records \cup {Nothing}]
  BY <1>2
<1>r. \A m \in Members : reads[m] # Nothing => reads[m] = ps[m]
  OBVIOUS
<1> HIDE DEF reads
<1>4. pf' \in Preflights /\ pf'.on /\ pf'.scope = pf.scope /\ pf'.reads = reads
  BY <1>1, <1>2, <1>3 DEF Preflights
<1>5. ScopeOK
  BY <1>1 DEF PublicationInv, PreflightOK
<1>6. ScopeOK'
  BY <1>1, <1>4, <1>5 DEF ScopeOK
<1>7. FoundIsHeld'
  <2> SUFFICES ASSUME NEW r \in DOMAIN pf.scope, reads[rows[r].member] # Nothing,
                      reads[rows[r].member][rows[r].field] = rows[r].submitted
               PROVE  ps[rows[r].member][rows[r].field] = rows[r].submitted
    BY <1>1, <1>4 DEF FoundIsHeld, Held
  <2>1. r \in DOMAIN rows
    BY <1>5 DEF ScopeOK
  <2>2. rows[r].member \in Members
    BY <2>1, RowsAre DEF PublicationInv, RowType
  <2> QED
    BY <1>r, <2>2
<1> QED
  BY <1>1, <1>2, <1>4, <1>6, <1>7, OnlyPreflight DEF PreflightOK

LEMMA StartPreflightIsSafe ==
  ASSUME PublicationInv, StartPreflight
  PROVE  PublicationInv'
<1> DEFINE scope == Restrict(rows, Scope)
<1>1. /\ pf' = [on |-> TRUE, scope |-> scope, reads |-> Nothing]
      /\ Len(plans) < MaxPlans
      /\ UNCHANGED <<rows, plans, ps, seen, listed, production, w, used>>
  BY DEF StartPreflight
<1>2. Typed /\ RowsOK
  BY DEF PublicationInv
<1>3. Scope \subseteq DOMAIN rows /\ \A r \in Scope : rows[r].execution \in Plannable
  BY DEF Scope
<1>4. DOMAIN scope = Scope /\ \A r \in Scope : scope[r] = rows[r]
  BY DEF Restrict
<1>5. \A r \in DOMAIN rows : r \in Nat /\ rows[r] \in RowType
  BY <1>2, RowsAre
<1>6. scope \in Scopes
  <2>1. scope = [r \in Scope |-> rows[r]]
    BY DEF Restrict
  <2>2. scope \in [Scope -> RowType] /\ Scope \in SUBSET Nat
    BY <1>3, <1>5, <2>1
  <2> QED
    BY <2>2 DEF Scopes
<1> HIDE DEF scope
<1>7. pf' \in Preflights /\ pf'.on /\ pf'.scope = scope /\ pf'.reads = Nothing
  BY <1>1, <1>6 DEF Preflights
<1>8. FoundIsHeld'
  BY <1>7 DEF FoundIsHeld
<1>9. \A r, q \in Scope : SameField(rows[r], rows[q]) => r = q
  <2> SUFFICES ASSUME NEW r \in Scope, NEW q \in Scope, SameField(rows[r], rows[q])
               PROVE  r = q
    OBVIOUS
  <2>1. Latest(r) /\ Latest(q)
    BY <1>2, <1>3 DEF RowsOK, Plannable, Open
  <2>2. r \in Nat /\ q \in Nat /\ ~ (r < q) /\ ~ (q < r)
    BY <1>3, <1>5, <2>1 DEF Latest, SameField
  <2> QED
    BY <2>2
<1>10. \A r \in Scope : rows[r].version \in Nat
  BY <1>3, <1>5 DEF RowType
<1>11. ScopeOK'
  BY <1>1, <1>3, <1>4, <1>7, <1>9, <1>10 DEF ScopeOK, SameField
<1>12. production \in BOOLEAN /\ used \in [edits : Nat, switches : Nat, crashes : Nat]
  BY <1>2 DEF Typed
<1> QED
  BY <1>1, <1>7, <1>8, <1>11, <1>12, OnlyPreflight DEF PreflightOK

-----------------------------------------------------------------------------
(* A plan is recorded.                                                     *)

LEMMA RecordPlanIsSafe ==
  ASSUME PublicationInv, RecordPlan
  PROVE  PublicationInv'
<1> DEFINE entities == [m \in Members |-> Entity(m)]
           plan == [entities |-> entities, testing |-> ~ production, confirmed |-> FALSE,
                    expired |-> FALSE, task |-> None, attempt |-> 0, asked |-> FALSE,
                    owed |-> FALSE]
           marked == Marked(entities)
<1>1. Typed /\ RowsOK /\ PlansOK /\ RunOK /\ PutOK /\ QueuedHasOwner /\ CompleteIsFinal
  BY DEF PublicationInv
<1>2. /\ pf.on /\ pf.reads # Nothing /\ plans' = Append(plans, plan)
      /\ \A r \in DOMAIN pf.scope : rows[r].version = pf.scope[r].version
      /\ pf' = NoPreflight
      /\ UNCHANGED <<ps, seen, listed, production, w, used>>
  BY Zenon DEF RecordPlan
<1>3. rows' = [r \in DOMAIN rows |-> IF r \in marked THEN MovedTo(rows[r], "published")
                                     ELSE rows[r]]
  BY Zenon DEF RecordPlan, MovedTo
<1>4. ScopeOK /\ pf \in Preflights /\ Len(plans) < MaxPlans
  BY <1>1, <1>2 DEF PublicationInv, PreflightOK, Typed, NoPreflight
<1>5. \A r \in DOMAIN pf.scope :
          /\ r \in DOMAIN rows /\ rows[r] = pf.scope[r] /\ rows[r].execution \in Plannable
          /\ rows[r].member \in Members
  <2> TAKE r \in DOMAIN pf.scope
  <2>1. r \in DOMAIN rows /\ rows[r] = pf.scope[r] /\ pf.scope[r].execution \in Plannable
    BY <1>2, <1>4 DEF ScopeOK
  <2> QED
    BY <1>1, <2>1, RowsAre DEF RowType
<1>6. \A m \in Members :
         /\ entities[m] \in EntityType /\ EntityOK(entities[m], m)
         /\ entities[m].result = None
         /\ \A r \in DOMAIN entities[m].fields :
               r \in DOMAIN pf.scope /\ pf.scope[r].member = m
         /\ \A r \in DOMAIN pf.scope : pf.scope[r].member = m =>
               /\ r \in DOMAIN entities[m].fields
               /\ entities[m].fields[r].outcome = "already" =>
                     /\ pf.reads[m] # Nothing
                     /\ pf.reads[m][pf.scope[r].field] = pf.scope[r].submitted
  <2> TAKE m \in Members
  <2>1. entities[m] = Entity(m)
    OBVIOUS
  <2> QED
    BY <1>1, <1>2, <1>4, <2>1, EntityMade
<1>7. \A r \in marked :
         /\ r \in DOMAIN pf.scope
         /\ entities[pf.scope[r].member].fields[r].outcome = "already"
  BY DEF Marked
<1>8. entities \in [Members -> EntityType]
  BY <1>6
<1>p. production \in BOOLEAN
  BY <1>1 DEF Typed
<1> HIDE DEF entities, marked
<1>9. plan \in PlanType /\ plan.entities = entities /\ ~ plan.confirmed
      /\ ~ plan.expired /\ plan.task = None
  BY <1>8, <1>p DEF PlanType, TaskStates
<1> HIDE DEF plan
<1>10. \A r \in marked : /\ r \in DOMAIN rows /\ rows[r].execution \in Plannable
                         /\ rows[r] = pf.scope[r] /\ rows[r].member \in Members
                         /\ pf.reads[rows[r].member] # Nothing
                         /\ pf.reads[rows[r].member][rows[r].field] = rows[r].submitted
  BY <1>5, <1>6, <1>7
<1>11. /\ DOMAIN rows' = DOMAIN rows /\ rows' = [r \in DOMAIN rows |-> rows'[r]]
       /\ \A r \in DOMAIN rows : /\ r \in marked => rows'[r] = MovedTo(rows[r], "published")
                                 /\ r \notin marked => rows'[r] = rows[r]
  BY <1>3, Zenon
<1>12. \A r \in DOMAIN rows :
          /\ RowStep(rows[r], rows'[r])
          /\ rows'[r].current = rows[r].current /\ rows'[r].accepted = rows[r].accepted
          /\ r \in marked => rows'[r].execution = "published"
          /\ r \notin marked => rows'[r] = rows[r]
  <2> TAKE r \in DOMAIN rows
  <2>1. rows[r] \in RowType /\ "published" \in Executions
    BY <1>1, RowsAre DEF Executions
  <2> QED
    BY <1>11, <2>1, RowMovesTo, RowStays
<1>13. rows' \in Seq(RowType) /\ RowsStep
  BY <1>1, <1>11, <1>12, RowsInPlace DEF RowsStep
<1>14. \A r \in DOMAIN rows : Latest(r)' <=> Latest(r)
  BY <1>1, <1>11, <1>13, LatestStays
<1>15. \A r \in DOMAIN rows :
          /\ rows'[r].member = rows[r].member /\ rows'[r].field = rows[r].field
          /\ rows'[r].submitted = rows[r].submitted /\ rows'[r].baseline = rows[r].baseline
  BY <1>12 DEF RowStep, SameField
<1>16. /\ plans' \in Seq(PlanType) /\ Len(plans') = Len(plans) + 1
       /\ DOMAIN plans' = 1 .. (Len(plans) + 1) /\ DOMAIN plans = 1 .. Len(plans)
       /\ Len(plans) \in Nat
       /\ \A p \in DOMAIN plans : p \in DOMAIN plans' /\ plans'[p] = plans[p]
       /\ \A p \in DOMAIN plans' : p \notin DOMAIN plans => plans'[p] = plan
  <2>1. plans \in Seq(PlanType) /\ Len(plans) \in Nat /\ DOMAIN plans = 1 .. Len(plans)
    BY <1>1, RowsAre DEF Typed
  <2>2. /\ plans' \in Seq(PlanType) /\ Len(plans') = Len(plans) + 1
        /\ \A i \in 1 .. Len(plans) : plans'[i] = plans[i]
        /\ plans'[Len(plans) + 1] = plan
    BY <1>2, <1>9, <2>1, AppendProperties
  <2>3. DOMAIN plans' = 1 .. (Len(plans) + 1)
    BY <2>1, <2>2, LenProperties
  <2> QED
    BY <2>1, <2>2, <2>3
<1>17. \A p \in DOMAIN plans : Unfinished(p)' = Unfinished(p)
  BY <1>16 DEF Unfinished
<1>18. Typed'
  <2>1. MaxPlans \in Nat
    BY PublicationAssumption
  <2>2. Len(plans') <= MaxPlans
    BY <1>4, <1>16, <2>1
  <2> QED
    BY <1>1, <1>2, <1>13, <1>16, <2>2 DEF Typed
<1>19. RowsOK'
  <2> SUFFICES ASSUME NEW q \in DOMAIN rows
               PROVE  /\ rows'[q].execution \in Open => Latest(q)'
                      /\ rows'[q].execution \in Open /\ rows'[q].member \in listed =>
                             rows'[q].current = seen[rows'[q].member][rows'[q].field]
                      /\ rows'[q].execution \in {"pending", "failed", "queued"}
                            /\ ~ rows'[q].accepted =>
                             rows'[q].current \in {rows'[q].submitted, rows'[q].baseline}
    BY <1>2, <1>11 DEF RowsOK, SeenAt
  <2>1. CASE q \in marked
    BY <1>12, <2>1 DEF Open
  <2>2. CASE q \notin marked
    BY <1>1, <1>12, <1>14, <2>2 DEF RowsOK, SeenAt
  <2> QED
    BY <2>1, <2>2
<1>20. PlansOK'
  <2>1. ASSUME NEW p \in DOMAIN plans', NEW m \in Members
        PROVE  EntityOK(plans[p].entities[m], m)'
    <3> DEFINE e == plans'[p].entities[m]
    <3>1. EntityOK(e, m)
      BY <1>1, <1>6, <1>9, <1>16, <2>1 DEF PlansOK
    <3> QED
      BY <1>11, <1>15, <3>1 DEF EntityOK, Writes
  <2>2. \A p \in DOMAIN plans' : plans'[p].expired \/ plans'[p].task # None => plans'[p].confirmed
    BY <1>1, <1>9, <1>16 DEF PlansOK
  <2> QED
    BY <2>1, <2>2 DEF PlansOK
<1>21. PreflightOK' /\ FoundIsHeld'
  BY <1>2 DEF PreflightOK, FoundIsHeld, NoPreflight
<1>22. RunOK'
  BY <1>1, <1>2, <1>16, <1>17 DEF RunOK
<1>23. w.pc \in AtItem =>
          /\ EntityOf(w.item)' = EntityOf(w.item)
          /\ Writes(EntityOf(w.item))' = Writes(EntityOf(w.item))
          /\ \A q \in Writes(EntityOf(w.item)) : q \in DOMAIN rows
  <2> SUFFICES ASSUME w.pc \in AtItem
               PROVE  /\ EntityOf(w.item)' = EntityOf(w.item)
                      /\ Writes(EntityOf(w.item))' = Writes(EntityOf(w.item))
                      /\ \A q \in Writes(EntityOf(w.item)) : q \in DOMAIN rows
    OBVIOUS
  <2>1. w.item[1] \in DOMAIN plans /\ \A q \in Writes(EntityOf(w.item)) : q \in DOMAIN rows
    BY ItemIs, TodoIs
  <2>2. EntityOf(w.item)' = EntityOf(w.item)
    BY <1>2, <1>16, <2>1 DEF EntityOf
  <2> QED
    BY <2>1, <2>2 DEF Writes
<1>24. PutOK'
  <2>1. ASSUME w.pc \in {"put", "verify"}, NEW q \in Writes(EntityOf(w.item))
        PROVE  rows'[q] = rows[q] /\ q \in DOMAIN rows
    <3>1. q \in DOMAIN rows
      BY <1>23, <2>1 DEF AtItem
    <3>2. rows[q].execution \notin Plannable
      BY <1>1, <2>1 DEF PutOK, WritesApproved, Plannable
    <3> QED
      BY <1>10, <1>12, <3>1, <3>2
  <2>2. WritesApproved'
    BY <1>1, <1>2, <1>23, <2>1 DEF PutOK, WritesApproved, AtItem
  <2>3. ASSUME w.pc = "put", NEW q \in Writes(EntityOf(w.item))
        PROVE  /\ w.fresh[rows'[q].field] = Base(rows'[q])
               /\ \A s \in DOMAIN rows' : s > q /\ SameField(rows'[s], rows'[q]) =>
                      /\ rows'[s].current = seen[rows'[q].member][rows'[q].field]
                      /\ rows'[s].submitted # seen[rows'[q].member][rows'[q].field]
    <3>1. rows'[q] = rows[q] /\ q \in DOMAIN rows
      BY <2>1, <2>3
    <3>2. /\ w.fresh[rows[q].field] = Base(rows[q])
          /\ \A s \in DOMAIN rows : s > q /\ SameField(rows[s], rows[q]) =>
                 rows[s].current = SeenAt(rows[q]) /\ rows[s].submitted # SeenAt(rows[q])
      BY <1>1, <2>3 DEF PutOK
    <3> QED
      BY <1>11, <1>12, <1>15, <3>1, <3>2 DEF SameField, SeenAt
  <2>4. WritesListed' /\ (w.pc \in AtItem => ~ EntityOf(w.item)'.mismatch)
    BY <1>1, <1>2, <1>23 DEF PutOK, WritesListed, AtItem
  <2>5. w.pc = "put" => w.fresh = EntityOf(w.item)'.read
    BY <1>1, <1>23 DEF PutOK, AtItem
  <2> QED
    BY <1>2, <1>23, <2>2, <2>3, <2>4, <2>5 DEF PutOK, SeenAt, AtItem
<1>25. QueuedHasOwner'
  <2> SUFFICES ASSUME NEW q \in DOMAIN rows, rows'[q].execution = "queued"
               PROVE  \E p \in DOMAIN plans' : \E i \in Unfinished(p)' :
                          plans'[p].confirmed /\ QueuedByPlan(i, q)'
    BY <1>11 DEF QueuedHasOwner
  <2>1. rows'[q] = rows[q]
    BY <1>12
  <2>2. PICK p \in DOMAIN plans : \E i \in Unfinished(p) :
            plans[p].confirmed /\ QueuedByPlan(i, q)
    BY <1>1, <2>1 DEF QueuedHasOwner
  <2>3. \A i \in Unfinished(p) : QueuedByPlan(i, q) => QueuedByPlan(i, q)'
    <3> SUFFICES ASSUME NEW i \in Unfinished(p), QueuedByPlan(i, q)
                 PROVE  QueuedByPlan(i, q)'
      OBVIOUS
    <3>1. i[1] = p
      BY DEF Unfinished
    <3>2. plans'[i[1]].entities[i[2]] = plans[i[1]].entities[i[2]]
      BY <1>16, <3>1
    <3> QED
      BY <2>1, <3>2 DEF QueuedByPlan, EntityOf, Writes
  <2> QED
    BY <1>16, <1>17, <2>2, <2>3
<1>26. CompleteIsFinal'
  BY <1>1, <1>9, <1>16, <1>17 DEF CompleteIsFinal, None
<1>27. ASSUME used.edits = 0
       PROVE  PublishedIsHeld' /\ CaughtUpIsHeld' /\ RunKnows'
  <2>1. PublishedIsHeld /\ CaughtUpIsHeld /\ RunKnows /\ FoundIsHeld
    BY <1>27 DEF PublicationInv, Unedited
  <2>2. PublishedIsHeld'
    <3> SUFFICES ASSUME NEW q \in DOMAIN rows, rows'[q].execution = "published", Latest(q)'
                 PROVE  ps[rows'[q].member][rows'[q].field] = rows'[q].submitted
      BY <1>2, <1>11 DEF PublishedIsHeld
    <3>1. CASE q \notin marked
      BY <1>12, <1>14, <1>27, <2>1, <3>1 DEF PublishedIsHeld
    <3>2. CASE q \in marked
      <4>1. q \in DOMAIN pf.scope /\ pf.scope[q].version = rows[q].version
        BY <1>2, <1>7, <3>2
      <4>2. ps[rows[q].member][rows[q].field] = rows[q].submitted
        BY <1>2, <1>10, <2>1, <3>2, <4>1 DEF FoundIsHeld, Held
      <4> QED
        BY <1>15, <4>2
    <3> QED
      BY <3>1, <3>2
  <2>3. CaughtUpIsHeld'
    BY <1>2, <1>11, <1>12, <2>1 DEF CaughtUpIsHeld, Held, Open
  <2>4. RunKnows'
    <3>1. ASSUME w.pc = "put", NEW r \in Writes(EntityOf(w.item))
          PROVE  ps[rows'[r].member][rows'[r].field] = seen[rows'[r].member][rows'[r].field]
      <4>1. r \in DOMAIN rows
        BY <1>23, <3>1 DEF AtItem
      <4> QED
        BY <1>15, <2>1, <3>1, <4>1 DEF RunKnows, Held, SeenAt
    <3> QED
      BY <1>2, <1>23, <2>1, <3>1 DEF RunKnows, Held, SeenAt, AtItem
  <2> QED
    BY <2>2, <2>3, <2>4
<1> QED
  BY <1>2, <1>18, <1>19, <1>20, <1>21, <1>22, <1>24, <1>25, <1>26, <1>27
     DEF PublicationInv, Unedited

-----------------------------------------------------------------------------
(* A plan's confirmation, its expiry and its task.                         *)

\* The plan p becomes new: nothing that was planned or recorded changes.
FlagsStep(p, new) ==
    /\ plans' = [plans EXCEPT ![p] = new] /\ new \in PlanType
    /\ new.entities = plans[p].entities
    /\ plans[p].confirmed => new.confirmed
    /\ new.expired \/ new.task # None => new.confirmed
    /\ new.task = "succeeded" => Unfinished(p) = {}

LEMMA FlagsKeep ==
  ASSUME PublicationInv, NEW p \in DOMAIN plans, NEW new, FlagsStep(p, new), rows' = rows
  PROVE  /\ plans' \in Seq(PlanType) /\ Len(plans') = Len(plans)
         /\ DOMAIN plans' = DOMAIN plans
         /\ \A q \in DOMAIN plans : /\ plans'[q].entities = plans[q].entities
                                    /\ plans[q].confirmed => plans'[q].confirmed
                                    /\ Unfinished(q)' = Unfinished(q)
         /\ PlansOK' /\ CompleteIsFinal' /\ QueuedHasOwner'
<1>1. Typed /\ PlansOK /\ CompleteIsFinal /\ QueuedHasOwner
  BY DEF PublicationInv
<1>2. /\ plans \in Seq(PlanType) /\ Len(plans) \in Nat /\ DOMAIN plans = 1 .. Len(plans)
      /\ \A q \in DOMAIN plans : plans[q] \in PlanType
  BY <1>1, RowsAre DEF Typed
<1>3. /\ DOMAIN plans' = DOMAIN plans /\ plans'[p] = new
      /\ \A q \in DOMAIN plans : q # p => plans'[q] = plans[q]
  BY DEF FlagsStep
<1>4. plans' \in [1 .. Len(plans) -> PlanType]
  BY <1>2 DEF FlagsStep
<1>5. plans' \in Seq(PlanType) /\ Len(plans') = Len(plans)
  <2>1. plans' \in Seq(PlanType)
    BY <1>2, <1>4, SeqDef
  <2> QED
    BY <1>2, <1>3, <2>1, LenProperties
<1>6. \A q \in DOMAIN plans : /\ plans'[q].entities = plans[q].entities
                              /\ plans[q].confirmed => plans'[q].confirmed
  BY <1>3 DEF FlagsStep
<1>7. \A q \in DOMAIN plans : Unfinished(q)' = Unfinished(q)
  BY <1>3, <1>6 DEF Unfinished
<1>8. PlansOK'
  <2>1. ASSUME NEW q \in DOMAIN plans, NEW m \in Members
        PROVE  EntityOK(plans[q].entities[m], m)'
    BY <1>1, <1>6, <2>1 DEF PlansOK, EntityOK, Writes
  <2>2. \A q \in DOMAIN plans : plans'[q].expired \/ plans'[q].task # None => plans'[q].confirmed
    BY <1>1, <1>3 DEF FlagsStep, PlansOK
  <2> QED
    BY <1>3, <2>1, <2>2 DEF PlansOK
<1>9. CompleteIsFinal'
  BY <1>1, <1>3, <1>7 DEF FlagsStep, CompleteIsFinal
<1>10. QueuedHasOwner'
  <2> SUFFICES ASSUME NEW r \in DOMAIN rows, rows[r].execution = "queued"
               PROVE  \E q \in DOMAIN plans' : \E i \in Unfinished(q)' :
                          plans'[q].confirmed /\ QueuedByPlan(i, r)'
    BY DEF QueuedHasOwner
  <2>1. PICK q \in DOMAIN plans : \E i \in Unfinished(q) :
            plans[q].confirmed /\ QueuedByPlan(i, r)
    BY <1>1 DEF QueuedHasOwner
  <2>2. \A i \in Unfinished(q) : QueuedByPlan(i, r) => QueuedByPlan(i, r)'
    BY <1>6 DEF QueuedByPlan, EntityOf, Writes, Unfinished
  <2> QED
    BY <1>3, <1>6, <1>7, <2>1, <2>2
<1> QED
  BY <1>3, <1>5, <1>6, <1>7, <1>8, <1>9, <1>10

\* Entities that did not change are as good as before for what the run relies on.
LEMMA SameItem ==
  ASSUME PublicationInv, w.pc \in AtItem, w'.item = w.item,
         \A q \in DOMAIN plans : plans'[q].entities = plans[q].entities
  PROVE  /\ EntityOf(w.item)' = EntityOf(w.item)
         /\ Writes(EntityOf(w.item))' = Writes(EntityOf(w.item))
<1>1. w.item[1] \in DOMAIN plans
  BY ItemIs, TodoIs
<1>2. EntityOf(w.item)' = EntityOf(w.item)
  BY <1>1 DEF EntityOf
<1> QED
  BY <1>2 DEF Writes

LEMMA OnlyFlagsAndUse ==
  ASSUME PublicationInv, NEW p \in DOMAIN plans, NEW new, FlagsStep(p, new),
         UNCHANGED <<rows, ps, seen, listed, production, pf, w>>,
         used' \in [edits : Nat, switches : Nat, crashes : Nat],
         used'.edits = used.edits
  PROVE  PublicationInv'
<1>1. /\ plans' \in Seq(PlanType) /\ Len(plans') = Len(plans) /\ DOMAIN plans' = DOMAIN plans
      /\ \A q \in DOMAIN plans : /\ plans'[q].entities = plans[q].entities
                                 /\ plans[q].confirmed => plans'[q].confirmed
                                 /\ Unfinished(q)' = Unfinished(q)
      /\ PlansOK' /\ CompleteIsFinal' /\ QueuedHasOwner'
  BY FlagsKeep
<1>2. Typed'
  BY <1>1 DEF PublicationInv, Typed
<1>3. RowsOK' /\ PreflightOK'
  BY DEF PublicationInv, RowsOK, Latest, SeenAt, PreflightOK, ScopeOK
<1>4. RunOK'
  BY <1>1 DEF PublicationInv, RunOK
<1>5. w.pc \in AtItem => /\ EntityOf(w.item)' = EntityOf(w.item)
                         /\ Writes(EntityOf(w.item))' = Writes(EntityOf(w.item))
  BY <1>1, SameItem
<1>6. PutOK'
  BY <1>5 DEF PublicationInv, PutOK, WritesApproved, WritesListed, SeenAt, AtItem
<1>7. used.edits = 0 => PublishedIsHeld' /\ CaughtUpIsHeld' /\ FoundIsHeld'
  BY DEF PublicationInv, Unedited, PublishedIsHeld, Latest, CaughtUpIsHeld, FoundIsHeld, Held
<1>8. used.edits = 0 => RunKnows'
  BY <1>5 DEF PublicationInv, Unedited, RunKnows, Held, SeenAt, AtItem
<1> QED
  BY <1>1, <1>2, <1>3, <1>4, <1>6, <1>7, <1>8 DEF PublicationInv, Unedited

LEMMA OnlyFlags ==
  ASSUME PublicationInv, NEW p \in DOMAIN plans, NEW new, FlagsStep(p, new),
         UNCHANGED <<rows, ps, seen, listed, production, pf, w, used>>
  PROVE  PublicationInv'
<1>1. used' \in [edits : Nat, switches : Nat, crashes : Nat] /\ used'.edits = used.edits
  BY DEF PublicationInv, Typed
<1> QED
  BY <1>1, OnlyFlagsAndUse

\* A plan has its type, and one that has a task is confirmed.
LEMMA PlanIs ==
  ASSUME PublicationInv, NEW p \in DOMAIN plans
  PROVE  /\ plans[p] \in PlanType
         /\ plans[p].expired \/ plans[p].task # None => plans[p].confirmed
         /\ plans[p].task = "succeeded" => Unfinished(p) = {}
  BY RowsAre DEF PublicationInv, PlansOK, CompleteIsFinal

LEMMA PlanStepsAreSafe ==
  ASSUME PublicationInv, NEW p \in DOMAIN plans,
         \/ Confirm(p) \/ Expire(p) \/ Refuse(p) \/ Recover(p) \/ Rerun(p)
         \/ StartBusy(p)
  PROVE  PublicationInv'
<1> DEFINE plan == plans[p]
<1>0. /\ plan \in PlanType
      /\ plan.expired \/ plan.task # None => plan.confirmed
      /\ plan.task = "succeeded" => Unfinished(p) = {}
  BY PlanIs
<1>1. CASE Confirm(p)
  <2> DEFINE new == [plan EXCEPT !.confirmed = TRUE, !.task = "waiting"]
  <2>1. /\ plans' = [plans EXCEPT ![p] = new]
        /\ UNCHANGED <<rows, ps, seen, listed, production, pf, w, used>>
    BY <1>1 DEF Confirm
  <2>2. new \in PlanType /\ new.entities = plan.entities /\ new.confirmed = TRUE
        /\ new.task = "waiting"
    BY <1>0 DEF PlanType, TaskStates
  <2> HIDE DEF new
  <2>3. FlagsStep(p, new)
    BY <2>1, <2>2 DEF FlagsStep
  <2> QED
    BY <2>1, <2>3, OnlyFlags
<1>2. CASE Expire(p)
  <2> DEFINE new == [plan EXCEPT !.expired = TRUE]
  <2>1. /\ plans' = [plans EXCEPT ![p] = new] /\ plan.confirmed
        /\ UNCHANGED <<rows, ps, seen, listed, production, pf, w, used>>
    BY <1>2 DEF Expire
  <2>2. new \in PlanType /\ new.entities = plan.entities /\ new.confirmed = plan.confirmed
        /\ new.task = plan.task
    BY <1>0 DEF PlanType
  <2> HIDE DEF new
  <2>3. FlagsStep(p, new)
    BY <1>0, <2>1, <2>2 DEF FlagsStep
  <2> QED
    BY <2>1, <2>3, OnlyFlags
<1>3. CASE Refuse(p)
  <2> DEFINE x == IF Unfinished(p) = {} THEN "succeeded" ELSE "failed"
             new == [plan EXCEPT !.attempt = @ + 1, !.task = x]
  <2>1. /\ plans' = [plans EXCEPT ![p] = new] /\ plan.task = "waiting"
        /\ UNCHANGED <<rows, ps, seen, listed, production, pf, w, used>>
    BY <1>3, Zenon DEF Refuse
  <2>a. x \in TaskStates /\ (x = "succeeded" => Unfinished(p) = {}) /\ plan.attempt + 1 \in Nat
    BY <1>0 DEF TaskStates, PlanType
  <2> HIDE DEF x
  <2>2. new \in PlanType /\ new.entities = plan.entities /\ new.confirmed = plan.confirmed
        /\ new.expired = plan.expired /\ new.task = x
    BY <1>0, <2>a DEF PlanType
  <2> HIDE DEF new
  <2>3. plan.confirmed
    BY <1>0, <2>1 DEF None
  <2>4. FlagsStep(p, new)
    BY <2>1, <2>2, <2>3, <2>a DEF FlagsStep
  <2> QED
    BY <2>1, <2>4, OnlyFlags
<1>4. CASE Recover(p)
  <2> DEFINE left == Unfinished(p) # {}
             again == plans[p].attempt < MaxRuns
             x == IF again /\ (left \/ plan.owed) THEN "waiting"
                  ELSE IF left THEN "failed" ELSE "succeeded"
             new == [plan EXCEPT !.task = x]
  <2>1. /\ plans' = [plans EXCEPT ![p] = new] /\ plan.task = "abandoned"
        /\ UNCHANGED <<rows, ps, seen, listed, production, pf, w, used>>
    BY <1>4, Zenon DEF Recover
  <2>a. x \in TaskStates /\ (x = "succeeded" => Unfinished(p) = {})
    BY DEF TaskStates
  <2> HIDE DEF x
  <2>2. new \in PlanType /\ new.entities = plan.entities /\ new.confirmed = plan.confirmed
        /\ new.expired = plan.expired /\ new.task = x
    BY <1>0, <2>a DEF PlanType
  <2> HIDE DEF new
  <2>3. plan.confirmed
    BY <1>0, <2>1 DEF None
  <2>4. FlagsStep(p, new)
    BY <2>1, <2>2, <2>3, <2>a DEF FlagsStep
  <2> QED
    BY <2>1, <2>4, OnlyFlags
<1>5. CASE Rerun(p)
  <2> DEFINE new == [plan EXCEPT !.task = "waiting", !.attempt = 0, !.asked = FALSE]
  <2>1. /\ plans' = [plans EXCEPT ![p] = new] /\ plan.task = "failed"
        /\ UNCHANGED <<rows, ps, seen, listed, production, pf, w, used>>
    BY <1>5 DEF Rerun
  <2>2. new \in PlanType /\ new.entities = plan.entities /\ new.confirmed = plan.confirmed
        /\ new.expired = plan.expired /\ new.task = "waiting"
    BY <1>0 DEF PlanType, TaskStates
  <2> HIDE DEF new
  <2>3. plan.confirmed
    BY <1>0, <2>1 DEF None
  <2>4. FlagsStep(p, new)
    BY <2>1, <2>2, <2>3 DEF FlagsStep
  <2> QED
    BY <2>1, <2>4, OnlyFlags
<1>6. CASE StartBusy(p)
  <2> DEFINE new == [plan EXCEPT !.task = "abandoned", !.attempt = @ + 1]
  <2>1. /\ plans' = [plans EXCEPT ![p] = new] /\ plan.task = "waiting"
        /\ used' = [used EXCEPT !.crashes = @ + 1]
        /\ UNCHANGED <<rows, ps, seen, listed, production, pf, w>>
    BY <1>6, Zenon DEF StartBusy
  <2>a. plan.attempt + 1 \in Nat
    BY <1>0 DEF PlanType
  <2>2. new \in PlanType /\ new.entities = plan.entities /\ new.confirmed = plan.confirmed
        /\ new.expired = plan.expired /\ new.task = "abandoned"
    BY <1>0, <2>a DEF PlanType, TaskStates
  <2> HIDE DEF new
  <2>3. plan.confirmed
    BY <1>0, <2>1 DEF None
  <2>4. FlagsStep(p, new)
    BY <2>1, <2>2, <2>3 DEF FlagsStep
  <2>5. used' \in [edits : Nat, switches : Nat, crashes : Nat] /\ used'.edits = used.edits
    BY <2>1 DEF PublicationInv, Typed
  <2> QED
    BY <2>1, <2>4, <2>5, OnlyFlagsAndUse
<1> QED
  BY <1>1, <1>2, <1>3, <1>4, <1>5, <1>6

-----------------------------------------------------------------------------
(* An outcome is recorded.                                                 *)

\* The entity i becomes e; every other entity and every confirmation stays.
EntityStep(i, e) ==
    /\ e \in EntityType
    /\ plans' \in Seq(PlanType) /\ Len(plans') = Len(plans) /\ DOMAIN plans' = DOMAIN plans
    /\ \A q \in DOMAIN plans :
          /\ plans[q].confirmed => plans'[q].confirmed
          /\ plans'[q].expired \/ plans'[q].task # None => plans'[q].confirmed
          /\ plans'[q].task = plans[q].task
    /\ \A q \in DOMAIN plans, m \in Members :
          /\ q = i[1] /\ m = i[2] => plans'[q].entities[m] = e
          /\ ~ (q = i[1] /\ m = i[2]) => plans'[q].entities[m] = plans[q].entities[m]

LEMMA EntityChanges ==
  ASSUME Typed, PlansOK, NEW i \in Items, i[1] \in DOMAIN plans, i[2] \in Members,
         NEW e \in EntityType, NEW new \in PlanType,
         new.entities = [plans[i[1]].entities EXCEPT ![i[2]] = e],
         plans[i[1]].confirmed => new.confirmed,
         new.expired \/ new.task # None => new.confirmed,
         new.task = plans[i[1]].task,
         plans' = [plans EXCEPT ![i[1]] = new]
  PROVE  EntityStep(i, e)
<1> DEFINE p == i[1]
<1>1. /\ plans \in Seq(PlanType) /\ Len(plans) \in Nat /\ DOMAIN plans = 1 .. Len(plans)
      /\ \A q \in DOMAIN plans : plans[q] \in PlanType
  BY RowsAre DEF Typed
<1>2. /\ DOMAIN plans' = DOMAIN plans /\ plans'[p] = new
      /\ \A q \in DOMAIN plans : q # p => plans'[q] = plans[q]
  OBVIOUS
<1>3. plans' \in Seq(PlanType) /\ Len(plans') = Len(plans)
  <2>1. plans' \in [1 .. Len(plans) -> PlanType]
    BY <1>1
  <2>2. plans' \in Seq(PlanType)
    BY <1>1, <2>1, SeqDef
  <2> QED
    BY <1>1, <1>2, <2>2, LenProperties
<1>4. \A q \in DOMAIN plans :
          /\ plans[q].confirmed => plans'[q].confirmed
          /\ plans'[q].expired \/ plans'[q].task # None => plans'[q].confirmed
          /\ plans'[q].task = plans[q].task
  BY <1>2 DEF PlansOK
<1>5. plans[p].entities \in [Members -> EntityType]
  BY <1>1 DEF PlanType
<1>6. /\ new.entities[i[2]] = e
      /\ \A m \in Members : m # i[2] => new.entities[m] = plans[p].entities[m]
  BY <1>5
<1> QED
  BY <1>2, <1>3, <1>4, <1>6 DEF EntityStep

\* What an entity's step keeps, when what was planned stays.
LEMMA EntityKeeps ==
  ASSUME PublicationInv, w.pc # "idle", NEW i \in w.todo, NEW e, EntityStep(i, e),
         e.fields = EntityOf(i).fields, e.read = EntityOf(i).read,
         e.planned = EntityOf(i).planned, RowsStep
  PROVE  /\ \A q \in DOMAIN plans, m \in Members :
               /\ plans'[q].entities[m].fields = plans[q].entities[m].fields
               /\ plans'[q].entities[m].read = plans[q].entities[m].read
               /\ plans'[q].entities[m].planned = plans[q].entities[m].planned
         /\ \A q \in DOMAIN plans : Unfinished(q)' \subseteq Unfinished(q)
         /\ \A q \in DOMAIN plans : Unfinished(q) \ {i} \subseteq Unfinished(q)'
         /\ e.result # None => \A q \in DOMAIN plans : i \notin Unfinished(q)'
         /\ e.result = None => \A q \in DOMAIN plans : Unfinished(q) \subseteq Unfinished(q)'
         /\ PlansOK' /\ CompleteIsFinal'
<1>1. /\ i = <<i[1], i[2]>> /\ i[1] \in DOMAIN plans /\ i[2] \in Members
      /\ EntityOf(i).planned # Nothing /\ EntityOf(i).result = None
  BY TodoIs
<1>2. \A q \in DOMAIN plans, m \in Members :
         /\ plans'[q].entities[m].fields = plans[q].entities[m].fields
         /\ plans'[q].entities[m].read = plans[q].entities[m].read
         /\ plans'[q].entities[m].planned = plans[q].entities[m].planned
  BY DEF EntityStep, EntityOf
<1>3. \A q \in DOMAIN plans : Unfinished(q)' \subseteq Unfinished(q)
  <2> SUFFICES ASSUME NEW q \in DOMAIN plans, NEW j \in Unfinished(q)'
               PROVE  j \in Unfinished(q)
    OBVIOUS
  <2>1. /\ j \in {q} \X Members /\ plans'[q].entities[j[2]].planned # Nothing
        /\ plans'[q].entities[j[2]].result = None
    BY DEF Unfinished
  <2>2. j[2] \in Members
    BY <2>1
  <2>3. plans[q].entities[j[2]].result = None
    BY <1>1, <2>1, <2>2 DEF EntityStep, EntityOf
  <2> QED
    BY <1>2, <2>1, <2>2, <2>3 DEF Unfinished
<1>4. ASSUME NEW q \in DOMAIN plans, NEW j \in Unfinished(q), j # i \/ e.result = None
      PROVE  j \in Unfinished(q)'
  <2>1. /\ j \in {q} \X Members /\ plans[q].entities[j[2]].planned # Nothing
        /\ plans[q].entities[j[2]].result = None
    BY DEF Unfinished
  <2>2. j[2] \in Members /\ j = <<q, j[2]>>
    BY <2>1
  <2>3. plans'[q].entities[j[2]].result = None
    BY <1>1, <1>4, <2>1, <2>2 DEF EntityStep
  <2> QED
    BY <1>2, <2>1, <2>2, <2>3 DEF Unfinished
<1>5. e.result # None => \A q \in DOMAIN plans : i \notin Unfinished(q)'
  <2> SUFFICES ASSUME e.result # None, NEW q \in DOMAIN plans, i \in Unfinished(q)'
               PROVE  FALSE
    OBVIOUS
  <2>1. q = i[1] /\ plans'[q].entities[i[2]].result = None
    BY <1>1 DEF Unfinished
  <2> QED
    BY <1>1, <2>1 DEF EntityStep
<1>6. PlansOK'
  <2>1. PlansStep
    BY <1>2 DEF EntityStep, PlansStep
  <2> QED
    BY <2>1, PlansKept DEF PublicationInv, EntityStep
<1>7. CompleteIsFinal'
  BY <1>3 DEF PublicationInv, CompleteIsFinal, EntityStep
<1> QED
  BY <1>2, <1>3, <1>4, <1>5, <1>6, <1>7

\* A failed attempt leaves the entity to do.
LEMMA FailedIs ==
  ASSUME PublicationInv, w.pc # "idle", NEW i \in w.todo, NEW mismatch \in BOOLEAN,
         RecordFailed(i, mismatch)
  PROVE  \E e : /\ EntityStep(i, e)
                /\ e.fields = EntityOf(i).fields /\ e.read = EntityOf(i).read
                /\ e.planned = EntityOf(i).planned /\ e.result = None
                /\ ~ mismatch /\ ~ EntityOf(i).mismatch => ~ e.mismatch
<1> DEFINE p == i[1]
           m == i[2]
           old == plans[p].entities[m]
           half == [old EXCEPT !.failed = TRUE]
           b == old.mismatch \/ mismatch
           e == [half EXCEPT !.mismatch = b]
           es == [plans[p].entities EXCEPT ![m] = e]
           new == [plans[p] EXCEPT !.entities = es]
<1>1. /\ i \in Items /\ p \in DOMAIN plans /\ m \in Members /\ plans[p] \in PlanType
      /\ old \in EntityType /\ old.result = None
      /\ Typed /\ PlansOK
  BY TodoIs DEF PublicationInv, EntityOf
<1>2. plans' = [plans EXCEPT ![p] = new]
  BY <1>1 DEF RecordFailed, EntityOf
<1>h. /\ half \in EntityType /\ half.fields = old.fields /\ half.read = old.read
      /\ half.planned = old.planned /\ half.result = old.result
      /\ half.mismatch = old.mismatch
  BY <1>1 DEF EntityType
<1>3. b \in BOOLEAN /\ (~ mismatch /\ ~ old.mismatch => ~ b)
  BY <1>h, Zenon
<1> HIDE DEF b, half
<1>4. /\ e \in EntityType /\ e.fields = old.fields /\ e.read = old.read
      /\ e.planned = old.planned /\ e.result = old.result /\ e.mismatch = b
  BY <1>1, <1>h, <1>3 DEF EntityType
<1>5. es \in [Members -> EntityType]
  <2>1. plans[p].entities \in [Members -> EntityType]
    BY <1>1 DEF PlanType
  <2> HIDE DEF e
  <2> QED
    BY <1>1, <1>4, <2>1
<1> HIDE DEF e, es
<1>6. /\ new \in PlanType /\ new.entities = es /\ new.confirmed = plans[p].confirmed
      /\ new.expired = plans[p].expired /\ new.task = plans[p].task
  BY <1>1, <1>5 DEF PlanType
<1> HIDE DEF new
<1>7. EntityStep(i, e)
  BY <1>1, <1>2, <1>4, <1>6, EntityChanges DEF PlansOK, es
<1> QED
  BY <1>1, <1>3, <1>4, <1>7 DEF EntityOf

\* A final outcome.
LEMMA FinalIs ==
  ASSUME PublicationInv, w.pc # "idle", NEW i \in w.todo,
         RecordPublished(i) \/ RecordInvalidated(i)
  PROVE  \E e : /\ EntityStep(i, e)
                /\ e.fields = EntityOf(i).fields /\ e.read = EntityOf(i).read
                /\ e.planned = EntityOf(i).planned /\ e.result # None
<1> DEFINE p == i[1]
           m == i[2]
           old == plans[p].entities[m]
<1>1. /\ i \in Items /\ p \in DOMAIN plans /\ m \in Members /\ plans[p] \in PlanType
      /\ old \in EntityType /\ Typed /\ PlansOK
      /\ plans[p].entities \in [Members -> EntityType]
  BY TodoIs DEF PublicationInv, EntityOf, PlanType
<1>2. ASSUME NEW x \in Final, NEW owed \in BOOLEAN, NEW e, NEW es,
             e = [old EXCEPT !.result = x], es = [plans[p].entities EXCEPT ![m] = e],
             plans' = [plans EXCEPT ![p] = [plans[p] EXCEPT !.entities = es]]
             \/ plans' = [plans EXCEPT ![p] = [plans[p] EXCEPT !.entities = es, !.owed = TRUE]]
      PROVE  /\ EntityStep(i, e)
             /\ e.fields = EntityOf(i).fields /\ e.read = EntityOf(i).read
             /\ e.planned = EntityOf(i).planned /\ e.result # None
  <2>1. /\ e \in EntityType /\ e.fields = old.fields /\ e.read = old.read
        /\ e.planned = old.planned /\ e.result = x
    BY <1>1, <1>2 DEF EntityType
  <2>2. es \in [Members -> EntityType]
    BY <1>1, <1>2, <2>1
  <2>3. ASSUME NEW new, \/ new = [plans[p] EXCEPT !.entities = es]
                        \/ new = [plans[p] EXCEPT !.entities = es, !.owed = TRUE]
        PROVE  /\ new \in PlanType /\ new.entities = es /\ new.confirmed = plans[p].confirmed
               /\ new.expired = plans[p].expired /\ new.task = plans[p].task
    BY <1>1, <2>2, <2>3 DEF PlanType
  <2>4. PICK new : /\ plans' = [plans EXCEPT ![p] = new]
                   /\ \/ new = [plans[p] EXCEPT !.entities = es]
                      \/ new = [plans[p] EXCEPT !.entities = es, !.owed = TRUE]
    BY <1>2
  <2>5. /\ new \in PlanType /\ new.entities = es /\ new.confirmed = plans[p].confirmed
        /\ new.expired = plans[p].expired /\ new.task = plans[p].task
    BY <2>3, <2>4, Zenon
  <2>6. EntityStep(i, e)
    <3>1. new.entities = [plans[i[1]].entities EXCEPT ![i[2]] = e]
      BY <1>2, <2>5, Zenon
    <3>2. /\ plans[i[1]].confirmed => new.confirmed
          /\ new.expired \/ new.task # None => new.confirmed
          /\ new.task = plans[i[1]].task
      BY <1>1, <2>5 DEF PlansOK
    <3>3. plans' = [plans EXCEPT ![i[1]] = new]
      BY <2>4
    <3> QED
      BY <1>1, <2>1, <2>5, <3>1, <3>2, <3>3, EntityChanges
  <2> QED
    BY <2>1, <2>6 DEF EntityOf, Final, None
<1>3. CASE RecordPublished(i)
  <2> DEFINE e == [old EXCEPT !.result = "published"]
             es == [plans[p].entities EXCEPT ![m] = e]
  <2>1. plans' = [plans EXCEPT ![p] = [plans[p] EXCEPT !.entities = es, !.owed = TRUE]]
    BY <1>1, <1>3, Zenon DEF RecordPublished
  <2> QED
    BY <1>2, <2>1, Zenon DEF Final
<1>4. CASE RecordInvalidated(i)
  <2> DEFINE e == [old EXCEPT !.result = "invalidated"]
             es == [plans[p].entities EXCEPT ![m] = e]
  <2>1. plans' = [plans EXCEPT ![p] = [plans[p] EXCEPT !.entities = es]]
    BY <1>1, <1>4 DEF RecordInvalidated
  <2> QED
    BY <1>2, <2>1, Zenon DEF Final
<1> QED
  BY <1>3, <1>4

\* The rows an outcome settles are the ones its entity queued.
LEMMA SettleIs ==
  ASSUME PublicationInv, w.pc # "idle", NEW i \in w.todo,
         NEW x \in {"published", "failed", "pending"}, rows' = Settle(i, x)
  PROVE  /\ DOMAIN rows' = DOMAIN rows /\ RowsStep
         /\ \A r \in DOMAIN rows :
               /\ rows'[r].current = rows[r].current /\ rows'[r].accepted = rows[r].accepted
               /\ rows'[r].member = rows[r].member /\ rows'[r].field = rows[r].field
               /\ rows'[r].submitted = rows[r].submitted /\ rows'[r].baseline = rows[r].baseline
               /\ QueuedByPlan(i, r) => rows'[r].execution = x
               /\ ~ QueuedByPlan(i, r) => rows'[r] = rows[r]
<1>0. Typed
  BY DEF PublicationInv
<1>1. /\ DOMAIN rows' = DOMAIN rows /\ rows' = [r \in DOMAIN rows |-> rows'[r]]
  BY Zenon DEF Settle
<1>2. \A r \in DOMAIN rows :
         rows'[r] = IF r \in DOMAIN EntityOf(i).fields /\ QueuedByPlan(i, r)
                    THEN MovedTo(rows[r], x) ELSE rows[r]
  BY Zenon DEF Settle, MovedTo
<1>3. \A r : QueuedByPlan(i, r) => r \in DOMAIN EntityOf(i).fields
  BY DEF QueuedByPlan, Writes
<1>4. \A r \in DOMAIN rows :
         /\ QueuedByPlan(i, r) => rows'[r] = MovedTo(rows[r], x)
         /\ ~ QueuedByPlan(i, r) => rows'[r] = rows[r]
  BY <1>2, <1>3
<1>5. x \in Executions
  BY DEF Executions, Open
<1>6. \A r \in DOMAIN rows :
         /\ RowStep(rows[r], rows'[r])
         /\ rows'[r].current = rows[r].current /\ rows'[r].accepted = rows[r].accepted
         /\ QueuedByPlan(i, r) => rows'[r].execution = x
  <2> TAKE r \in DOMAIN rows
  <2>1. rows[r] \in RowType
    BY <1>0, RowsAre
  <2> QED
    BY <1>4, <1>5, <2>1, RowMovesTo, RowStays
<1>7. RowsStep
  BY <1>0, <1>1, <1>6, RowsInPlace DEF RowsStep
<1>8. \A r \in DOMAIN rows :
         /\ rows'[r].member = rows[r].member /\ rows'[r].field = rows[r].field
         /\ rows'[r].submitted = rows[r].submitted /\ rows'[r].baseline = rows[r].baseline
  BY <1>6 DEF RowStep, SameField
<1> QED
  BY <1>1, <1>4, <1>6, <1>7, <1>8

\* A final outcome, its rows and the run's next step keep the invariant.
LEMMA RecordingKeeps ==
  ASSUME PublicationInv, w.pc \in AtItem \cup {"next", "close"}, NEW i \in w.todo,
         RecordPublished(i) \/ RecordInvalidated(i),
         w' \in RunType, w'.pc = "next", w'.todo = w.todo \ {i}, w'.plan = w.plan,
         w'.phase = w.phase,
         UNCHANGED <<ps, seen, listed, production, pf, used>>,
         used.edits = 0 /\ RecordPublished(i) =>
             \A r \in Writes(EntityOf(i)) : Held(rows[r]) = rows[r].submitted
  PROVE  PublicationInv'
<1>1. Typed /\ RowsOK /\ PlansOK /\ PreflightOK /\ RunOK /\ QueuedHasOwner /\ w.pc # "idle"
  BY DEF PublicationInv, AtItem
<1>2. PICK x \in {"published", "failed", "pending"} :
          /\ rows' = Settle(i, x)
          /\ x = "published" => RecordPublished(i)
  BY DEF RecordPublished, RecordInvalidated
<1>3. PICK e : /\ EntityStep(i, e)
               /\ e.fields = EntityOf(i).fields /\ e.read = EntityOf(i).read
               /\ e.planned = EntityOf(i).planned /\ e.result # None
  BY <1>1, FinalIs
<1>4. /\ DOMAIN rows' = DOMAIN rows /\ RowsStep
      /\ \A r \in DOMAIN rows :
            /\ rows'[r].current = rows[r].current /\ rows'[r].accepted = rows[r].accepted
            /\ rows'[r].member = rows[r].member /\ rows'[r].field = rows[r].field
            /\ rows'[r].submitted = rows[r].submitted /\ rows'[r].baseline = rows[r].baseline
            /\ QueuedByPlan(i, r) => rows'[r].execution = x
            /\ ~ QueuedByPlan(i, r) => rows'[r] = rows[r]
  BY <1>1, <1>2, SettleIs
<1>5. /\ \A q \in DOMAIN plans, m \in Members :
            plans'[q].entities[m].fields = plans[q].entities[m].fields
      /\ \A q \in DOMAIN plans : Unfinished(q)' \subseteq Unfinished(q)
      /\ \A q \in DOMAIN plans : Unfinished(q) \ {i} \subseteq Unfinished(q)'
      /\ \A q \in DOMAIN plans : i \notin Unfinished(q)'
      /\ PlansOK' /\ CompleteIsFinal'
  BY <1>1, <1>3, <1>4, EntityKeeps
<1>6. \A r : QueuedByPlan(i, r) => rows[r].execution = "queued"
  BY DEF QueuedByPlan
<1>7. \A r \in DOMAIN rows : Latest(r)' <=> Latest(r)
  BY <1>1, <1>4, LatestStays
<1>8. Typed'
  BY <1>1, <1>3, <1>4 DEF Typed, RowsStep, EntityStep
<1>9. RowsOK'
  <2> SUFFICES ASSUME NEW q \in DOMAIN rows
               PROVE  /\ rows'[q].execution \in Open => Latest(q)'
                      /\ rows'[q].execution \in Open /\ rows'[q].member \in listed =>
                             rows'[q].current = seen[rows'[q].member][rows'[q].field]
                      /\ rows'[q].execution \in {"pending", "failed", "queued"}
                            /\ ~ rows'[q].accepted =>
                             rows'[q].current \in {rows'[q].submitted, rows'[q].baseline}
    BY <1>4 DEF RowsOK, SeenAt
  <2>1. CASE QueuedByPlan(i, q)
    BY <1>1, <1>4, <1>6, <1>7, <2>1 DEF RowsOK, SeenAt, Open
  <2>2. CASE ~ QueuedByPlan(i, q)
    BY <1>1, <1>4, <1>7, <2>2 DEF RowsOK, SeenAt
  <2> QED
    BY <2>1, <2>2
<1>10. PreflightOK'
  BY <1>1, <1>4, ScopeKept DEF PreflightOK
<1>11. RunOK'
  <2>1. w.plan \in DOMAIN plans /\ plans[w.plan].confirmed
    BY <1>1 DEF RunOK
  <2>2. w'.plan \in DOMAIN plans' /\ plans'[w'.plan].confirmed
    BY <1>3, <2>1 DEF EntityStep
  <2>3. ASSUME NEW j \in w.todo \ {i}
        PROVE  /\ j[1] \in DOMAIN plans' /\ plans'[j[1]].confirmed
               /\ j \in Unfinished(j[1])'
    <3>1. j[1] \in DOMAIN plans /\ plans[j[1]].confirmed /\ j \in Unfinished(j[1])
      BY <1>1 DEF RunOK
    <3> QED
      BY <1>3, <1>5, <3>1 DEF EntityStep
  <2>4. w.phase = "closing" => Unfinished(w.plan)' \subseteq w.todo \ {i}
    <3>1. w.phase = "closing" => Unfinished(w.plan) \subseteq w.todo
      BY <1>1 DEF RunOK, AtItem
    <3> QED
      BY <1>5, <2>1, <3>1
  <2> QED
    BY <2>2, <2>3, <2>4 DEF RunOK, AtItem
<1>12. PutOK' /\ RunKnows'
  BY NoPut DEF AtItem
<1>13. QueuedHasOwner'
  <2> SUFFICES ASSUME NEW r \in DOMAIN rows, rows'[r].execution = "queued"
               PROVE  \E q \in DOMAIN plans' : \E j \in Unfinished(q)' :
                          plans'[q].confirmed /\ QueuedByPlan(j, r)'
    BY <1>4 DEF QueuedHasOwner
  <2>1. ~ QueuedByPlan(i, r) /\ rows'[r] = rows[r]
    BY <1>4
  <2>2. PICK q \in DOMAIN plans : \E j \in Unfinished(q) :
            plans[q].confirmed /\ QueuedByPlan(j, r)
    BY <1>1, <2>1 DEF QueuedHasOwner
  <2>3. PICK j \in Unfinished(q) : plans[q].confirmed /\ QueuedByPlan(j, r)
    BY <2>2
  <2>4. j \in Unfinished(q)' /\ plans'[q].confirmed /\ q \in DOMAIN plans'
    BY <1>3, <1>5, <2>1, <2>3 DEF EntityStep
  <2>5. j[1] = q /\ j[2] \in Members
    BY <2>3 DEF Unfinished
  <2>6. plans'[j[1]].entities[j[2]].fields = plans[j[1]].entities[j[2]].fields
    BY <1>5, <2>5
  <2>7. QueuedByPlan(j, r)'
    <3> DEFINE old == plans[j[1]].entities[j[2]].fields
               now == plans'[j[1]].entities[j[2]].fields
    <3>1. /\ r \in DOMAIN old /\ old[r].outcome = "write"
          /\ rows[r].execution = "queued" /\ rows[r].version = old[r].version + 1
      BY <2>3 DEF QueuedByPlan, EntityOf, Writes
    <3>2. now = old
      BY <2>6
    <3> HIDE DEF old, now
    <3>3. /\ r \in DOMAIN now /\ now[r].outcome = "write"
          /\ rows'[r].execution = "queued" /\ rows'[r].version = now[r].version + 1
      BY <2>1, <3>1, <3>2
    <3> QED
      BY <3>3 DEF QueuedByPlan, EntityOf, Writes, now
  <2> QED
    BY <2>4, <2>7
<1>14. ASSUME used.edits = 0
       PROVE  PublishedIsHeld' /\ CaughtUpIsHeld' /\ FoundIsHeld'
  <2>1. PublishedIsHeld /\ CaughtUpIsHeld /\ FoundIsHeld
    BY <1>14 DEF PublicationInv, Unedited
  <2>2. PublishedIsHeld'
    <3> SUFFICES ASSUME NEW q \in DOMAIN rows, rows'[q].execution = "published", Latest(q)'
                 PROVE  ps[rows'[q].member][rows'[q].field] = rows'[q].submitted
      BY <1>4 DEF PublishedIsHeld
    <3>1. CASE ~ QueuedByPlan(i, q)
      BY <1>4, <1>7, <1>14, <2>1, <3>1 DEF PublishedIsHeld
    <3>2. CASE QueuedByPlan(i, q)
      <4>1. RecordPublished(i) /\ q \in Writes(EntityOf(i))
        BY <1>2, <1>4, <3>2 DEF QueuedByPlan
      <4>2. Held(rows[q]) = rows[q].submitted
        BY <1>14, <4>1
      <4> QED
        BY <1>4, <4>2 DEF Held
    <3> QED
      BY <3>1, <3>2
  <2>3. CaughtUpIsHeld'
    <3> SUFFICES ASSUME NEW q \in DOMAIN rows, rows'[q].execution \in Open,
                        rows'[q].current = rows'[q].submitted
                 PROVE  ps[rows'[q].member][rows'[q].field] = rows'[q].submitted
      BY <1>4 DEF CaughtUpIsHeld, Held
    <3>1. rows[q].execution \in Open
      BY <1>4, <1>6 DEF Open
    <3> QED
      BY <1>4, <2>1, <3>1 DEF CaughtUpIsHeld, Held
  <2>4. FoundIsHeld'
    BY <1>1, <1>4, <2>1, FoundStays
  <2> QED
    BY <2>2, <2>3, <2>4
<1> QED
  BY <1>5, <1>8, <1>9, <1>10, <1>11, <1>12, <1>13, <1>14 DEF PublicationInv, Unedited

\* A run that goes back to its list.
LEMMA LeftIs ==
  ASSUME PublicationInv, w.pc \in AtItem \cup {"close"}, w' = Left
  PROVE  /\ w' \in RunType /\ w'.pc = "next" /\ w'.todo = w.todo \ {w.item}
         /\ w'.plan = w.plan /\ w'.phase = w.phase
<1>1. w \in RunType
  BY DEF PublicationInv, Typed
<1>2. 0 \in 0 .. Attempts - 1
  BY PublicationAssumption
<1> QED
  BY <1>1, <1>2 DEF Left, RunType

-----------------------------------------------------------------------------
(* A PUT arrives, whole or in part.                                        *)

\* Every field it changes is one the plan writes, and gets what the Family said.
LEMMA ApplyIs ==
  ASSUME PublicationInv, w.pc = "put", NEW applied \in SUBSET Fields,
         applied \subseteq Body(w.item), Apply(w.item, applied)
  PROVE  /\ ps' \in [Members -> Records]
         /\ \A m \in Members, f \in Fields : ps'[m][f] # ps[m][f] =>
               /\ m = w.item[2]
               /\ \E q \in Writes(EntityOf(w.item)) :
                     /\ q \in DOMAIN rows /\ rows[q].member = m /\ rows[q].field = f
                     /\ ps'[m][f] = rows[q].submitted
<1> DEFINE i == w.item
           planned == EntityOf(i).planned
           new == [f \in Fields |-> IF f \in applied THEN planned[f] ELSE ps[i[2]][f]]
<1>1. w.item \in w.todo /\ w.pc # "idle"
  BY ItemIs DEF AtItem
<1>2. /\ i[2] \in Members /\ planned \in Records
      /\ \A r \in Writes(EntityOf(i)) :
            /\ r \in DOMAIN rows /\ rows[r].member = i[2]
            /\ planned[rows[r].field] = rows[r].submitted
  BY <1>1, TodoIs
<1>3. ps \in [Members -> Records]
  BY DEF PublicationInv, Typed
<1>4. ps' = [ps EXCEPT ![i[2]] = new]
  BY Zenon DEF Apply
<1> HIDE DEF planned
<1>5. new \in Records
  BY <1>2, <1>3 DEF Records
<1>6. \A f \in Fields : new[f] # ps[i[2]][f] => f \in applied /\ new[f] = planned[f]
  OBVIOUS
<1> HIDE DEF new
<1>7. ps' \in [Members -> Records]
  BY <1>2, <1>3, <1>4, <1>5
<1>8. ASSUME NEW m \in Members, NEW f \in Fields, ps'[m][f] # ps[m][f]
      PROVE  /\ m = w.item[2]
             /\ \E q \in Writes(EntityOf(w.item)) :
                   /\ q \in DOMAIN rows /\ rows[q].member = m /\ rows[q].field = f
                   /\ ps'[m][f] = rows[q].submitted
  <2>1. m = i[2] /\ ps'[m] = new
    BY <1>3, <1>4, <1>8
  <2>2. f \in applied /\ ps'[m][f] = planned[f]
    BY <1>6, <1>8, <2>1
  <2>3. PICK q \in Writes(EntityOf(i)) : rows[q].field = f
    BY <2>2 DEF Body
  <2> QED
    BY <1>2, <2>1, <2>2, <2>3
<1> QED
  BY <1>7, <1>8

\* While nobody edits ParishSoft, a PUT disturbs nothing that is known of it:
\* a field with an answer newer than the written one had that answer only if
\* the promoted data did not, and the promoted data is what the PUT replaces.
LEMMA PutLands ==
  ASSUME PublicationInv, used.edits = 0, w.pc = "put", NEW applied \in SUBSET Fields,
         applied \subseteq Body(w.item), Apply(w.item, applied), rows' = rows, pf' = pf
  PROVE  PublishedIsHeld' /\ CaughtUpIsHeld' /\ FoundIsHeld'
<1>1. /\ Typed /\ RowsOK /\ PreflightOK /\ PutOK
      /\ PublishedIsHeld /\ CaughtUpIsHeld /\ RunKnows /\ FoundIsHeld
  BY DEF PublicationInv, Unedited
<1>2. \A r \in DOMAIN rows : rows[r] \in RowType /\ r \in Nat
  BY <1>1, RowsAre
<1>3. ASSUME NEW r \in DOMAIN rows, Latest(r), Held(rows[r])' # Held(rows[r])
      PROVE  \/ rows[r].execution = "queued" /\ Held(rows[r])' = rows[r].submitted
             \/ rows[r].execution \in {"superseded", "cancelled"}
             \/ /\ rows[r].current # rows[r].submitted
                /\ Held(rows[r]) # rows[r].submitted
  <2>1. rows[r].member \in Members /\ rows[r].field \in Fields
    BY <1>2 DEF RowType
  <2>2. ps'[rows[r].member][rows[r].field] # ps[rows[r].member][rows[r].field]
    BY <1>3 DEF Held
  <2>3. PICK q \in Writes(EntityOf(w.item)) :
            /\ q \in DOMAIN rows /\ rows[q].member = rows[r].member
            /\ rows[q].field = rows[r].field
            /\ ps'[rows[r].member][rows[r].field] = rows[q].submitted
    BY <2>1, <2>2, ApplyIs
  <2>4. CASE q = r
    BY <1>1, <2>3, <2>4 DEF PutOK, WritesApproved, Held
  <2>5. CASE q > r
    BY <1>3, <2>3, <2>5 DEF Latest
  <2>6. CASE r > q
    <3>1. rows[r].current = SeenAt(rows[q]) /\ rows[r].submitted # SeenAt(rows[q])
      BY <1>1, <2>3, <2>6 DEF PutOK, SameField
    <3>2. Held(rows[q]) = SeenAt(rows[q])
      BY <1>1, <2>3 DEF RunKnows
    <3> QED
      BY <2>3, <3>1, <3>2 DEF Held
  <2>7. q = r \/ q > r \/ r > q
    BY <1>2, <2>3
  <2> QED
    BY <2>4, <2>5, <2>6, <2>7
<1>4. PublishedIsHeld'
  <2> SUFFICES ASSUME NEW r \in DOMAIN rows, rows[r].execution = "published", Latest(r)
               PROVE  Held(rows[r])' = rows[r].submitted
    BY DEF PublishedIsHeld, Latest, Held
  <2>1. Held(rows[r]) = rows[r].submitted
    BY <1>1 DEF PublishedIsHeld, Held
  <2> QED
    BY <1>3, <2>1
<1>5. CaughtUpIsHeld'
  <2> SUFFICES ASSUME NEW r \in DOMAIN rows, rows[r].execution \in Open,
                      rows[r].current = rows[r].submitted
               PROVE  Held(rows[r])' = rows[r].submitted
    BY DEF CaughtUpIsHeld, Held
  <2>1. Held(rows[r]) = rows[r].submitted /\ Latest(r)
    BY <1>1 DEF CaughtUpIsHeld, RowsOK
  <2> QED
    BY <1>3, <2>1 DEF Open
<1>6. FoundIsHeld'
  <2> SUFFICES ASSUME pf.on, pf.reads # Nothing, NEW r \in DOMAIN pf.scope,
                      pf.scope[r].version = rows[r].version,
                      pf.reads[rows[r].member] # Nothing,
                      pf.reads[rows[r].member][rows[r].field] = rows[r].submitted
               PROVE  Held(rows[r])' = rows[r].submitted
    BY DEF FoundIsHeld, Held
  <2>1. Held(rows[r]) = rows[r].submitted
    BY <1>1 DEF FoundIsHeld
  <2>2. r \in DOMAIN rows /\ rows[r].execution \in Plannable
    BY <1>1 DEF PreflightOK, ScopeOK
  <2>3. Latest(r)
    BY <1>1, <2>2 DEF RowsOK, Plannable, Open
  <2> QED
    BY <1>3, <2>1, <2>2, <2>3 DEF Plannable
<1> QED
  BY <1>4, <1>5, <1>6

\* An attempt fails: the entity is tried again, or left for the closing.
LEMMA FailingKeeps ==
  ASSUME PublicationInv, w.pc \in AtItem, NEW mismatch \in BOOLEAN,
         RecordFailed(w.item, mismatch),
         (w' = Retried /\ ~ mismatch) \/ w' = Left,
         ps' \in [Members -> Records], UNCHANGED <<seen, listed, production, pf, used>>,
         used.edits = 0 => PublishedIsHeld' /\ CaughtUpIsHeld' /\ FoundIsHeld'
  PROVE  PublicationInv'
<1>0. w.item \in w.todo /\ w.pc # "idle" /\ rows' = rows
  BY ItemIs DEF RecordFailed
<1>1. Typed /\ RowsOK /\ PreflightOK /\ RunOK /\ PutOK /\ QueuedHasOwner /\ w \in RunType
  BY DEF PublicationInv, Typed
<1>2. PICK e : /\ EntityStep(w.item, e)
               /\ e.fields = EntityOf(w.item).fields /\ e.read = EntityOf(w.item).read
               /\ e.planned = EntityOf(w.item).planned /\ e.result = None
               /\ ~ mismatch /\ ~ EntityOf(w.item).mismatch => ~ e.mismatch
  BY <1>0, FailedIs
<1>3. RowsStep
  BY <1>0, <1>1, RowsAre, RowStays DEF RowsStep, Typed
<1>4. /\ \A q \in DOMAIN plans, m \in Members :
            plans'[q].entities[m].fields = plans[q].entities[m].fields
      /\ \A q \in DOMAIN plans : Unfinished(q)' \subseteq Unfinished(q)
      /\ \A q \in DOMAIN plans : Unfinished(q) \subseteq Unfinished(q)'
      /\ PlansOK' /\ CompleteIsFinal'
  BY <1>0, <1>2, <1>3, EntityKeeps
<1>5. \/ /\ ~ mismatch /\ w'.pc = "attempt" /\ w'.todo = w.todo /\ w'.plan = w.plan
         /\ w'.phase = w.phase /\ w'.item = w.item /\ w' \in RunType
      \/ /\ w'.pc = "next" /\ w'.todo = w.todo \ {w.item} /\ w'.plan = w.plan
         /\ w'.phase = w.phase /\ w' \in RunType
  <2>1. CASE w' = Left
    BY <2>1, LeftIs
  <2>2. CASE w' = Retried /\ w.tries + 1 < Attempts /\ ~ mismatch
    <3>1. w' = [w EXCEPT !.pc = "attempt", !.fresh = Nothing, !.tries = @ + 1]
      BY <2>2 DEF Retried
    <3>2. w.tries + 1 \in 0 .. Attempts - 1
      BY <1>1, <2>2, PublicationAssumption DEF RunType
    <3> QED
      BY <1>1, <2>2, <3>1, <3>2 DEF RunType
  <2>3. CASE w' = Retried /\ ~ (w.tries + 1 < Attempts)
    <3>1. w' = Left
      BY <2>3 DEF Retried
    <3> QED
      BY <3>1, LeftIs
  <2> QED
    BY <2>1, <2>2, <2>3
<1>6. Typed'
  BY <1>0, <1>1, <1>2, <1>5 DEF Typed, EntityStep
<1>7. RowsOK' /\ PreflightOK'
  BY <1>0, <1>1 DEF RowsOK, Latest, SeenAt, PreflightOK, ScopeOK
<1>8. RunOK'
  <2>1. w.plan \in DOMAIN plans /\ plans[w.plan].confirmed /\ w.phase = "attempts"
    BY <1>0, <1>1 DEF RunOK
  <2>2. w'.plan \in DOMAIN plans' /\ plans'[w'.plan].confirmed
    BY <1>2, <1>5, <2>1 DEF EntityStep
  <2>3. ASSUME NEW j \in w.todo
        PROVE  /\ j[1] \in DOMAIN plans' /\ plans'[j[1]].confirmed
               /\ j \in Unfinished(j[1])'
    <3>1. j[1] \in DOMAIN plans /\ plans[j[1]].confirmed /\ j \in Unfinished(j[1])
      BY <1>0, <1>1 DEF RunOK
    <3> QED
      BY <1>2, <1>4, <3>1 DEF EntityStep
  <2> QED
    BY <1>0, <1>5, <2>1, <2>2, <2>3 DEF RunOK, AtItem
<1>9. PutOK' /\ RunKnows'
  <2>1. CASE w'.pc = "next"
    BY <2>1, NoPut DEF AtItem
  <2>2. CASE w'.pc = "attempt"
    <3>1. w'.item = w.item /\ ~ mismatch
      BY <1>5, <2>2
    <3>2. ~ EntityOf(w.item).mismatch
      BY <1>1 DEF PutOK
    <3>3. w.item[1] \in DOMAIN plans /\ w.item[2] \in Members
      BY <1>0, TodoIs
    <3>4. EntityOf(w.item)' = e /\ ~ e.mismatch
      BY <1>2, <3>1, <3>2, <3>3 DEF EntityStep, EntityOf
    <3> QED
      BY <2>2, <3>4 DEF PutOK, WritesApproved, WritesListed, RunKnows
  <2> QED
    BY <1>5, <2>1, <2>2
<1>10. QueuedHasOwner'
  <2> SUFFICES ASSUME NEW r \in DOMAIN rows, rows[r].execution = "queued"
               PROVE  \E q \in DOMAIN plans' : \E j \in Unfinished(q)' :
                          plans'[q].confirmed /\ QueuedByPlan(j, r)'
    BY <1>0 DEF QueuedHasOwner
  <2>2. PICK q \in DOMAIN plans : \E j \in Unfinished(q) :
            plans[q].confirmed /\ QueuedByPlan(j, r)
    BY <1>1 DEF QueuedHasOwner
  <2>3. PICK j \in Unfinished(q) : plans[q].confirmed /\ QueuedByPlan(j, r)
    BY <2>2
  <2>4. j \in Unfinished(q)' /\ plans'[q].confirmed /\ q \in DOMAIN plans'
    BY <1>2, <1>4, <2>3 DEF EntityStep
  <2>5. j[1] = q /\ j[2] \in Members
    BY <2>3 DEF Unfinished
  <2>7. QueuedByPlan(j, r)'
    <3> DEFINE old == plans[j[1]].entities[j[2]].fields
               now == plans'[j[1]].entities[j[2]].fields
    <3>1. /\ r \in DOMAIN old /\ old[r].outcome = "write"
          /\ rows[r].execution = "queued" /\ rows[r].version = old[r].version + 1
      BY <2>3 DEF QueuedByPlan, EntityOf, Writes
    <3>2. now = old
      BY <1>4, <2>5
    <3> HIDE DEF old, now
    <3>3. /\ r \in DOMAIN now /\ now[r].outcome = "write"
          /\ rows'[r].execution = "queued" /\ rows'[r].version = now[r].version + 1
      BY <1>0, <3>1, <3>2
    <3> QED
      BY <3>3 DEF QueuedByPlan, EntityOf, Writes, now
  <2> QED
    BY <2>4, <2>7
<1> QED
  BY <1>4, <1>6, <1>7, <1>8, <1>9, <1>10 DEF PublicationInv, Unedited

-----------------------------------------------------------------------------
(* The run begins, and ends.                                               *)

LEMMA InitIsSafe ==
  ASSUME Init
  PROVE  PublicationInv
<1>1. rows = <<>> /\ plans = <<>> /\ DOMAIN rows = {} /\ DOMAIN plans = {} /\ Len(plans) = 0
  BY DEF Init
<1>2. Typed
  <2>1. ps \in [Members -> Records] /\ seen \in [Members -> Records] /\ listed \subseteq Members
    BY PublicationAssumption DEF Init, Records
  <2>2. w \in RunType
    BY PublicationAssumption DEF Init, NoRun, RunType, Items, Nothing
  <2>3. MaxPlans \in Nat
    BY PublicationAssumption
  <2>4. rows \in Seq(RowType) /\ plans \in Seq(PlanType)
    BY <1>1
  <2> QED
    BY <1>1, <2>1, <2>2, <2>3, <2>4 DEF Init, Typed
<1>3. RowsOK /\ PlansOK /\ QueuedHasOwner /\ CompleteIsFinal
  BY <1>1 DEF RowsOK, PlansOK, QueuedHasOwner, CompleteIsFinal
<1>4. ~ pf.on /\ w.pc = "idle"
  BY DEF Init, NoPreflight, NoRun
<1>5. PreflightOK /\ RunOK /\ PutOK
  BY <1>4 DEF PreflightOK, RunOK, PutOK, WritesApproved, WritesListed, AtItem
<1>6. Unedited
  BY <1>1, <1>4 DEF Unedited, PublishedIsHeld, CaughtUpIsHeld, RunKnows, FoundIsHeld
<1> QED
  BY <1>2, <1>3, <1>5, <1>6 DEF PublicationInv

\* The three facts about ParishSoft that no run is part of.
LEMMA HeldStays ==
  ASSUME PublicationInv, used.edits = 0, UNCHANGED <<rows, ps, pf>>
  PROVE  used'.edits = 0 => PublishedIsHeld' /\ CaughtUpIsHeld' /\ FoundIsHeld'
  BY DEF PublicationInv, Unedited, PublishedIsHeld, Latest, CaughtUpIsHeld, FoundIsHeld, Held

\* A plan's task and the run change together.
LEMMA TaskAndRun ==
  ASSUME PublicationInv, NEW p \in DOMAIN plans, NEW new, FlagsStep(p, new),
         UNCHANGED <<rows, seen, listed, production, pf>>,
         used' \in [edits : Nat, switches : Nat, crashes : Nat], used'.edits = used.edits,
         ps' \in [Members -> Records], w' \in RunType, w'.pc \notin AtItem, RunOK',
         used.edits = 0 => PublishedIsHeld' /\ CaughtUpIsHeld' /\ FoundIsHeld'
  PROVE  PublicationInv'
<1>1. /\ plans' \in Seq(PlanType) /\ Len(plans') = Len(plans)
      /\ PlansOK' /\ CompleteIsFinal' /\ QueuedHasOwner'
  BY FlagsKeep
<1>2. Typed'
  BY <1>1 DEF PublicationInv, Typed
<1>3. RowsOK' /\ PreflightOK'
  BY DEF PublicationInv, RowsOK, Latest, SeenAt, PreflightOK, ScopeOK
<1>4. PutOK' /\ RunKnows'
  BY NoPut
<1> QED
  BY <1>1, <1>2, <1>3, <1>4 DEF PublicationInv, Unedited

LEMMA NoRunIs == NoRun \in RunType /\ NoRun.pc = "idle"
<1>1. 0 \in 0 .. Attempts - 1
  BY PublicationAssumption
<1> QED
  BY <1>1 DEF NoRun, RunType

LEMMA StartIsSafe ==
  ASSUME PublicationInv, NEW p \in DOMAIN plans, Start(p)
  PROVE  PublicationInv'
<1> DEFINE plan == plans[p]
           new == [plan EXCEPT !.task = "running", !.attempt = @ + 1]
           late == {q \in DOMAIN plans \ {p} : plans[q].expired}
           left == UNION {Unfinished(q) : q \in late}
<1>0. /\ plan \in PlanType /\ plan.task = "waiting"
      /\ plan.expired \/ plan.task # None => plan.confirmed
  BY PlanIs DEF Start
<1>1. plan.confirmed /\ plan.attempt + 1 \in Nat
  BY <1>0 DEF None, PlanType
<1>2. /\ plans' = [plans EXCEPT ![p] = new]
      /\ UNCHANGED <<rows, ps, seen, listed, production, pf, used>>
  BY Zenon DEF Start
<1>3. /\ new \in PlanType /\ new.entities = plan.entities /\ new.confirmed = plan.confirmed
      /\ new.task = "running"
  BY <1>0, <1>1 DEF PlanType, TaskStates
<1>4. w' = [NoRun EXCEPT !.pc = "next", !.phase = "sweep", !.plan = p, !.todo = left,
                         !.stopped = plan.expired]
  BY Zenon DEF Start
<1> HIDE DEF new
<1>5. FlagsStep(p, new)
  BY <1>1, <1>2, <1>3 DEF FlagsStep
<1>6. /\ DOMAIN plans' = DOMAIN plans
      /\ \A q \in DOMAIN plans : /\ plans[q].confirmed => plans'[q].confirmed
                                 /\ Unfinished(q)' = Unfinished(q)
  BY <1>2, <1>5, FlagsKeep
<1>7. ASSUME NEW i \in left
      PROVE  /\ i \in Items /\ i[1] \in DOMAIN plans /\ plans[i[1]].confirmed
             /\ i \in Unfinished(i[1])
  <2>1. PICK q \in late : i \in Unfinished(q)
    BY <1>7
  <2>2. q \in DOMAIN plans /\ plans[q].confirmed
    BY PlanIs
  <2>3. i \in {q} \X Members /\ i[1] = q
    BY <2>1 DEF Unfinished
  <2>4. q \in 1 .. MaxPlans
    BY <2>2, RowsAre, PublicationAssumption DEF PublicationInv, Typed
  <2> QED
    BY <2>1, <2>2, <2>3, <2>4 DEF Items
<1> HIDE DEF left
<1>8. p \in Nat /\ plan.expired \in BOOLEAN /\ left \in SUBSET Items
  BY <1>0, <1>7, RowsAre DEF PublicationInv, PlanType
<1>9. /\ w' \in RunType /\ w'.pc = "next" /\ w'.phase = "sweep" /\ w'.plan = p
      /\ w'.todo = left
  BY <1>4, <1>8, NoRunIs DEF RunType
<1>10. RunOK'
  BY <1>1, <1>6, <1>7, <1>9 DEF RunOK, AtItem
<1>11. used' \in [edits : Nat, switches : Nat, crashes : Nat] /\ ps' \in [Members -> Records]
  BY <1>2 DEF PublicationInv, Typed
<1>12. used.edits = 0 => PublishedIsHeld' /\ CaughtUpIsHeld' /\ FoundIsHeld'
  BY <1>2, HeldStays
<1> QED
  BY <1>2, <1>5, <1>9, <1>10, <1>11, <1>12, TaskAndRun DEF AtItem

LEMMA FinishIsSafe ==
  ASSUME PublicationInv, NEW admitted \in BOOLEAN, Finish(admitted)
  PROVE  PublicationInv'
<1> DEFINE p == w.plan
           plan == plans[p]
           asks == plan.owed /\ ~ plan.asked /\ admitted
           new == [plan EXCEPT !.task = "succeeded", !.asked = @ \/ asks, !.owed = @ /\ ~ asks]
<1>1. p \in DOMAIN plans /\ plan.confirmed /\ Unfinished(p) = {} /\ w' = NoRun
  BY DEF Finish, PublicationInv, RunOK
<1>2. plan \in PlanType
  BY <1>1, PlanIs
<1>3. /\ plans' = [plans EXCEPT ![p] = new]
      /\ UNCHANGED <<rows, ps, seen, listed, production, pf, used>>
  BY Zenon DEF Finish
<1>4. /\ (plan.asked \/ asks) \in BOOLEAN /\ (plan.owed /\ ~ asks) \in BOOLEAN
  BY <1>2 DEF PlanType
<1> HIDE DEF asks
<1>5. new \in PlanType /\ new.entities = plan.entities /\ new.confirmed = plan.confirmed
  BY <1>2, <1>4 DEF PlanType, TaskStates
<1> HIDE DEF new
<1>6. FlagsStep(p, new)
  BY <1>1, <1>3, <1>5 DEF FlagsStep
<1>7. w' \in RunType /\ w'.pc = "idle"
  BY <1>1, NoRunIs
<1>8. RunOK'
  BY <1>7 DEF RunOK
<1>9. used' \in [edits : Nat, switches : Nat, crashes : Nat] /\ ps' \in [Members -> Records]
  BY <1>3 DEF PublicationInv, Typed
<1>10. used.edits = 0 => PublishedIsHeld' /\ CaughtUpIsHeld' /\ FoundIsHeld'
  BY <1>3, HeldStays
<1> QED
  BY <1>1, <1>3, <1>6, <1>7, <1>8, <1>9, <1>10, TaskAndRun DEF AtItem

LEMMA CrashIsSafe ==
  ASSUME PublicationInv, NEW applied \in SUBSET Fields, Crash(applied)
  PROVE  PublicationInv'
<1> DEFINE p == w.plan
           plan == plans[p]
           new == [plan EXCEPT !.task = "abandoned"]
<1>1. p \in DOMAIN plans /\ plan.confirmed /\ w' = NoRun
  BY DEF Crash, PublicationInv, RunOK
<1>2. plan \in PlanType /\ used \in [edits : Nat, switches : Nat, crashes : Nat]
  BY <1>1, PlanIs DEF PublicationInv, Typed
<1>3. /\ plans' = [plans EXCEPT ![p] = new] /\ used' = [used EXCEPT !.crashes = @ + 1]
      /\ UNCHANGED <<rows, seen, listed, production, pf>>
  BY Zenon DEF Crash
<1>4. new \in PlanType /\ new.entities = plan.entities /\ new.confirmed = plan.confirmed
      /\ new.task = "abandoned"
  BY <1>2 DEF PlanType, TaskStates
<1>5. used' \in [edits : Nat, switches : Nat, crashes : Nat] /\ used'.edits = used.edits
  BY <1>2, <1>3
<1> HIDE DEF new
<1>6. FlagsStep(p, new)
  BY <1>1, <1>3, <1>4 DEF FlagsStep
<1>7. w' \in RunType /\ w'.pc = "idle"
  BY <1>1, NoRunIs
<1>8. RunOK'
  BY <1>7 DEF RunOK
<1>9. /\ ps' \in [Members -> Records]
      /\ used.edits = 0 => PublishedIsHeld' /\ CaughtUpIsHeld' /\ FoundIsHeld'
  <2>1. CASE w.pc = "put"
    <3>1. applied \subseteq Body(w.item) /\ Apply(w.item, applied)
      BY <2>1 DEF Crash
    <3>2. ps' \in [Members -> Records]
      BY <2>1, <3>1, ApplyIs
    <3> QED
      BY <1>3, <2>1, <3>1, <3>2, PutLands
  <2>2. CASE w.pc # "put"
    <3>1. ps' = ps
      BY <2>2 DEF Crash
    <3> QED
      BY <1>3, <1>5, <3>1, HeldStays DEF PublicationInv, Typed
  <2> QED
    BY <2>1, <2>2
<1> QED
  BY <1>1, <1>3, <1>5, <1>6, <1>7, <1>8, <1>9, TaskAndRun DEF AtItem

-----------------------------------------------------------------------------
(* The run goes through its work.                                          *)

\* What a plan has left may be listed as work.
LEMMA UnfinishedIs ==
  ASSUME PublicationInv, NEW p \in DOMAIN plans, NEW i \in Unfinished(p)
  PROVE  i \in Items /\ i[1] = p
<1>1. i \in {p} \X Members /\ i[1] = p
  BY DEF Unfinished
<1>2. p \in 1 .. MaxPlans
  BY RowsAre, PublicationAssumption DEF PublicationInv, Typed
<1> QED
  BY <1>1, <1>2 DEF Items

LEMMA NextPhaseIsSafe ==
  ASSUME PublicationInv, NextPhase
  PROVE  PublicationInv'
<1>1. RunOK /\ w \in RunType /\ w.pc = "next" /\ w.todo = {}
  BY DEF PublicationInv, Typed, NextPhase
<1>2. UNCHANGED <<rows, plans, ps, seen, listed, production, pf, used>>
  BY DEF NextPhase
<1>3. /\ w.plan \in DOMAIN plans /\ plans[w.plan].confirmed
      /\ w.phase = "closing" => Unfinished(w.plan) = {}
  BY <1>1 DEF RunOK
<1>4. \A i \in Unfinished(w.plan) : i \in Items /\ i[1] = w.plan
  BY <1>3, UnfinishedIs
<1>5. \A q : Unfinished(q)' = Unfinished(q)
  BY <1>2 DEF Unfinished
<1>6. CASE w.phase = "closing"
  <2>1. w' = [w EXCEPT !.pc = "release"]
    BY <1>6 DEF NextPhase
  <2>2. w' \in RunType /\ w'.pc = "release" /\ w'.plan = w.plan /\ w'.todo = {}
    BY <1>1, <2>1 DEF RunType
  <2>3. RunOK'
    BY <1>2, <1>3, <1>5, <1>6, <2>2 DEF RunOK, AtItem
  <2> QED
    BY <1>2, <2>2, <2>3, NoPut, OnlyRun DEF AtItem
<1>7. CASE w.phase # "closing"
  <2> DEFINE x == IF w.phase = "sweep" THEN "attempts" ELSE "closing"
  <2>1. w' = [w EXCEPT !.phase = x, !.todo = Unfinished(w.plan)]
    BY <1>7 DEF NextPhase
  <2>2. /\ w' \in RunType /\ w'.pc = "next" /\ w'.plan = w.plan
        /\ w'.todo = Unfinished(w.plan)
    BY <1>1, <1>4, <2>1 DEF RunType
  <2>3. RunOK'
    BY <1>2, <1>3, <1>4, <1>5, <2>2 DEF RunOK, AtItem
  <2> QED
    BY <1>2, <2>2, <2>3, NoPut, OnlyRun DEF AtItem
<1> QED
  BY <1>6, <1>7

LEMMA TakeIsSafe ==
  ASSUME PublicationInv, NEW i \in w.todo, TakeEntity(i)
  PROVE  PublicationInv'
<1>1. RunOK /\ w \in RunType /\ w.pc = "next" /\ w.phase = "attempts"
  BY DEF PublicationInv, Typed, TakeEntity
<1>2. UNCHANGED <<rows, plans, ps, seen, listed, production, pf, used>>
  BY DEF TakeEntity
<1>3. \A q : Unfinished(q)' = Unfinished(q)
  BY <1>2 DEF Unfinished
<1>4. CASE w.stopped \/ EntityOf(i).mismatch
  <2>1. w' = [w EXCEPT !.todo = @ \ {i}]
    BY <1>4 DEF TakeEntity
  <2>2. /\ w' \in RunType /\ w'.pc = "next" /\ w'.plan = w.plan /\ w'.phase = "attempts"
        /\ w'.todo = w.todo \ {i}
    BY <1>1, <2>1 DEF RunType
  <2>3. RunOK'
    BY <1>1, <1>2, <1>3, <2>2 DEF RunOK, AtItem
  <2> QED
    BY <1>2, <2>2, <2>3, NoPut, OnlyRun DEF AtItem
<1>5. CASE ~ (w.stopped \/ EntityOf(i).mismatch)
  <2>1. w' = [w EXCEPT !.item = i, !.pc = "attempt"]
    BY <1>5 DEF TakeEntity
  <2>2. /\ w' \in RunType /\ w'.pc = "attempt" /\ w'.plan = w.plan /\ w'.phase = "attempts"
        /\ w'.todo = w.todo /\ w'.item = i
    BY <1>1, <2>1 DEF RunType
  <2>3. RunOK'
    BY <1>1, <1>2, <1>3, <2>2 DEF RunOK, AtItem
  <2>4. ~ EntityOf(w.item)'.mismatch
    BY <1>2, <1>5, <2>2 DEF EntityOf
  <2>5. PutOK' /\ RunKnows'
    BY <2>2, <2>4 DEF PutOK, WritesApproved, WritesListed, RunKnows
  <2> QED
    BY <1>2, <2>2, <2>3, <2>5, OnlyRun
<1> QED
  BY <1>4, <1>5

\* The run leaves an entity with nothing recorded: the closing takes it up.
LEMMA StoppedIsSafe ==
  ASSUME PublicationInv, w.pc \in AtItem, w' = Stopped,
         UNCHANGED <<rows, plans, ps, seen, listed, production, pf, used>>
  PROVE  PublicationInv'
<1>1. RunOK /\ w \in RunType /\ w.item \in w.todo /\ w.pc # "idle"
  BY ItemIs DEF PublicationInv, Typed
<1>2. 0 \in 0 .. Attempts - 1
  BY PublicationAssumption
<1>3. /\ w' \in RunType /\ w'.pc = "next" /\ w'.plan = w.plan /\ w'.phase = w.phase
      /\ w'.todo = w.todo \ {w.item}
  <2> DEFINE left == Left
  <2>1. /\ left \in RunType /\ left.pc = "next" /\ left.plan = w.plan /\ left.phase = w.phase
        /\ left.todo = w.todo \ {w.item}
    BY <1>1, <1>2 DEF Left, RunType
  <2>2. w' = [left EXCEPT !.stopped = TRUE]
    BY DEF Stopped
  <2> HIDE DEF left
  <2> QED
    BY <2>1, <2>2 DEF RunType
<1>4. \A q : Unfinished(q)' = Unfinished(q)
  BY DEF Unfinished
<1>5. RunOK'
  BY <1>1, <1>3, <1>4 DEF RunOK, AtItem
<1> QED
  BY <1>3, <1>5, NoPut, OnlyRun DEF AtItem

\* An outcome is one or the other.
LEMMA OneOutcome ==
  ASSUME PublicationInv, w.pc # "idle", NEW i \in w.todo, RecordInvalidated(i)
  PROVE  ~ RecordPublished(i)
<1> DEFINE p == i[1]
           m == i[2]
           old == plans[p].entities[m]
<1>1. /\ p \in DOMAIN plans /\ m \in Members /\ plans[p] \in PlanType
      /\ old \in EntityType /\ plans[p].entities \in [Members -> EntityType]
  BY TodoIs DEF EntityOf, PlanType
<1>2. plans'[p].entities[m].result = "invalidated"
  BY <1>1 DEF RecordInvalidated, PlanType, EntityType
<1>3. ASSUME RecordPublished(i)
      PROVE  plans'[p].entities[m].result = "published"
  <2> DEFINE e == [old EXCEPT !.result = "published"]
             es == [plans[p].entities EXCEPT ![m] = e]
             new == [plans[p] EXCEPT !.entities = es, !.owed = TRUE]
  <2>1. plans' = [plans EXCEPT ![p] = new]
    BY <1>1, <1>3, Zenon DEF RecordPublished
  <2>2. e.result = "published" /\ es[m] = e
    BY <1>1 DEF EntityType
  <2> HIDE DEF es, e
  <2>3. new.entities = es
    BY <1>1 DEF PlanType
  <2> HIDE DEF new
  <2> QED
    BY <1>1, <2>1, <2>2, <2>3
<1> QED
  BY <1>2, <1>3

\* An attempt at an entity ends with its outcome.
LEMMA InvalidatedIsSafe ==
  ASSUME PublicationInv, w.pc \in AtItem \cup {"close"}, RecordInvalidated(w.item), w' = Left,
         UNCHANGED <<ps, seen, listed, production, pf, used>>
  PROVE  PublicationInv'
<1>1. w.item \in w.todo
  BY ItemIs
<1>2. /\ w' \in RunType /\ w'.pc = "next" /\ w'.todo = w.todo \ {w.item}
      /\ w'.plan = w.plan /\ w'.phase = w.phase
  BY LeftIs
<1>3. ~ RecordPublished(w.item)
  BY <1>1, ItemIs, OneOutcome
<1> QED
  BY <1>1, <1>2, <1>3, RecordingKeeps

LEMMA PublishedIsSafe ==
  ASSUME PublicationInv, w.pc \in AtItem \cup {"close"}, RecordPublished(w.item), w' = Left,
         UNCHANGED <<ps, seen, listed, production, pf, used>>,
         used.edits = 0 => ps[w.item[2]] = EntityOf(w.item).planned
  PROVE  PublicationInv'
<1>1. w.item \in w.todo
  BY ItemIs
<1>2. /\ w' \in RunType /\ w'.pc = "next" /\ w'.todo = w.todo \ {w.item}
      /\ w'.plan = w.plan /\ w'.phase = w.phase
  BY LeftIs
<1>3. \A r \in Writes(EntityOf(w.item)) :
          /\ rows[r].member = w.item[2]
          /\ EntityOf(w.item).planned[rows[r].field] = rows[r].submitted
  BY <1>1, ItemIs, TodoIs
<1>4. used.edits = 0 => \A r \in Writes(EntityOf(w.item)) : Held(rows[r]) = rows[r].submitted
  BY <1>3 DEF Held
<1> QED
  BY <1>1, <1>2, <1>4, RecordingKeeps

LEMMA AttemptReadIsSafe ==
  ASSUME PublicationInv, NEW fails \in BOOLEAN, AttemptRead(fails)
  PROVE  PublicationInv'
<1>1. w.pc = "attempt" /\ w.pc \in AtItem /\ UNCHANGED <<ps, seen, listed, production, pf, used>>
  BY DEF AttemptRead, AtItem
<1>2. CASE w' = Stopped /\ UNCHANGED <<rows, plans>>
  BY <1>1, <1>2, StoppedIsSafe
<1>3. CASE RecordInvalidated(w.item) /\ w' = Left
  BY <1>1, <1>3, InvalidatedIsSafe
<1>4. CASE RecordFailed(w.item, FALSE) /\ w' = Retried
  <2>1. rows' = rows /\ ps' \in [Members -> Records]
    BY <1>1, <1>4 DEF RecordFailed, PublicationInv, Typed
  <2>2. used.edits = 0 => PublishedIsHeld' /\ CaughtUpIsHeld' /\ FoundIsHeld'
    BY <1>1, <2>1, HeldStays
  <2> QED
    BY <1>1, <1>4, <2>1, <2>2, FailingKeeps
<1>5. CASE /\ w' = [w EXCEPT !.pc = "decide", !.fresh = ps[w.item[2]]]
           /\ UNCHANGED <<rows, plans>>
  <2>1. RunOK /\ PutOK /\ w \in RunType /\ ps \in [Members -> Records]
    BY DEF PublicationInv, Typed
  <2>2. w.item \in w.todo /\ w.item[2] \in Members
    BY <1>1, ItemIs, TodoIs
  <2>3. /\ w' \in RunType /\ w'.pc = "decide" /\ w'.plan = w.plan /\ w'.phase = w.phase
        /\ w'.todo = w.todo /\ w'.item = w.item /\ w'.fresh = ps[w.item[2]]
    BY <1>5, <2>1, <2>2 DEF RunType
  <2>4. \A q : Unfinished(q)' = Unfinished(q)
    BY <1>5 DEF Unfinished
  <2>5. RunOK'
    BY <1>1, <1>5, <2>1, <2>3, <2>4 DEF RunOK, AtItem
  <2>6. EntityOf(w.item)' = EntityOf(w.item)
    BY <1>5, <2>3 DEF EntityOf
  <2>7. PutOK'
    BY <1>1, <2>1, <2>3, <2>6 DEF PutOK, WritesApproved, WritesListed
  <2>8. RunKnows'
    BY <1>1, <2>3 DEF RunKnows
  <2> QED
    BY <1>1, <1>5, <2>3, <2>5, <2>7, <2>8, OnlyRun
<1> QED
  BY <1>2, <1>3, <1>4, <1>5 DEF AttemptRead

LEMMA VerifyIsSafe ==
  ASSUME PublicationInv, NEW fails \in BOOLEAN, Verify(fails)
  PROVE  PublicationInv'
<1>1. /\ w.pc = "verify" /\ w.pc \in AtItem
      /\ UNCHANGED <<ps, seen, listed, production, pf, used>>
  BY DEF Verify, AtItem
<1>2. ASSUME NEW mismatch \in BOOLEAN, RecordFailed(w.item, mismatch),
             (w' = Retried /\ ~ mismatch) \/ w' = Left
      PROVE  PublicationInv'
  <2>1. rows' = rows /\ ps' \in [Members -> Records]
    BY <1>1, <1>2 DEF RecordFailed, PublicationInv, Typed
  <2>2. used.edits = 0 => PublishedIsHeld' /\ CaughtUpIsHeld' /\ FoundIsHeld'
    BY <1>1, <2>1, HeldStays
  <2> QED
    BY <1>1, <1>2, <2>1, <2>2, FailingKeeps
<1>3. CASE /\ ps[w.item[2]] = EntityOf(w.item).planned /\ RecordPublished(w.item)
           /\ w' = Left
  BY <1>1, <1>3, PublishedIsSafe
<1> QED
  BY <1>2, <1>3 DEF Verify

LEMMA PublishIsSafe ==
  ASSUME PublicationInv, Publish
  PROVE  PublicationInv'
<1>1. /\ w.pc = "publish" /\ w.pc \in AtItem /\ RecordPublished(w.item) /\ w' = Left
      /\ UNCHANGED <<ps, seen, listed, production, pf, used>>
  BY DEF Publish, AtItem
<1>2. used.edits = 0 => ps[w.item[2]] = EntityOf(w.item).planned
  BY <1>1 DEF PublicationInv, Unedited, RunKnows
<1> QED
  BY <1>1, <1>2, PublishedIsSafe

LEMMA CloseReadIsSafe ==
  ASSUME PublicationInv, NEW fails \in BOOLEAN, CloseRead(fails)
  PROVE  PublicationInv'
<1>1. w.pc = "close" /\ w' = Left /\ UNCHANGED <<ps, seen, listed, production, pf, used>>
  BY DEF CloseRead
<1>2. CASE Landed(w.item, w.whole, ps[w.item[2]]) /\ RecordPublished(w.item)
  BY <1>1, <1>2, PublishedIsSafe DEF Landed
<1>3. CASE RecordInvalidated(w.item)
  BY <1>1, <1>3, InvalidatedIsSafe
<1> QED
  BY <1>2, <1>3 DEF CloseRead

LEMMA ReleaseIsSafe ==
  ASSUME PublicationInv, ReleaseSource
  PROVE  PublicationInv'
<1>1. RunOK /\ w \in RunType /\ w.pc = "release"
  BY DEF PublicationInv, Typed, ReleaseSource
<1>2. UNCHANGED <<rows, plans, ps, seen, listed, production, pf, used>>
  BY DEF ReleaseSource
<1>3. \A q : Unfinished(q)' = Unfinished(q)
  BY <1>2 DEF Unfinished
<1>4. /\ w' \in RunType /\ w'.pc = "finish" /\ w'.plan = w.plan /\ w'.phase = w.phase
      /\ w'.todo = w.todo
  BY <1>1 DEF RunType, ReleaseSource
<1>5. RunOK'
  BY <1>1, <1>2, <1>3, <1>4 DEF RunOK, AtItem
<1> QED
  BY <1>2, <1>4, <1>5, NoPut, OnlyRun DEF AtItem

LEMMA BeginCloseIsSafe ==
  ASSUME PublicationInv, NEW i \in w.todo, BeginClose(i)
  PROVE  PublicationInv'
<1>1. /\ RunOK /\ w \in RunType /\ w.pc = "next" /\ w.phase \in {"sweep", "closing"}
      /\ UNCHANGED <<ps, seen, listed, production, pf, used>>
  BY DEF PublicationInv, Typed, BeginClose
<1>2. CASE AnyQueued(i)
  <2>1. UNCHANGED <<rows, plans>>
    BY <1>2 DEF BeginClose
  <2>2. w' = [w EXCEPT !.item = i, !.pc = "close", !.whole = AllQueued(i)]
    BY <1>2 DEF BeginClose
  <2>3. AllQueued(i) \in BOOLEAN
    BY DEF AllQueued
  <2>4. /\ w' \in RunType /\ w'.pc = "close" /\ w'.plan = w.plan /\ w'.phase = w.phase
        /\ w'.todo = w.todo /\ w'.item = i
    BY <1>1, <2>2, <2>3 DEF RunType
  <2>5. \A q : Unfinished(q)' = Unfinished(q)
    BY <2>1 DEF Unfinished
  <2>6. RunOK'
    BY <1>1, <2>1, <2>4, <2>5 DEF RunOK, AtItem
  <2> QED
    BY <1>1, <2>1, <2>4, <2>6, NoPut, OnlyRun DEF AtItem
<1>3. CASE ~ AnyQueued(i)
  <2>1. RecordInvalidated(i) /\ w' = [w EXCEPT !.todo = @ \ {i}]
    BY <1>3 DEF BeginClose
  <2>2. /\ w' \in RunType /\ w'.pc = "next" /\ w'.plan = w.plan /\ w'.phase = w.phase
        /\ w'.todo = w.todo \ {i}
    BY <1>1, <2>1 DEF RunType
  <2>3. ~ RecordPublished(i)
    BY <1>1, <2>1, OneOutcome
  <2> QED
    BY <1>1, <2>1, <2>2, <2>3, RecordingKeeps
<1> QED
  BY <1>2, <1>3

LEMMA PutIsSafe ==
  ASSUME PublicationInv, NEW applied \in SUBSET Fields, NEW answered \in BOOLEAN,
         Put(applied, answered)
  PROVE  PublicationInv'
<1>1. /\ w.pc = "put" /\ w.pc \in AtItem /\ applied \subseteq Body(w.item)
      /\ Apply(w.item, applied) /\ UNCHANGED <<seen, listed, production, pf, used>>
      /\ rows' = rows
  BY DEF Put, AtItem, RecordFailed
<1>2. ps' \in [Members -> Records]
  BY <1>1, ApplyIs
<1>3. used.edits = 0 => PublishedIsHeld' /\ CaughtUpIsHeld' /\ FoundIsHeld'
  BY <1>1, PutLands
<1>4. CASE answered
  <2>1. w' = [w EXCEPT !.pc = "verify"] /\ plans' = plans
    BY <1>4 DEF Put
  <2>2. RunOK /\ PutOK /\ w \in RunType
    BY DEF PublicationInv, Typed
  <2>3. /\ w' \in RunType /\ w'.pc = "verify" /\ w'.plan = w.plan /\ w'.phase = w.phase
        /\ w'.todo = w.todo /\ w'.item = w.item
    BY <2>1, <2>2 DEF RunType
  <2>4. \A q : Unfinished(q)' = Unfinished(q)
    BY <2>1 DEF Unfinished
  <2>5. RunOK'
    BY <1>1, <2>1, <2>2, <2>3, <2>4 DEF RunOK, AtItem
  <2>6. /\ EntityOf(w.item)' = EntityOf(w.item)
        /\ Writes(EntityOf(w.item))' = Writes(EntityOf(w.item))
    BY <2>1, <2>3 DEF EntityOf, Writes
  <2>7. PutOK'
    BY <1>1, <2>2, <2>3, <2>6 DEF PutOK, WritesApproved, WritesListed
  <2>8. RunKnows'
    BY <2>3 DEF RunKnows
  <2>9. Typed'
    BY <1>1, <1>2, <2>1, <2>3 DEF PublicationInv, Typed
  <2>10. RowsOK' /\ PreflightOK' /\ PlansOK' /\ CompleteIsFinal'
    BY <1>1, <2>1, <2>4 DEF PublicationInv, RowsOK, Latest, SeenAt, PreflightOK, ScopeOK,
                            PlansOK, EntityOK, Writes, CompleteIsFinal
  <2>11. QueuedHasOwner'
    BY <1>1, <2>1, <2>4 DEF PublicationInv, QueuedHasOwner, QueuedByPlan, EntityOf, Writes
  <2> QED
    BY <1>1, <1>3, <2>5, <2>7, <2>8, <2>9, <2>10, <2>11 DEF PublicationInv, Unedited
<1>5. CASE ~ answered
  <2>1. RecordFailed(w.item, FALSE) /\ w' = Retried
    BY <1>5 DEF Put
  <2> QED
    BY <1>1, <1>2, <1>3, <2>1, FailingKeeps
<1> QED
  BY <1>4, <1>5

-----------------------------------------------------------------------------
(* The writes are queued.                                                  *)

\* What the check under the lock says of every change that will be written:
\* it is the newest of its field, open, approved, and ParishSoft's record, just
\* read, is what it may replace.
LEMMA WritesAre ==
  ASSUME PublicationInv, w.pc = "decide", MayWrite(w.item), NEW r \in Writes(EntityOf(w.item))
  PROVE  /\ r \in DOMAIN rows /\ rows[r] \in RowType /\ rows[r].member = w.item[2]
         /\ rows[r].decision = "approved" /\ Latest(r)
         /\ rows[r].execution \in {"pending", "failed", "queued"}
         /\ rows[r].execution = "queued" => QueuedByPlan(w.item, r)
         /\ rows[r].execution # "queued" =>
                rows[r].version = EntityOf(w.item).fields[r].version
         /\ w.fresh[rows[r].field] = Base(rows[r])
         /\ w.fresh[rows[r].field] # rows[r].submitted
<1>1. w.item \in w.todo /\ w.pc # "idle"
  BY ItemIs DEF AtItem
<1>2. /\ w.item \in Items /\ w.item[1] \in DOMAIN plans
      /\ r \in DOMAIN rows /\ rows[r] \in RowType
  BY <1>1, TodoIs
<1>3. Typed /\ PlansOK /\ RowsOK
  BY DEF PublicationInv
<1>4. MatchesConfirmed(w.item, w.fresh)
  BY DEF MayWrite
<1>5. /\ r \in DOMAIN rows /\ rows[r].member = w.item[2]
      /\ rows[r].decision = "approved"
      /\ rows[r].execution \in {"pending", "failed", "queued"}
      /\ rows[r].execution = "queued" => QueuedByPlan(w.item, r)
      /\ rows[r].execution # "queued" =>
             rows[r].version = EntityOf(w.item).fields[r].version
      /\ w.fresh[rows[r].field] = Base(rows[r])
      /\ w.fresh[rows[r].field] # rows[r].submitted
  BY <1>2, <1>3, <1>4, ConfirmedAgain
<1>6. Latest(r)
  BY <1>3, <1>5 DEF RowsOK, Open
<1> QED
  BY <1>2, <1>5, <1>6

\* The rows when the writes of an entity are queued.
Queueing(i) ==
    [r \in DOMAIN rows |->
        IF r \in Writes(EntityOf(i)) /\ rows[r].execution # "queued"
        THEN [rows[r] EXCEPT !.execution = "queued", !.version = @ + 1]
        ELSE rows[r]]

LEMMA QueueingIsSafe ==
  ASSUME PublicationInv, w.pc = "decide", MayWrite(w.item), Listed(w.item),
         rows' = Queueing(w.item),
         w' = [w EXCEPT !.pc = "put"],
         UNCHANGED <<plans, ps, seen, listed, production, pf, used>>
  PROVE  PublicationInv'
<1> DEFINE ours == Writes(EntityOf(w.item))
<1>0. /\ Typed /\ RowsOK /\ PlansOK /\ PreflightOK /\ RunOK /\ PutOK /\ QueuedHasOwner
      /\ CompleteIsFinal /\ w \in RunType
  BY DEF PublicationInv, Typed
<1>1. w.item \in w.todo /\ w.pc # "idle"
  BY ItemIs DEF AtItem
<1>2. \A r \in ours :
         /\ r \in DOMAIN rows /\ rows[r] \in RowType /\ rows[r].member = w.item[2]
         /\ rows[r].decision = "approved" /\ Latest(r)
         /\ rows[r].execution \in {"pending", "failed", "queued"}
         /\ rows[r].execution # "queued" =>
                rows[r].version = EntityOf(w.item).fields[r].version
         /\ w.fresh[rows[r].field] = Base(rows[r])
         /\ w.fresh[rows[r].field] # rows[r].submitted
  BY WritesAre
<1>3. /\ DOMAIN rows' = DOMAIN rows /\ rows' = [r \in DOMAIN rows |-> rows'[r]]
  BY Zenon DEF Queueing
<1>4. \A r \in DOMAIN rows :
         rows'[r] = IF r \in ours /\ rows[r].execution # "queued"
                    THEN MovedTo(rows[r], "queued") ELSE rows[r]
  BY Zenon DEF MovedTo, Queueing
<1>5. /\ w' \in RunType /\ w'.pc = "put" /\ w'.plan = w.plan /\ w'.phase = w.phase
      /\ w'.todo = w.todo /\ w'.item = w.item /\ w'.fresh = w.fresh
  BY <1>0 DEF RunType
<1> HIDE DEF ours
<1>6. \A r \in DOMAIN rows :
         /\ RowStep(rows[r], rows'[r])
         /\ rows'[r].current = rows[r].current /\ rows'[r].accepted = rows[r].accepted
         /\ rows'[r].decision = rows[r].decision
         /\ r \in ours => rows'[r].execution = "queued"
         /\ r \notin ours \/ rows[r].execution = "queued" => rows'[r] = rows[r]
         /\ r \in ours /\ rows[r].execution # "queued" => rows'[r].version = rows[r].version + 1
  <2> TAKE r \in DOMAIN rows
  <2>1. rows[r] \in RowType /\ "queued" \in Executions
    BY <1>0, RowsAre DEF Executions, Open
  <2> QED
    BY <1>4, <2>1, RowMovesTo, RowStays
<1>7. RowsStep
  BY <1>0, <1>3, <1>6, RowsInPlace DEF RowsStep
<1>8. \A r \in DOMAIN rows :
         /\ rows'[r].member = rows[r].member /\ rows'[r].field = rows[r].field
         /\ rows'[r].submitted = rows[r].submitted /\ rows'[r].baseline = rows[r].baseline
  BY <1>6 DEF RowStep, SameField
<1>9. \A r \in DOMAIN rows : Latest(r)' <=> Latest(r)
  BY <1>0, <1>3, <1>7, LatestStays
<1>10. \A q : Unfinished(q)' = Unfinished(q)
  BY DEF Unfinished
<1>11. EntityOf(w.item)' = EntityOf(w.item) /\ Writes(EntityOf(w.item))' = ours
  BY <1>5 DEF EntityOf, Writes, ours
<1>12. Typed'
  BY <1>0, <1>5, <1>7 DEF Typed, RowsStep
<1>13. \A r \in DOMAIN rows :
          /\ rows'[r].execution \in Open => rows[r].execution \in Open
          /\ rows'[r].execution \in {"pending", "failed", "queued"} =>
                 rows[r].execution \in {"pending", "failed", "queued"}
  BY <1>2, <1>6 DEF Open
<1>14. RowsOK'
  <2> SUFFICES ASSUME NEW q \in DOMAIN rows
               PROVE  /\ rows'[q].execution \in Open => Latest(q)'
                      /\ rows'[q].execution \in Open /\ rows'[q].member \in listed =>
                             rows'[q].current = seen[rows'[q].member][rows'[q].field]
                      /\ rows'[q].execution \in {"pending", "failed", "queued"}
                            /\ ~ rows'[q].accepted =>
                             rows'[q].current \in {rows'[q].submitted, rows'[q].baseline}
    BY <1>3 DEF RowsOK, SeenAt
  <2> QED
    BY <1>0, <1>6, <1>8, <1>9, <1>13 DEF RowsOK, SeenAt
<1>15. PlansOK'
  <2>1. PlansStep
    BY <1>0 DEF PlansStep, Typed
  <2> QED
    BY <1>0, <1>7, <2>1, PlansKept DEF PlansOK
<1>16. PreflightOK'
  BY <1>0, <1>7, ScopeKept DEF PreflightOK
<1>17. RunOK' /\ CompleteIsFinal'
  BY <1>0, <1>5, <1>10 DEF RunOK, AtItem, CompleteIsFinal
<1>18. PutOK'
  <2>1. ~ EntityOf(w.item)'.mismatch
    BY <1>0, <1>11 DEF PutOK, AtItem
  <2>2. w.item[2] \in listed /\ w.fresh = EntityOf(w.item).read
    BY DEF Listed, MayWrite
  <2>3. ASSUME NEW r \in ours
        PROVE  /\ rows'[r].execution = "queued" /\ rows'[r].decision = "approved"
               /\ w.fresh[rows'[r].field] = Base(rows'[r])
               /\ ~ \E q \in DOMAIN rows' : q > r /\ SameField(rows'[q], rows'[r])
    <3>1. r \in DOMAIN rows /\ Latest(r)'
      BY <1>2, <1>9
    <3>2. Base(rows'[r]) = Base(rows[r])
      BY <1>6, <1>8, <3>1 DEF Base
    <3> QED
      BY <1>2, <1>6, <1>8, <3>1, <3>2 DEF Latest, SameField
  <2>4. WritesApproved' /\ WritesListed'
    BY <1>5, <1>11, <2>2, <2>3 DEF WritesApproved, WritesListed
  <2> QED
    BY <1>5, <1>11, <2>1, <2>2, <2>3, <2>4 DEF PutOK, Base
<1>19. QueuedHasOwner'
  <2> SUFFICES ASSUME NEW r \in DOMAIN rows, rows'[r].execution = "queued"
               PROVE  \E q \in DOMAIN plans : \E j \in Unfinished(q)' :
                          plans[q].confirmed /\ QueuedByPlan(j, r)'
    BY <1>3 DEF QueuedHasOwner
  <2>1. CASE rows[r].execution = "queued"
    <3>1. PICK q \in DOMAIN plans : \E j \in Unfinished(q) :
              plans[q].confirmed /\ QueuedByPlan(j, r)
      BY <1>0, <2>1 DEF QueuedHasOwner
    <3>2. PICK j \in Unfinished(q) : plans[q].confirmed /\ QueuedByPlan(j, r)
      BY <3>1
    <3>3. rows'[r] = rows[r]
      BY <1>6, <2>1
    <3>4. QueuedByPlan(j, r)'
      BY <3>2, <3>3 DEF QueuedByPlan, EntityOf, Writes
    <3> QED
      BY <1>10, <3>2, <3>4
  <2>2. CASE rows[r].execution # "queued"
    <3>1. r \in ours /\ rows'[r].version = rows[r].version + 1
      BY <1>6, <2>2
    <3>2. rows[r].version = EntityOf(w.item).fields[r].version
      BY <1>2, <2>2, <3>1
    <3>3. /\ w.item[1] \in DOMAIN plans /\ plans[w.item[1]].confirmed
          /\ w.item \in Unfinished(w.item[1])
      BY <1>0, <1>1 DEF RunOK
    <3>4. PICK i : i = w.item
      OBVIOUS
    <3> DEFINE fields == plans[i[1]].entities[i[2]].fields
    <3>5. /\ r \in DOMAIN fields /\ fields[r].outcome = "write"
          /\ rows'[r].version = fields[r].version + 1
      BY <3>1, <3>2, <3>4 DEF ours, Writes, EntityOf
    <3>6. fields = plans'[i[1]].entities[i[2]].fields
      OBVIOUS
    <3> HIDE DEF fields
    <3>7. QueuedByPlan(i, r)'
      BY <3>5, <3>6 DEF QueuedByPlan, EntityOf, Writes
    <3> QED
      BY <1>10, <3>3, <3>4, <3>7
  <2> QED
    BY <2>1, <2>2
<1>20. ASSUME used.edits = 0
       PROVE  PublishedIsHeld' /\ CaughtUpIsHeld' /\ FoundIsHeld' /\ RunKnows'
  <2>1. PublishedIsHeld /\ CaughtUpIsHeld /\ FoundIsHeld /\ RunKnows
    BY <1>20 DEF PublicationInv, Unedited
  <2>2. PublishedIsHeld'
    <3> SUFFICES ASSUME NEW r \in DOMAIN rows, rows'[r].execution = "published", Latest(r)'
                 PROVE  ps[rows'[r].member][rows'[r].field] = rows'[r].submitted
      BY <1>3 DEF PublishedIsHeld
    <3>1. rows'[r] = rows[r] /\ Latest(r)
      BY <1>6, <1>9
    <3> QED
      BY <1>20, <2>1, <3>1 DEF PublishedIsHeld
  <2>3. CaughtUpIsHeld'
    <3> SUFFICES ASSUME NEW r \in DOMAIN rows, rows'[r].execution \in Open,
                        rows'[r].current = rows'[r].submitted
                 PROVE  ps[rows'[r].member][rows'[r].field] = rows'[r].submitted
      BY <1>3 DEF CaughtUpIsHeld, Held
    <3> QED
      BY <1>6, <1>8, <1>13, <2>1 DEF CaughtUpIsHeld, Held
  <2>4. FoundIsHeld'
    BY <1>0, <1>7, <2>1, FoundStays
  <2>5. w.fresh = ps[w.item[2]]
    BY <2>1 DEF RunKnows
  <2>6. ASSUME NEW r \in ours
        PROVE  ps[rows'[r].member][rows'[r].field] = seen[rows'[r].member][rows'[r].field]
    <3>1. r \in DOMAIN rows /\ rows[r].member = w.item[2] /\ rows[r].member \in listed
      BY <1>2 DEF Listed
    <3>2. Held(rows[r]) = Base(rows[r]) /\ Held(rows[r]) # rows[r].submitted
      BY <1>2, <2>5, <3>1 DEF Held
    <3>3. rows[r].execution \in Open
      BY <1>2 DEF Open
    <3>4. rows[r].current = SeenAt(rows[r]) /\ rows[r].current # rows[r].submitted
      BY <1>0, <2>1, <3>1, <3>2, <3>3 DEF RowsOK, CaughtUpIsHeld
    <3>5. Base(rows[r]) = rows[r].current
      BY <1>0, <1>2, <3>1, <3>4 DEF RowsOK, Base
    <3> QED
      BY <1>8, <3>1, <3>2, <3>4, <3>5 DEF Held, SeenAt
  <2>7. RunKnows'
    BY <1>5, <1>11, <2>5, <2>6 DEF RunKnows, Held, SeenAt
  <2> QED
    BY <2>2, <2>3, <2>4, <2>7
<1> QED
  BY <1>12, <1>14, <1>15, <1>16, <1>17, <1>18, <1>19, <1>20 DEF PublicationInv, Unedited

LEMMA DecideIsSafe ==
  ASSUME PublicationInv, Decide
  PROVE  PublicationInv'
<1>1. /\ w.pc = "decide" /\ w.pc \in AtItem
      /\ UNCHANGED <<ps, seen, listed, production, pf, used>>
  BY Zenon DEF Decide, AtItem
<1>2. CASE /\ Landed(w.item, AllQueued(w.item), w.fresh) /\ w' = [w EXCEPT !.pc = "publish"]
           /\ UNCHANGED <<rows, plans>>
  <2>1. RunOK /\ PutOK /\ w \in RunType
    BY DEF PublicationInv, Typed
  <2>2. /\ w' \in RunType /\ w'.pc = "publish" /\ w'.plan = w.plan /\ w'.phase = w.phase
        /\ w'.todo = w.todo /\ w'.item = w.item /\ w'.fresh = w.fresh
    BY <1>2, <2>1 DEF RunType
  <2>3. \A q : Unfinished(q)' = Unfinished(q)
    BY <1>2 DEF Unfinished
  <2>4. RunOK'
    BY <1>1, <1>2, <2>1, <2>2, <2>3 DEF RunOK, AtItem
  <2>5. EntityOf(w.item)' = EntityOf(w.item)
    BY <1>2, <2>2 DEF EntityOf
  <2>6. PutOK'
    BY <1>1, <2>1, <2>2, <2>5 DEF PutOK, WritesApproved, WritesListed
  <2>7. used.edits = 0 => RunKnows'
    <3>1. w.fresh = EntityOf(w.item).planned
      BY <1>2 DEF Landed
    <3>2. used.edits = 0 => w.fresh = ps[w.item[2]]
      BY <1>1 DEF PublicationInv, Unedited, RunKnows
    <3> QED
      BY <1>1, <2>2, <2>5, <3>1, <3>2 DEF RunKnows
  <2> QED
    BY <1>1, <1>2, <2>2, <2>4, <2>6, <2>7, OnlyRun
<1>3. CASE RecordInvalidated(w.item) /\ w' = Left
  BY <1>1, <1>3, InvalidatedIsSafe
<1>4. CASE w' = Stopped /\ UNCHANGED <<rows, plans>>
  BY <1>1, <1>4, StoppedIsSafe
<1>5. CASE /\ MayWrite(w.item) /\ Listed(w.item)
           /\ rows' = Queueing(w.item)
           /\ w' = [w EXCEPT !.pc = "put"]
           /\ UNCHANGED plans
  BY <1>1, <1>5, QueueingIsSafe, Zenon
<1> QED
  BY <1>2, <1>3, <1>4, <1>5, Zenon DEF Decide, Queueing

-----------------------------------------------------------------------------
(* Every step.                                                             *)

LEMMA StutterIsSafe ==
  ASSUME PublicationInv, UNCHANGED vars
  PROVE  PublicationInv'
<1>1. UNCHANGED <<rows, plans, ps, seen, listed, production, pf, used>> /\ w' = w
  BY DEF vars
<1>2. w' \in RunType
  BY <1>1 DEF PublicationInv, Typed
<1>3. RunOK'
  BY <1>1 DEF PublicationInv, RunOK, Unfinished
<1>4. /\ EntityOf(w.item)' = EntityOf(w.item)
      /\ Writes(EntityOf(w.item))' = Writes(EntityOf(w.item))
  BY <1>1 DEF EntityOf, Writes
<1>5. PutOK'
  BY <1>1, <1>4 DEF PublicationInv, PutOK, WritesApproved, WritesListed, SeenAt
<1>6. used.edits = 0 => RunKnows'
  BY <1>1, <1>4 DEF PublicationInv, Unedited, RunKnows, Held, SeenAt
<1> QED
  BY <1>1, <1>2, <1>3, <1>5, <1>6, OnlyRun

LEMMA RunStepIsSafe ==
  ASSUME PublicationInv, RunStep
  PROVE  PublicationInv'
<1>1. CASE \E i \in w.todo : TakeEntity(i) \/ BeginClose(i)
  BY <1>1, TakeIsSafe, BeginCloseIsSafe, Zenon
<1>2. CASE \E fails \in BOOLEAN : AttemptRead(fails) \/ Verify(fails) \/ CloseRead(fails)
  BY <1>2, AttemptReadIsSafe, VerifyIsSafe, CloseReadIsSafe, Zenon
<1>3. CASE \E applied \in SUBSET Fields, answered \in BOOLEAN : Put(applied, answered)
  BY <1>3, PutIsSafe, Zenon
<1>4. CASE \E admitted \in BOOLEAN : Finish(admitted)
  BY <1>4, FinishIsSafe, Zenon
<1>5. CASE NextPhase \/ Decide \/ Publish \/ ReleaseSource
  BY <1>5, NextPhaseIsSafe, DecideIsSafe, PublishIsSafe, ReleaseIsSafe, Zenon
<1> QED
  BY <1>1, <1>2, <1>3, <1>4, <1>5, Zenon DEF RunStep

LEMMA NextIsSafe ==
  ASSUME PublicationInv, [Next]_vars
  PROVE  PublicationInv'
<1>1. CASE RunStep
  BY <1>1, RunStepIsSafe, Zenon
<1>2. CASE \E p \in DOMAIN plans :
              PlanStep(p) \/ Confirm(p) \/ Expire(p) \/ Rerun(p) \/ StartBusy(p)
  BY <1>2, StartIsSafe, PlanStepsAreSafe, Zenon DEF PlanStep
<1>3. CASE \E applied \in SUBSET Fields : Crash(applied)
  BY <1>3, CrashIsSafe, Zenon
<1>4. CASE StartPreflight \/ RecordPlan \/ LosePreflight
  BY <1>4, StartPreflightIsSafe, RecordPlanIsSafe, LoseIsSafe, Zenon
<1>5. CASE \E unread \in SUBSET Members : ReadMembers(unread)
  BY <1>5, ReadIsSafe, Zenon
<1>6. CASE \E m \in Members, f \in Fields, v \in Values :
              FamilyAnswers(m, f, v) \/ EditParishSoft(m, f, v)
  BY <1>6, FamilyIsSafe, EditIsSafe, Zenon
<1>7. CASE \E r \in DOMAIN rows :
              AcceptConflict(r) \/ \E d \in {"approved", "unreviewed"} : Review(r, d)
  BY <1>7, AcceptIsSafe, ReviewIsSafe, Zenon
<1>8. CASE \E here \in (IF MayLeave THEN SUBSET Members ELSE {Members}) : Refresh(here)
  <2>1. PICK here \in (IF MayLeave THEN SUBSET Members ELSE {Members}) : Refresh(here)
    BY <1>8, Zenon
  <2>2. here \in SUBSET Members
    <3>1. \A x \in (IF MayLeave THEN SUBSET Members ELSE {Members}) : x \in SUBSET Members
      OBVIOUS
    <3> QED
      BY <3>1, Zenon
  <2> QED
    BY <2>1, <2>2, RefreshIsSafe, Zenon
<1>9. CASE SwitchMode
  BY <1>9, SwitchIsSafe, Zenon
<1>10. CASE UNCHANGED vars
  BY <1>10, StutterIsSafe, Zenon
<1> QED
  BY <1>1, <1>2, <1>3, <1>4, <1>5, <1>6, <1>7, <1>8, <1>9, <1>10, Zenon DEF Next

\* The invariant says what PublicationSafe says.
LEMMA InvIsSafe ==
  ASSUME PublicationInv
  PROVE  PublicationSafe
<1>1. Typed /\ RowsOK /\ PutOK /\ QueuedHasOwner /\ CompleteIsFinal
  BY DEF PublicationInv
<1>2. PublicationTypeOK
  <2>1. ASSUME NEW p \in DOMAIN plans, NEW m \in Members
        PROVE  LET e == plans[p].entities[m] IN
               /\ e.read \in Records \cup {Nothing} /\ e.planned \in Records \cup {Nothing}
               /\ e.result \in Final \cup {None}
               /\ \A r \in DOMAIN e.fields : e.fields[r].outcome \in Outcomes
    <3> DEFINE e == plans[p].entities[m]
    <3>1. e \in EntityType
      BY <1>1, RowsAre DEF PlanType
    <3> HIDE DEF e
    <3>2. /\ e.read \in Records \cup {Nothing} /\ e.planned \in Records \cup {Nothing}
          /\ e.result \in Final \cup {None} /\ e.fields \in FieldPlans
      BY <3>1 DEF EntityType
    <3>3. \A r \in DOMAIN e.fields : e.fields[r].outcome \in Outcomes
      BY <3>2 DEF FieldPlans
    <3> QED
      BY <3>2, <3>3 DEF e
  <2>2. w.todo \subseteq Items /\ w.tries \in 0 .. Attempts - 1
    BY <1>1 DEF Typed, RunType
  <2> QED
    BY <1>1, <2>1, <2>2 DEF PublicationTypeOK, Typed
<1>3. PublishedIsHeld
  BY DEF PublicationInv, Unedited, PublishedIsHeld
<1>4. WritesOnce
  BY DEF PublicationInv, Unedited, RunKnows, PutOK, WritesOnce
<1>5. OneOpenChange
  <2>1. \A r \in DOMAIN rows : r \in Nat
    BY <1>1, RowsAre
  <2> SUFFICES ASSUME NEW r \in DOMAIN rows, NEW q \in DOMAIN rows, r # q,
                      rows[r].member = rows[q].member, rows[r].field = rows[q].field,
                      rows[r].execution \in Open, rows[q].execution \in Open
               PROVE  FALSE
    BY DEF OneOpenChange
  <2>2. Latest(r) /\ Latest(q)
    BY <1>1 DEF RowsOK
  <2>3. r > q \/ q > r
    BY <2>1
  <2> QED
    BY <2>2, <2>3 DEF Latest
<1> QED
  BY <1>1, <1>2, <1>3, <1>4, <1>5 DEF PublicationSafe, PutOK

\* PublicationSafe holds in every state: what reaches ParishSoft was approved,
\* is of a listed Member and reaches it once; what is shown as Updated in
\* ParishSoft is there while nobody edits it; no field has two open changes; a
\* queued change has a confirmed, unfinished entity that will settle it; and a
\* run reported complete left nothing of its plan unfinished
\* (publication_worker.py, publication_plans.py, reconciliation.py).
THEOREM PublicationIsSafe == Spec => []PublicationSafe
<1>1. Init => PublicationInv
  BY InitIsSafe
<1>2. PublicationInv /\ [Next]_vars => PublicationInv'
  BY NextIsSafe
<1>3. PublicationInv => PublicationSafe
  BY InvIsSafe
<1> QED
  BY <1>1, <1>2, <1>3, PTL DEF Spec

-----------------------------------------------------------------------------
(* What a step may never do.                                               *)

\* Only a PUT and an edit by hand change what ParishSoft holds.
LEMMA OnlyPuts ==
  ASSUME PublicationInv, [Next]_vars, used'.edits = used.edits
  PROVE  \/ ps' = ps
         \/ /\ w.pc = "put"
            /\ \E applied \in SUBSET Fields :
                  applied \subseteq Body(w.item) /\ Apply(w.item, applied)
<1>1. CASE RunStep
  <2>1. CASE \E applied \in SUBSET Fields, answered \in BOOLEAN : Put(applied, answered)
    BY <2>1, Zenon DEF Put
  <2>2. CASE \/ NextPhase \/ Decide \/ Publish \/ ReleaseSource
             \/ \E i \in w.todo : TakeEntity(i) \/ BeginClose(i)
             \/ \E fails \in BOOLEAN : AttemptRead(fails) \/ Verify(fails) \/ CloseRead(fails)
             \/ \E admitted \in BOOLEAN : Finish(admitted)
    BY <2>2, Zenon DEF NextPhase, Decide, Publish, ReleaseSource, TakeEntity, BeginClose,
                       AttemptRead, Verify, CloseRead, Finish
  <2> QED
    BY <1>1, <2>1, <2>2, Zenon DEF RunStep
<1>2. CASE \E applied \in SUBSET Fields : Crash(applied)
  BY <1>2 DEF Crash
<1>3. CASE \E m \in Members, f \in Fields, v \in Values :
              FamilyAnswers(m, f, v) \/ EditParishSoft(m, f, v)
  <2>1. PICK m \in Members, f \in Fields, v \in Values :
            FamilyAnswers(m, f, v) \/ EditParishSoft(m, f, v)
    BY <1>3, Zenon
  <2>2. CASE FamilyAnswers(m, f, v)
    BY <2>2, Zenon DEF FamilyAnswers
  <2>3. CASE EditParishSoft(m, f, v)
    <3>1. used'.edits = used.edits + 1 /\ used.edits \in Nat
      BY <2>3 DEF EditParishSoft, PublicationInv, Typed
    <3> QED
      BY <3>1
  <2> QED
    BY <2>1, <2>2, <2>3
<1>4. CASE \/ \E p \in DOMAIN plans :
                 PlanStep(p) \/ Confirm(p) \/ Expire(p) \/ Rerun(p) \/ StartBusy(p)
           \/ StartPreflight \/ RecordPlan \/ LosePreflight
           \/ \E unread \in SUBSET Members : ReadMembers(unread)
  BY <1>4, Zenon DEF PlanStep, Start, StartBusy, Refuse, Recover, Confirm, Expire, Rerun,
                     StartPreflight, RecordPlan, LosePreflight, ReadMembers
<1>5. CASE \/ \E r \in DOMAIN rows :
                 AcceptConflict(r) \/ \E d \in {"approved", "unreviewed"} : Review(r, d)
           \/ \E here \in (IF MayLeave THEN SUBSET Members ELSE {Members}) : Refresh(here)
           \/ SwitchMode
  BY <1>5, Zenon DEF AcceptConflict, Review, Refresh, SwitchMode
<1>6. CASE UNCHANGED vars
  BY <1>6 DEF vars
<1> QED
  BY <1>1, <1>2, <1>3, <1>4, <1>5, <1>6, Zenon DEF Next

\* A PUT is only ever sent after the check under the lock.
LEMMA OnlyDecided ==
  ASSUME PublicationInv, [Next]_vars, w'.pc = "put", w.pc # "put"
  PROVE  w.pc = "decide" /\ MayWrite(w.item) /\ w'.item = w.item
<1>0. w \in RunType
  BY DEF PublicationInv, Typed
<1>1. Left.pc = "next" /\ Stopped.pc = "next" /\ Retried.pc \in {"attempt", "next"}
  <2>1. Left.pc = "next"
    BY <1>0 DEF Left, RunType
  <2>2. Stopped.pc = "next"
    BY <1>0 DEF Left, Stopped, RunType
  <2>3. Retried.pc \in {"attempt", "next"}
    BY <1>0, <2>1 DEF Retried, RunType
  <2> QED
    BY <2>1, <2>2, <2>3
<1>2. CASE Decide
  <2>1. CASE w' = [w EXCEPT !.pc = "publish"]
    BY <1>0, <2>1 DEF RunType
  <2>2. CASE w' = Left \/ w' = Stopped
    BY <1>1, <2>2
  <2>3. CASE w.pc = "decide" /\ MayWrite(w.item) /\ w' = [w EXCEPT !.pc = "put"]
    BY <1>0, <2>3 DEF RunType
  <2> QED
    BY <1>2, <2>1, <2>2, <2>3, Zenon DEF Decide
<1>3. CASE \E i \in w.todo : TakeEntity(i) \/ BeginClose(i)
  <2>1. PICK i \in w.todo : \/ w' = [w EXCEPT !.todo = @ \ {i}]
                            \/ w' = [w EXCEPT !.item = i, !.pc = "attempt"]
                            \/ w' = [w EXCEPT !.item = i, !.pc = "close", !.whole = AllQueued(i)]
    BY <1>3, Zenon DEF TakeEntity, BeginClose
  <2> QED
    BY <1>0, <2>1 DEF RunType
<1>4. CASE NextPhase \/ ReleaseSource
  <2>1. \/ w' = [w EXCEPT !.pc = "release"]
        \/ w' = [w EXCEPT !.pc = "finish"]
        \/ w' = [w EXCEPT !.phase = IF @ = "sweep" THEN "attempts" ELSE "closing",
                          !.todo = Unfinished(w.plan)]
    BY <1>4, Zenon DEF NextPhase, ReleaseSource
  <2> QED
    BY <1>0, <2>1 DEF RunType
<1>5. CASE \E fails \in BOOLEAN : AttemptRead(fails) \/ Verify(fails) \/ CloseRead(fails)
  <2>1. \/ w' = Left \/ w' = Stopped \/ w' = Retried
        \/ w' = [w EXCEPT !.pc = "decide", !.fresh = ps[w.item[2]]]
    BY <1>5, Zenon DEF AttemptRead, Verify, CloseRead
  <2> QED
    BY <1>0, <1>1, <2>1 DEF RunType
<1>6. CASE \/ Publish
           \/ \E applied \in SUBSET Fields, answered \in BOOLEAN : Put(applied, answered)
  BY <1>1, <1>6 DEF Publish, Put
<1>7. CASE \/ \E admitted \in BOOLEAN : Finish(admitted)
           \/ \E applied \in SUBSET Fields : Crash(applied)
  <2>1. w' = NoRun
    BY <1>7, Zenon DEF Finish, Crash
  <2> QED
    BY <2>1, NoRunIs
<1>8. CASE \E p \in DOMAIN plans :
              PlanStep(p) \/ Confirm(p) \/ Expire(p) \/ Rerun(p) \/ StartBusy(p)
  <2>1. PICK p \in DOMAIN plans : PlanStep(p) \/ Confirm(p) \/ Expire(p) \/ Rerun(p) \/ StartBusy(p)
    BY <1>8, Zenon
  <2>2. CASE Start(p)
    BY <2>2, NoRunIs DEF Start, RunType
  <2> QED
    BY <2>1, <2>2, Zenon DEF PlanStep, StartBusy, Refuse, Recover, Confirm, Expire, Rerun
<1>9. CASE \/ StartPreflight \/ RecordPlan \/ LosePreflight
           \/ \E unread \in SUBSET Members : ReadMembers(unread)
           \/ \E m \in Members, f \in Fields, v \in Values :
                 FamilyAnswers(m, f, v) \/ EditParishSoft(m, f, v)
           \/ \E r \in DOMAIN rows :
                 AcceptConflict(r) \/ \E d \in {"approved", "unreviewed"} : Review(r, d)
           \/ \E here \in (IF MayLeave THEN SUBSET Members ELSE {Members}) : Refresh(here)
           \/ SwitchMode
  <2>1. w' = w
    BY <1>9, Zenon DEF StartPreflight, RecordPlan, LosePreflight, ReadMembers, FamilyAnswers,
                       EditParishSoft, AcceptConflict, Review, Refresh, SwitchMode
  <2> QED
    BY <2>1
<1>10. CASE UNCHANGED vars
  BY <1>10 DEF vars
<1> QED
  BY <1>2, <1>3, <1>4, <1>5, <1>6, <1>7, <1>8, <1>9, <1>10, Zenon DEF Next, RunStep

\* WritesSafe holds of every step: a PUT changes only fields its plan writes,
\* and only from the value the Family answered against or a reviewer accepted;
\* it starts from the newest answers, open and approved right then; and once
\* one was read back as something else, none of its entity is sent again
\* (publication_worker.py).
THEOREM WritesAreSafe == Spec => WritesSafe
<1>1. ASSUME PublicationInv, [Next]_vars, NEW m \in Members, NEW f \in Fields,
             used'.edits = used.edits, ps'[m][f] # ps[m][f]
      PROVE  /\ w.item[2] = m
             /\ \E r \in Writes(EntityOf(w.item)) : rows[r].field = f
             /\ ps[m][f] = w.fresh[f] =>
                   \E r \in Writes(EntityOf(w.item)) :
                       rows[r].field = f /\ ps[m][f] = Base(rows[r])
  <2>1. PICK applied \in SUBSET Fields :
            w.pc = "put" /\ applied \subseteq Body(w.item) /\ Apply(w.item, applied)
    BY <1>1, OnlyPuts
  <2>2. m = w.item[2] /\ \E q \in Writes(EntityOf(w.item)) : rows[q].field = f
    BY <1>1, <2>1, ApplyIs
  <2>3. \A q \in Writes(EntityOf(w.item)) : w.fresh[rows[q].field] = Base(rows[q])
    BY <1>1, <2>1 DEF PublicationInv, PutOK
  <2> QED
    BY <2>2, <2>3
<1>2. ASSUME PublicationInv, [Next]_vars, w'.pc = "put"
      PROVE  ~ plans'[w'.item[1]].entities[w'.item[2]].mismatch
  <2>1. PublicationInv'
    BY <1>2, NextIsSafe
  <2>2. PutOK'
    BY <2>1 DEF PublicationInv
  <2> QED
    BY <1>2, <2>2 DEF PutOK, AtItem, EntityOf
<1>3. ASSUME PublicationInv, [Next]_vars, w'.pc = "put", w.pc # "put",
             NEW r \in Writes(EntityOf(w'.item))
      PROVE  /\ Latest(r) /\ rows[r].decision = "approved"
             /\ rows[r].execution \in {"pending", "failed", "queued"}
  <2>1. w.pc = "decide" /\ MayWrite(w.item) /\ w'.item = w.item
    BY <1>3, OnlyDecided
  <2>2. r \in Writes(EntityOf(w.item))
    BY <1>3, <2>1
  <2> QED
    BY <1>3, <2>1, <2>2, WritesAre
<1>4. PublicationInv /\ [Next]_vars =>
         [\A m \in Members, f \in Fields :
             used'.edits = used.edits /\ ps'[m][f] # ps[m][f] =>
                 /\ w.item[2] = m
                 /\ \E r \in Writes(EntityOf(w.item)) : rows[r].field = f]_vars
  BY <1>1
<1>5. PublicationInv /\ [Next]_vars =>
         [w'.pc = "put" => ~ plans'[w'.item[1]].entities[w'.item[2]].mismatch]_vars
  BY <1>2
<1>6. PublicationInv /\ [Next]_vars =>
         [w'.pc = "put" /\ w.pc # "put" =>
             \A r \in Writes(EntityOf(w'.item)) :
                 Latest(r) /\ rows[r].decision = "approved"
                           /\ rows[r].execution \in {"pending", "failed", "queued"}]_vars
  BY <1>3
<1>7. PublicationInv /\ [Next]_vars =>
         [\A m \in Members, f \in Fields :
             /\ used'.edits = used.edits /\ ps'[m][f] # ps[m][f]
             /\ ps[m][f] = w.fresh[f]
             => \E r \in Writes(EntityOf(w.item)) :
                    rows[r].field = f /\ ps[m][f] = Base(rows[r])]_vars
  BY <1>1
<1>8. Init => PublicationInv
  BY InitIsSafe
<1>9. PublicationInv /\ [Next]_vars => PublicationInv'
  BY NextIsSafe
<1> QED
  BY <1>4, <1>5, <1>6, <1>7, <1>8, <1>9, PTL
     DEF Spec, WritesSafe, OthersKept, MismatchIsLast, NewestIsWritten, NoBlindOverwrite

=============================================================================
