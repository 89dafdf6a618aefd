---------------------------- MODULE MCProduction ----------------------------
(* Small instances of the publication of Family changes and of a           *)
(* campaign's way to Production for TLC.  They share no variable, so each  *)
(* is run beside a state of the other in which nothing moves.  Each part   *)
(* of the publication bounds a behaviour more tightly than the constants   *)
(* do, and lets one kind of trouble grow.                                  *)
EXTENDS Publication, GoLive

CONSTANT OneField   \* the field the parts with one field use

VARIABLE part   \* whose steps this behaviour takes, and within which bounds

Parts ==
    [fields |-> [fields |-> Fields, values |-> {0, 1}, rows |-> 2, again |-> FALSE,
                 plans |-> 1, reviews |-> 1, edits |-> 1, switches |-> 0],
     answers |-> [fields |-> {OneField}, values |-> {0, 1}, rows |-> 2, again |-> TRUE,
                  plans |-> 1, reviews |-> 1, edits |-> 1, switches |-> 0],
     plans |-> [fields |-> {OneField}, values |-> {0, 1}, rows |-> 1, again |-> TRUE,
                plans |-> 2, reviews |-> 1, edits |-> 0, switches |-> 0],
     values |-> [fields |-> {OneField}, values |-> {0, 1, 2}, rows |-> 1, again |-> TRUE,
                 plans |-> 1, reviews |-> 4, edits |-> 1, switches |-> 0],
     modes |-> [fields |-> {OneField}, values |-> {0, 1}, rows |-> 1, again |-> TRUE,
                plans |-> 1, reviews |-> 1, edits |-> 1, switches |-> 1]]

\* A reviewer decides the row in this step.
Reviewed(r) ==
    /\ rows[r].execution \in Plannable /\ rows'[r].current = rows[r].current
    /\ <<rows'[r].decision, rows'[r].accepted>> # <<rows[r].decision, rows[r].accepted>>

Within(b) ==
    /\ Len(rows') <= b.rows /\ Len(plans') <= b.plans
    /\ pf'.on => Len(plans') < b.plans
    /\ used'.switches <= b.switches /\ used'.edits <= b.edits
    /\ part = "fields" => used'.edits + used'.crashes <= 1
    /\ listed' = Members \/ part = "modes"
    /\ b.again \/ \A r \in DOMAIN rows' : \A q \in 1 .. r - 1 : rows'[q].field # rows'[r].field
    /\ \A r \in DOMAIN rows' : rows'[r].field \in b.fields /\ rows'[r].submitted \in b.values
    /\ \A m \in Members, f \in Fields :
          IF f \in b.fields THEN ps'[m][f] \in b.values ELSE ps'[m][f] = First
    /\ \A r \in DOMAIN rows : Reviewed(r) => rows[r].version <= b.reviews

\* A go-live stopped before its cleanup began: nothing of it is left to move.
GoLiveStopped ==
    /\ request = "cancelled" /\ stop = TRUE /\ left = TestRows
    /\ cleaner = [state |-> "cancelled", tries |-> 0, bound |-> FALSE]
    /\ generation = 1
    /\ attempt = [number |-> 1, refresh |-> "active", held |-> TRUE]
    /\ links = <<>> /\ refused = {} /\ authority = TRUE
    /\ retries = 0 /\ reviewed = 0

MCInit ==
    /\ Init
    /\ \/ part = "go-live" /\ GoLiveInit
       \/ part \in DOMAIN Parts /\ GoLiveStopped

\* An explicit retry, a second attempt and a lost authority, not all at once.
GoLiveBound == attempt'.number + retries' + (IF authority' THEN 0 ELSE 1) <= 2

MCNext ==
    /\ UNCHANGED part
    /\ \/ part = "go-live" /\ GoLiveNext /\ GoLiveBound /\ UNCHANGED vars
       \/ part # "go-live" /\ Next /\ Within(Parts[part]) /\ UNCHANGED goLiveVars

\* PublicationFair and GoLiveFairness, each where its own steps are taken.
Publishes(step) == part # "go-live" /\ step
GoesLive(step) == part = "go-live" /\ step

MCFair ==
    /\ WF_vars(Publishes(RunStep))
    /\ \A p \in 1 .. MaxPlans : WF_vars(Publishes(p \in DOMAIN plans /\ PlanStep(p)))
    /\ WF_goLiveVars(GoesLive(CleanupWorks)) /\ WF_goLiveVars(GoesLive(CleanupRecovers))
    /\ WF_goLiveVars(GoesLive(LinksWork)) /\ WF_goLiveVars(GoesLive(LinksRecover))
    /\ WF_goLiveVars(GoesLive(Produce)) /\ WF_goLiveVars(GoesLive(RefreshEnds))

MCSpec == MCInit /\ [][MCNext]_<<part, vars, goLiveVars>> /\ MCFair
=============================================================================
