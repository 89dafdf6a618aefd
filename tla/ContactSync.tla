---------------------------- MODULE ContactSync ----------------------------
(***************************************************************************)
(* pk-sync-ps-to-cc: one run loads the ParishSoft workgroups and every     *)
(* Constant Contact contact, computes what to create, subscribe,           *)
(* unsubscribe and rename, and writes contact by contact, each with at     *)
(* most one sign-up POST and one update PUT built from what was loaded.    *)
(* Meanwhile people opt out, operators edit lists, and a run may die or    *)
(* fail between any two writes; cron starts the next one.                  *)
(***************************************************************************)
EXTENDS Naturals, FiniteSets

CONSTANTS
    Emails,       \* addresses of contacts
    Lists,        \* all lists of the account
    Targets,      \* the target lists, one for each mapping
    AllowEmpty,   \* allow_empty
    MaxRemovals,  \* max_removals
    MaxPercent,   \* max_removal_fraction, in percent
    UpdateNames,  \* sync.update_names
    Partial,      \* addresses whose salutation has an empty part
    MaxEdits,     \* edits by others
    MaxAborts     \* runs that die or fail between two writes

ASSUME ContactAssumption ==
    /\ Targets \subseteq Lists
    /\ Partial \subseteq Emails
    /\ {AllowEmpty, UpdateNames} \subseteq BOOLEAN
    /\ {MaxRemovals, MaxEdits, MaxAborts} \subseteq Nat
    /\ MaxPercent \in 0..100

VARIABLES
    wants,   \* the primary addresses of each mapped workgroup
    cc,      \* the account: contacts, their lists, opt-outs, right names
    run,     \* the run: its phase, what it loaded, whom it has left to write
             \* and whose POST still has a PUT to follow
    edited,  \* contacts edited by others since the run loaded them
    edits,
    aborts

contactVars == <<wants, cc, run, edited, edits, aborts>>

Accounts ==
    [contacts : SUBSET Emails, lists : [Emails -> SUBSET Lists],
     out : SUBSET Emails, named : SUBSET Emails]

\* A contact that does not exist is on no list and has no permission or name.
Sound(account) ==
    /\ account.out \cup account.named \subseteq account.contacts
    /\ \A e \in Emails \ account.contacts : account.lists[e] = {}

NoRun(account) ==
    [phase |-> "idle", loaded |-> account, source |-> wants, left |-> {},
     posted |-> {}]

ContactInit ==
    /\ wants \in [Targets -> SUBSET Emails]
    /\ cc \in {a \in Accounts : Sound(a)}
    /\ run = NoRun(cc)
    /\ edited = {}
    /\ edits = 0
    /\ aborts = 0

-----------------------------------------------------------------------------
(* What a run computes from what it loaded                                 *)

\* The CONTACTS index of link_cc_data.
OnList(account, t) == {e \in account.contacts : t \in account.lists[e]}

\* resolve_desired_state and filter_unsubscribed.
Desired(r, t) == r.source[t] \ r.loaded.out

Unsubscribed(r, e) ==
    {t \in Targets : e \in OnList(r.loaded, t) \ Desired(r, t)}

Subscribed(r, e) ==
    {t \in Targets : e \in Desired(r, t) \ OnList(r.loaded, t)}

\* detect_name_mismatches over name_update_candidate_sync_indices: only
\* contacts in the scope of a mapping.
Renamed(r, e) ==
    /\ UpdateNames
    /\ e \in r.loaded.contacts \ r.loaded.named
    /\ \E t \in Targets : e \in Desired(r, t) \cup OnList(r.loaded, t)

\* Mutant: a PUT after a POST does not repeat the new subscriptions.
PutListsNoFold(r, e) == r.loaded.lists[e] \ Unsubscribed(r, e)

\* Mutant: the update names the target lists only.
PutListsTargetsOnly(r, e) ==
    ((r.loaded.lists[e] \cap Targets) \ Unsubscribed(r, e)) \cup Subscribed(r, e)

\* put_body_for_actions, with the subscriptions folded in by execute_actions.
PutLists(r, e) ==
    (r.loaded.lists[e] \ Unsubscribed(r, e)) \cup Subscribed(r, e)

NeedsPost(r, e) == Subscribed(r, e) # {}

NeedsPut(r, e) == Unsubscribed(r, e) # {} \/ Renamed(r, e)

\* validate_non_empty_desired_state, before the opt-outs are filtered.
EmptySource(r) ==
    ~AllowEmpty /\ \E t \in Targets : r.source[t] = {} /\ OnList(r.loaded, t) # {}

\* validate_large_removal_guard, per mapping, both limits.
LargeRemoval(r) ==
    \E t \in Targets :
        LET current == Cardinality(OnList(r.loaded, t))
            removed == Cardinality(OnList(r.loaded, t) \ Desired(r, t))
        IN  removed > MaxRemovals /\ removed * 100 > MaxPercent * current

Refused(r) == EmptySource(r) \/ LargeRemoval(r)

-----------------------------------------------------------------------------
(* The run                                                                 *)

\* Everything is loaded, computed and validated before the first write.
Load ==
    /\ run.phase \in {"idle", "done"}
    /\ LET r == [phase |-> "writing", loaded |-> cc, source |-> wants,
                 left |-> {}, posted |-> {}]
       IN  run' = IF Refused(r)
                  THEN NoRun(cc)
                  ELSE [r EXCEPT !.left =
                           {e \in Emails : NeedsPost(r, e) \/ NeedsPut(r, e)}]
    /\ edited' = {}
    /\ UNCHANGED <<wants, cc, edits, aborts>>

\* The sign-up POST: creates the contact if there is none, adds the lists and
\* sets the name: the salutation of a new contact, the loaded name otherwise.
Post(e) ==
    /\ run.phase = "writing" /\ e \in run.left
    /\ NeedsPost(run, e) /\ run.posted = {}
    /\ cc' = [cc EXCEPT
                !.contacts = @ \cup {e},
                !.lists[e] = @ \cup Subscribed(run, e),
                !.named = IF e \in run.loaded.contacts \ run.loaded.named
                          THEN @ \ {e}
                          ELSE @ \cup {e}]
    /\ run' = IF NeedsPut(run, e)
              THEN [run EXCEPT !.posted = {e}]
              ELSE [run EXCEPT !.left = @ \ {e}]
    /\ UNCHANGED <<wants, edited, edits, aborts>>

\* The permission after a PUT that sends back the loaded email_address, with
\* its permission_to_send: the service may take it for the contact's own wish
\* (update_source) or leave the permission alone.
PutOut(e) ==
    {cc.out, IF e \in run.loaded.out THEN cc.out \cup {e} ELSE cc.out \ {e}}

\* The names after a PUT: the loaded one, or the salutation's, but an empty
\* part of the salutation keeps the loaded part, right or wrong.
PutNamed(e) ==
    IF e \in run.loaded.named THEN {cc.named \cup {e}}
    ELSE IF ~Renamed(run, e) THEN {cc.named \ {e}}
    ELSE IF e \in Partial THEN {cc.named \cup {e}, cc.named \ {e}}
    ELSE {cc.named \cup {e}}

\* The update PUT: replaces the lists, the permission and the name.
Put(e) ==
    /\ run.phase = "writing" /\ e \in run.left
    /\ NeedsPut(run, e)
    /\ run.posted = IF NeedsPost(run, e) THEN {e} ELSE {}
    /\ \E out \in PutOut(e), named \in PutNamed(e) :
          cc' = [cc EXCEPT !.lists[e] = PutLists(run, e),
                           !.out = out, !.named = named]
    /\ run' = [run EXCEPT !.posted = {}, !.left = @ \ {e}]
    /\ UNCHANGED <<wants, edited, edits, aborts>>

Done ==
    /\ run.phase = "writing" /\ run.left = {}
    /\ run' = [run EXCEPT !.phase = "done"]
    /\ UNCHANGED <<wants, cc, edited, edits, aborts>>

\* The run dies, or a write fails, answered or not.
Abort ==
    /\ run.phase = "writing"
    /\ aborts < MaxAborts
    /\ aborts' = aborts + 1
    /\ run' = NoRun(cc)
    /\ UNCHANGED <<wants, cc, edited, edits>>

-----------------------------------------------------------------------------
(* Everybody else                                                          *)

Edit(e) ==
    /\ edits < MaxEdits
    /\ edits' = edits + 1
    /\ edited' = edited \cup {e}
    /\ UNCHANGED <<run, aborts>>

\* A person unsubscribes; the service may keep or drop the memberships.
OptOut(e) ==
    /\ Edit(e)
    /\ e \in cc.contacts \ cc.out
    /\ \E kept \in {cc.lists[e], {}} :
          cc' = [cc EXCEPT !.out = @ \cup {e}, !.lists[e] = kept]
    /\ UNCHANGED wants

OptIn(e) ==
    /\ Edit(e)
    /\ e \in cc.out
    /\ cc' = [cc EXCEPT !.out = @ \ {e}]
    /\ UNCHANGED wants

\* An operator puts a contact on a list, or takes it off.
EditList(e, l) ==
    /\ Edit(e)
    /\ e \in cc.contacts
    /\ cc' = [cc EXCEPT !.lists[e] = IF l \in @ THEN @ \ {l} ELSE @ \cup {l}]
    /\ UNCHANGED wants

\* Parish staff change a workgroup in ParishSoft.
EditSource(t, e) ==
    /\ Edit(e)
    /\ wants' = [wants EXCEPT ![t] = IF e \in @ THEN @ \ {e} ELSE @ \cup {e}]
    /\ UNCHANGED cc

WriteContact(e) == Post(e) \/ Put(e)

SyncStep == Load \/ Done \/ \E e \in Emails : WriteContact(e)

ContactNext ==
    \/ SyncStep
    \/ Abort
    \/ \E e \in Emails :
          \/ OptOut(e)
          \/ OptIn(e)
          \/ \E l \in Lists : EditList(e, l)
          \/ \E t \in Targets : EditSource(t, e)

ContactSpec == ContactInit /\ [][ContactNext]_contactVars

\* Cron starts the next run, and a run that is not interrupted goes on.
ContactFair == WF_contactVars(SyncStep)
ContactFairSpec == ContactSpec /\ ContactFair

-----------------------------------------------------------------------------
(* Properties.                                                             *)

\* Type invariant; whom a run has left to write comes from its own plan, and
\* a POST is remembered only until the PUT of the same contact.
ContactTypeOK ==
    /\ wants \in [Targets -> SUBSET Emails]
    /\ cc \in Accounts /\ Sound(cc)
    /\ run.phase \in {"idle", "writing", "done"}
    /\ run.loaded \in Accounts
    /\ run.source \in [Targets -> SUBSET Emails]
    /\ \A e \in run.left : NeedsPost(run, e) \/ NeedsPut(run, e)
    /\ \A e \in run.posted :
          e \in run.left /\ NeedsPost(run, e) /\ NeedsPut(run, e)
    /\ edited \subseteq Emails
    /\ edits \in 0..MaxEdits
    /\ aborts \in 0..MaxAborts

\* Each target list holds exactly its workgroup less the opted-out.
Synced ==
    \A t \in Targets : OnList(cc, t) = wants[t] \ cc.out

\* A run that nobody disturbed leaves every target list as its workgroup says,
\* every other list as it was and, with update_names, the names of the people
\* it synchronizes right, but for a salutation with an empty part: a POST and
\* a PUT of one contact do not undo each other, whatever an earlier,
\* interrupted run left behind.
QuietRunSyncs ==
    run.phase = "done" /\ edited = {} =>
        /\ Synced
        /\ \A e \in Emails : cc.lists[e] \ Targets = run.loaded.lists[e] \ Targets
        /\ UpdateNames =>
              \A t \in Targets : OnList(cc, t) \ Partial \subseteq cc.named

\* A write undoes a change of a list outside the configuration, or of the
\* person's permission, only for a contact edited after the run loaded it.
UndoingNeedsEdit ==
    [][\A e \in Emails \ edited :
          WriteContact(e) =>
              /\ cc'.lists[e] \ Targets = cc.lists[e] \ Targets
              /\ e \in cc'.out <=> e \in cc.out]_contactVars

\* Whoever had opted out when the run loaded the contacts is put on no target
\* list by it, whichever mappings want the address.
OptOutAtLoadHolds ==
    [][\A e \in run.loaded.out :
          WriteContact(e) =>
              cc'.lists[e] \cap Targets \subseteq cc.lists[e]]_contactVars

\* Runs that die half way, and edits that stop, are mended: the lists are
\* in step for good or the guards hold the sync back for an operator.
Mended == <>[](Synced \/ Refused([NoRun(cc) EXCEPT !.source = wants]))

\* A run that nobody disturbed leaves the target lists as the source has them
\* and every other list alone.
ContactSafe == ContactTypeOK /\ QuietRunSyncs

\* How far the harm of a disturbed run goes: only an edit made after its load
\* can be undone (for good, where no list of the configuration is concerned),
\* whoever had opted out by then is put on no target list, and the target lists
\* are mended.
ContactsKept == UndoingNeedsEdit /\ OptOutAtLoadHolds /\ Mended

\* The tool's specification, section 7: an opted-out person is never re-added
\* or re-subscribed, by a POST or a PUT.  The code keeps it only for an
\* opt-out it has loaded: one that arrives while a run writes may be undone.
NeverResubscribed ==
    [][\A e \in cc.out :
          WriteContact(e) =>
              /\ cc'.lists[e] \cap Targets \subseteq cc.lists[e]
              /\ e \in cc'.out]_contactVars
=============================================================================
