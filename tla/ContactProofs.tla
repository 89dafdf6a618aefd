--------------------------- MODULE ContactProofs ---------------------------
(***************************************************************************)
(* Proofs about pk-sync-ps-to-cc: its synchronization, for any contacts,   *)
(* lists, limits, edits and aborted runs, and its daily report, for any    *)
(* number of runs, mappings, days, deaths and failures.                    *)
(*                                                                         *)
(* Neither safety property is inductive.  The synchronization needs to     *)
(* know how far the run has come with each contact that nobody else has    *)
(* edited (Tracked), because the PUT is built from what was loaded and     *)
(* not from what the POST left.  The report needs a ledger that accounts   *)
(* for every email: recorded, in a run's hand, or lost by a run that       *)
(* failed or died.                                                         *)
(***************************************************************************)
EXTENDS ContactSync, OptOutReport, TLAPS

-----------------------------------------------------------------------------
(* The synchronization.                                                    *)

Runs ==
    [phase : {"idle", "writing", "done"}, loaded : Accounts,
     source : [Targets -> SUBSET Emails], left : SUBSET Emails,
     posted : SUBSET Emails]

ContactParts ==
    /\ wants \in [Targets -> SUBSET Emails]
    /\ cc \in Accounts /\ Sound(cc)
    /\ run \in Runs /\ Sound(run.loaded)
    /\ edited \subseteq Emails
    /\ edits \in 0..MaxEdits
    /\ aborts \in 0..MaxAborts

\* What is left follows from the plan, and no loaded contact disappears.
PlanHolds ==
    /\ \A e \in run.left : NeedsPost(run, e) \/ NeedsPut(run, e)
    /\ \A e \in run.posted :
          e \in run.left /\ NeedsPost(run, e) /\ NeedsPut(run, e)
    /\ run.phase = "done" => run.left = {}
    /\ run.phase # "idle" => run.loaded.contacts \subseteq cc.contacts

\* How far the run has come with a contact that nobody else has edited since
\* it was loaded: as loaded, posted, or as the plan wants it.
Tracked(e) ==
    /\ e \in cc.out <=> e \in run.loaded.out
    /\ \A t \in Targets : e \in wants[t] <=> e \in run.source[t]
    /\ e \in run.loaded.named => e \in cc.named
    /\ e \in run.left \ run.posted => cc.lists[e] = run.loaded.lists[e]
    /\ e \in run.left \cap run.posted =>
           cc.lists[e] = run.loaded.lists[e] \cup Subscribed(run, e)
    /\ e \notin run.left => cc.lists[e] = PutLists(run, e)
    /\ e \notin run.left =>
           \/ e \in cc.named
           \/ e \in Partial
           \/ ~Renamed(run, e) /\ (e \in run.loaded.contacts \/ ~NeedsPost(run, e))

AllTracked == run.phase # "idle" => \A e \in Emails \ edited : Tracked(e)

ContactInv == ContactParts /\ PlanHolds /\ AllTracked

\* Only the loaded contacts and the source decide a plan.
LEMMA PlanFromLoad ==
  ASSUME NEW r, NEW s, r.loaded = s.loaded, r.source = s.source, NEW e
  PROVE  /\ Subscribed(r, e) = Subscribed(s, e)
         /\ Unsubscribed(r, e) = Unsubscribed(s, e)
         /\ PutLists(r, e) = PutLists(s, e)
         /\ Renamed(r, e) <=> Renamed(s, e)
         /\ NeedsPost(r, e) <=> NeedsPost(s, e)
         /\ NeedsPut(r, e) <=> NeedsPut(s, e)
<1>1. /\ Subscribed(r, e) = Subscribed(s, e)
      /\ Unsubscribed(r, e) = Unsubscribed(s, e)
  BY DEF Subscribed, Unsubscribed, Desired
<1>2. Renamed(r, e) <=> Renamed(s, e)
  BY DEF Renamed, Desired
<1> QED
  BY <1>1, <1>2 DEF PutLists, NeedsPost, NeedsPut

\* A PUT leaves a contact on exactly the target lists whose workgroup wants it,
\* and every other list as it was loaded.
LEMMA PutIsDesired ==
  ASSUME NEW r \in Runs, Sound(r.loaded), NEW e \in Emails
  PROVE  /\ \A t \in Targets : t \in PutLists(r, e) <=> e \in Desired(r, t)
         /\ PutLists(r, e) \ Targets = r.loaded.lists[e] \ Targets
         /\ PutLists(r, e) \in SUBSET Lists
         /\ Subscribed(r, e) \in SUBSET Lists
<1>1. e \notin r.loaded.contacts => r.loaded.lists[e] = {}
  BY DEF Sound
<1>2. r.loaded.lists[e] \subseteq Lists /\ Targets \subseteq Lists
  BY ContactAssumption DEF Runs, Accounts
<1> QED
  BY <1>1, <1>2 DEF PutLists, Unsubscribed, Subscribed, OnList

\* Only loaded contacts are updated.
LEMMA PutIsLoaded ==
  ASSUME NEW r, NEW e, NeedsPut(r, e)
  PROVE  e \in r.loaded.contacts
  BY DEF NeedsPut, Unsubscribed, OnList, Renamed

LEMMA ContactStart == ContactInit => ContactInv
<1> SUFFICES ASSUME ContactInit PROVE ContactInv
  OBVIOUS
<1>1. run \in Runs /\ run.loaded = cc /\ run.left = {} /\ run.posted = {}
      /\ run.phase = "idle"
  BY DEF ContactInit, NoRun, Runs
<1> QED
  BY <1>1, ContactAssumption
     DEF ContactInit, ContactInv, ContactParts, PlanHolds, AllTracked

LEMMA LoadKeeps ==
  ASSUME ContactInv, Load
  PROVE  ContactInv'
<1> DEFINE r == [phase |-> "writing", loaded |-> cc, source |-> wants,
                 left |-> {}, posted |-> {}]
           plan == {e \in Emails : NeedsPost(r, e) \/ NeedsPut(r, e)}
<1>1. run' = IF Refused(r) THEN NoRun(cc) ELSE [r EXCEPT !.left = plan]
  BY Zenon DEF Load
<1>2. CASE Refused(r)
  <2>1. run' = NoRun(cc)
    BY <1>1, <1>2
  <2>2. run' \in Runs /\ run'.loaded = cc /\ run'.left = {} /\ run'.posted = {}
        /\ run'.phase = "idle"
    BY <2>1 DEF NoRun, Runs, ContactInv, ContactParts
  <2> QED
    BY <2>2 DEF ContactInv, ContactParts, PlanHolds, AllTracked, Load
<1>3. CASE ~Refused(r)
  <2>1. run' = [r EXCEPT !.left = plan]
    BY <1>1, <1>3
  <2>2. /\ run' \in Runs /\ run'.loaded = cc /\ run'.source = wants
        /\ run'.left = plan /\ run'.posted = {} /\ run'.phase = "writing"
        /\ r.loaded = cc /\ r.source = wants
    BY <2>1 DEF Runs, ContactInv, ContactParts
  <2>3. \A e \in Emails : e \in plan <=> NeedsPost(r, e) \/ NeedsPut(r, e)
    OBVIOUS
  <2> HIDE DEF plan, r
  <2>4. ContactParts'
    BY <2>2 DEF ContactInv, ContactParts, Load
  <2>5. plan \subseteq Emails
    BY DEF plan
  <2>a. \A e \in plan : NeedsPost(run', e) \/ NeedsPut(run', e)
    <3> TAKE e \in plan
    <3>1. NeedsPost(r, e) \/ NeedsPut(r, e)
      BY <2>3, <2>5
    <3> QED
      BY <2>2, <3>1, PlanFromLoad
  <2>6. PlanHolds'
    BY <2>2, <2>a DEF PlanHolds, Load
  <2>7. ASSUME NEW e \in Emails
        PROVE  Tracked(e)'
    <3>1. Sound(run'.loaded) /\ cc \in Accounts
      BY <2>2 DEF ContactInv, ContactParts
    <3>2. e \notin plan => ~NeedsPost(run', e) /\ ~NeedsPut(run', e)
      BY <2>2, <2>3, PlanFromLoad
    <3>3. e \notin plan => cc.lists[e] = PutLists(run', e)
      BY <2>2, <3>2 DEF PutLists, NeedsPost, NeedsPut
    <3>4. e \notin plan => ~Renamed(run', e)
      BY <3>2 DEF NeedsPut
    <3> QED
      BY <2>2, <3>2, <3>3, <3>4 DEF Tracked, Load
  <2> QED
    BY <2>4, <2>6, <2>7 DEF ContactInv, AllTracked
<1> QED
  BY <1>2, <1>3

\* A contact that a write does not touch stays tracked.
LEMMA OthersTracked ==
  ASSUME NEW e \in Emails, Tracked(e),
         run'.loaded = run.loaded, run'.source = run.source,
         e \in run'.left <=> e \in run.left,
         e \in run'.posted <=> e \in run.posted,
         wants' = wants, cc'.lists[e] = cc.lists[e],
         e \in cc'.out <=> e \in cc.out,
         e \in cc'.named <=> e \in cc.named
  PROVE  Tracked(e)'
<1>1. /\ Subscribed(run', e) = Subscribed(run, e)
      /\ PutLists(run', e) = PutLists(run, e)
      /\ Renamed(run', e) <=> Renamed(run, e)
      /\ NeedsPost(run', e) <=> NeedsPost(run, e)
  BY PlanFromLoad
<1> QED
  BY <1>1 DEF Tracked

LEMMA PostKeeps ==
  ASSUME ContactInv, NEW x \in Emails, Post(x)
  PROVE  ContactInv'
<1> DEFINE left == IF NeedsPut(run, x) THEN run.left ELSE run.left \ {x}
           posted == IF NeedsPut(run, x) THEN {x} ELSE run.posted
           named == IF x \in run.loaded.contacts \ run.loaded.named
                    THEN cc.named \ {x} ELSE cc.named \cup {x}
<1>0. /\ run \in Runs /\ Sound(run.loaded) /\ cc \in Accounts /\ Sound(cc)
      /\ x \in run.left /\ run.phase = "writing" /\ run.posted = {}
      /\ NeedsPost(run, x) /\ edited' = edited /\ wants' = wants
  BY DEF ContactInv, ContactParts, Post
<1>1. run' = [run EXCEPT !.left = left, !.posted = posted]
  BY <1>0 DEF Post, Runs
<1>2. left \subseteq run.left /\ posted \subseteq Emails
  BY <1>0 DEF Runs
<1>3. /\ cc' \in Accounts /\ cc'.contacts = cc.contacts \cup {x}
      /\ cc'.lists = [cc.lists EXCEPT ![x] = @ \cup Subscribed(run, x)]
      /\ cc'.out = cc.out /\ cc'.named = named
  <2>1. Subscribed(run, x) \subseteq Lists
    BY <1>0, PutIsDesired
  <2> QED
    BY <1>0, <2>1 DEF Post, Accounts
<1>4. /\ run' \in Runs /\ run'.left = left /\ run'.posted = posted
      /\ run'.loaded = run.loaded /\ run'.source = run.source
      /\ run'.phase = run.phase
  BY <1>0, <1>1, <1>2 DEF Runs
<1>5. ASSUME NEW e
      PROVE  /\ Subscribed(run', e) = Subscribed(run, e)
             /\ PutLists(run', e) = PutLists(run, e)
             /\ Renamed(run', e) <=> Renamed(run, e)
             /\ NeedsPost(run', e) <=> NeedsPost(run, e)
             /\ NeedsPut(run', e) <=> NeedsPut(run, e)
  BY <1>4, PlanFromLoad
<1>6. ContactParts'
  <2>1. Sound(cc)'
    BY <1>0, <1>3 DEF Sound, Accounts
  <2> QED
    BY <1>0, <1>3, <1>4, <2>1 DEF ContactInv, ContactParts, Post
<1>7. PlanHolds'
  <2>1. \A e \in run'.left : NeedsPost(run', e) \/ NeedsPut(run', e)
    <3> TAKE e \in run'.left
    <3> QED BY <1>2, <1>4, <1>5 DEF ContactInv, PlanHolds
  <2>2. \A e \in run'.posted :
            e \in run'.left /\ NeedsPost(run', e) /\ NeedsPut(run', e)
    <3> TAKE e \in run'.posted
    <3>1. e = x /\ NeedsPut(run, x)
      BY <1>0, <1>4
    <3> QED BY <3>1, <1>0, <1>4, <1>5
  <2>3. run'.loaded.contacts \subseteq cc'.contacts
    BY <1>0, <1>3, <1>4 DEF ContactInv, PlanHolds
  <2> QED
    BY <1>0, <1>4, <2>1, <2>2, <2>3 DEF PlanHolds
<1>8. ASSUME NEW e \in Emails \ edited
      PROVE  Tracked(e)'
  <2>0. Tracked(e)
    BY <1>0 DEF ContactInv, AllTracked
  <2>1. CASE e # x
    <3>1. /\ e \in run'.left <=> e \in run.left
          /\ e \in run'.posted <=> e \in run.posted
          /\ cc'.lists[e] = cc.lists[e]
          /\ e \in cc'.named <=> e \in cc.named
      BY <1>0, <1>3, <1>4, <2>1 DEF Accounts
    <3> QED
      BY <1>0, <1>3, <1>4, <2>0, <3>1, OthersTracked
  <2>2. CASE e = x
    <3>1. /\ cc.lists[e] = run.loaded.lists[e]
          /\ cc'.lists[e] = cc.lists[e] \cup Subscribed(run, e)
      BY <1>0, <1>3, <2>0, <2>2 DEF Tracked, Accounts
    <3>2. CASE NeedsPut(run, e)
      <4>1. /\ run'.left = run.left /\ run'.posted = {x}
            /\ (e \in run.loaded.named => e \in named)
        BY <1>4, <3>2, <2>2
      <4> QED
        BY <1>0, <1>3, <1>4, <1>5, <2>0, <2>2, <3>1, <4>1 DEF Tracked
    <3>3. CASE ~NeedsPut(run, e)
      <4>1. /\ run'.left = run.left \ {x} /\ run'.posted = {}
            /\ (e \in run.loaded.named => e \in named)
            /\ (e \notin run.loaded.contacts => e \in named)
        BY <1>0, <1>4, <3>3, <2>2
      <4>2. PutLists(run, e) = run.loaded.lists[e] \cup Subscribed(run, e)
            /\ ~Renamed(run, e)
        BY <3>3 DEF PutLists, NeedsPut
      <4> QED
        BY <1>0, <1>3, <1>4, <1>5, <2>0, <2>2, <3>1, <4>1, <4>2 DEF Tracked
    <3> QED
      BY <3>2, <3>3
  <2> QED
    BY <2>1, <2>2
<1> QED
  BY <1>0, <1>6, <1>7, <1>8 DEF ContactInv, AllTracked

LEMMA PutKeeps ==
  ASSUME ContactInv, NEW x \in Emails, Put(x)
  PROVE  ContactInv'
<1> DEFINE left == run.left \ {x}
           posted == {}
<1>0. /\ run \in Runs /\ Sound(run.loaded) /\ cc \in Accounts /\ Sound(cc)
      /\ x \in run.left /\ run.phase = "writing" /\ run.posted \subseteq {x}
      /\ NeedsPut(run, x) /\ edited' = edited /\ wants' = wants
  BY DEF ContactInv, ContactParts, Put
<1>1. run' = [run EXCEPT !.left = left, !.posted = posted]
  BY <1>0 DEF Put, Runs
<1>2. left \subseteq run.left /\ posted \subseteq Emails
  BY <1>0 DEF Runs
<1>3. PICK out \in PutOut(x), named \in PutNamed(x) :
          cc' = [cc EXCEPT !.lists[x] = PutLists(run, x), !.out = out, !.named = named]
  BY DEF Put
<1>30. /\ out \subseteq Emails /\ out \ {x} = cc.out \ {x}
       /\ x \in out => x \in cc.out \/ x \in run.loaded.out
       /\ (x \in cc.out <=> x \in run.loaded.out) => out = cc.out
  BY <1>0 DEF PutOut, Accounts
<1>31. /\ named \subseteq Emails /\ named \ {x} = cc.named \ {x}
       /\ x \in run.loaded.named => x \in named
       /\ Renamed(run, x) /\ x \notin Partial => x \in named
  BY <1>0 DEF PutNamed, Accounts
<1>32. /\ cc' \in Accounts /\ cc'.contacts = cc.contacts
       /\ cc'.lists = [cc.lists EXCEPT ![x] = PutLists(run, x)]
       /\ cc'.out = out /\ cc'.named = named
  <2>1. PutLists(run, x) \in SUBSET Lists
    BY <1>0, PutIsDesired
  <2> QED
    BY <1>0, <1>3, <1>30, <1>31, <2>1 DEF Accounts
<1>4. /\ run' \in Runs /\ run'.left = left /\ run'.posted = posted
      /\ run'.loaded = run.loaded /\ run'.source = run.source
      /\ run'.phase = run.phase
  BY <1>0, <1>1, <1>2 DEF Runs
<1>5. ASSUME NEW e
      PROVE  /\ Subscribed(run', e) = Subscribed(run, e)
             /\ PutLists(run', e) = PutLists(run, e)
             /\ Renamed(run', e) <=> Renamed(run, e)
             /\ NeedsPost(run', e) <=> NeedsPost(run, e)
             /\ NeedsPut(run', e) <=> NeedsPut(run, e)
  BY <1>4, PlanFromLoad
<1>6. x \in cc.contacts /\ x \in run.loaded.contacts
  BY <1>0, PutIsLoaded DEF ContactInv, PlanHolds
<1>7. ContactParts'
  <2>1. Sound(cc)'
    BY <1>0, <1>30, <1>31, <1>32, <1>6 DEF Sound, Accounts
  <2> QED
    BY <1>0, <1>32, <1>4, <2>1 DEF ContactInv, ContactParts, Put
<1>8. PlanHolds'
  <2>1. \A e \in run'.left : NeedsPost(run', e) \/ NeedsPut(run', e)
    <3> TAKE e \in run'.left
    <3> QED BY <1>2, <1>4, <1>5 DEF ContactInv, PlanHolds
  <2>2. run'.loaded.contacts \subseteq cc'.contacts
    BY <1>0, <1>32, <1>4 DEF ContactInv, PlanHolds
  <2> QED
    BY <1>0, <1>4, <2>1, <2>2 DEF PlanHolds
<1>9. ASSUME NEW e \in Emails \ edited
      PROVE  Tracked(e)'
  <2>0. Tracked(e)
    BY <1>0 DEF ContactInv, AllTracked
  <2>1. CASE e # x
    <3>1. /\ e \in run'.left <=> e \in run.left
          /\ e \in run'.posted <=> e \in run.posted
          /\ cc'.lists[e] = cc.lists[e]
          /\ e \in cc'.out <=> e \in cc.out
          /\ e \in cc'.named <=> e \in cc.named
      BY <1>0, <1>30, <1>31, <1>32, <1>4, <2>1 DEF Accounts
    <3> QED
      BY <1>0, <1>32, <1>4, <2>0, <3>1, OthersTracked
  <2>2. CASE e = x
    <3>1. /\ cc'.lists[e] = PutLists(run, e) /\ e \notin run'.left
          /\ cc'.out = cc.out
          /\ (e \in run.loaded.named => e \in named)
          /\ (Renamed(run, e) /\ e \notin Partial => e \in named)
      BY <1>0, <1>30, <1>31, <1>32, <1>4, <2>0, <2>2 DEF Accounts, Tracked
    <3> QED
      BY <1>0, <1>32, <1>4, <1>5, <1>6, <2>0, <2>2, <3>1 DEF Tracked
  <2> QED
    BY <2>1, <2>2
<1> QED
  BY <1>0, <1>7, <1>8, <1>9 DEF ContactInv, AllTracked

LEMMA DoneKeeps ==
  ASSUME ContactInv, Done
  PROVE  ContactInv'
<1>1. /\ run' \in Runs /\ run'.left = {} /\ run.left = {}
      /\ run'.posted = run.posted /\ run'.phase = "done"
      /\ run'.loaded = run.loaded /\ run'.source = run.source
      /\ run.phase = "writing"
  BY DEF Done, ContactInv, ContactParts, Runs
<1>2. /\ wants' = wants /\ cc' = cc /\ edited' = edited /\ edits' = edits
      /\ aborts' = aborts
  BY DEF Done
<1>3. ContactParts'
  BY <1>1, <1>2 DEF ContactInv, ContactParts
<1>4. PlanHolds'
  <2>1. run.posted = {}
    BY <1>1 DEF ContactInv, PlanHolds
  <2> QED
    BY <1>1, <1>2, <2>1 DEF ContactInv, PlanHolds
<1>5. ASSUME NEW e \in Emails \ edited
      PROVE  Tracked(e)'
  BY <1>1, <1>2, OthersTracked DEF ContactInv, AllTracked
<1> QED
  BY <1>2, <1>3, <1>4, <1>5 DEF ContactInv, AllTracked

LEMMA AbortKeeps ==
  ASSUME ContactInv, Abort
  PROVE  ContactInv'
<1>1. run' \in Runs /\ run'.loaded = cc /\ run'.left = {} /\ run'.posted = {}
      /\ run'.phase = "idle"
  BY DEF Abort, NoRun, Runs, ContactInv, ContactParts
<1> QED
  BY <1>1, ContactAssumption
     DEF ContactInv, ContactParts, PlanHolds, AllTracked, Abort

\* An edit by others: only the edited contact may change, and it does not
\* disappear.
LEMMA EditKeeps ==
  ASSUME ContactInv, NEW x \in Emails, Edit(x),
         cc' \in Accounts, Sound(cc'), cc'.contacts = cc.contacts,
         wants' \in [Targets -> SUBSET Emails],
         \A e \in Emails \ {x} :
             /\ e \in cc'.out <=> e \in cc.out
             /\ e \in cc'.named <=> e \in cc.named
             /\ cc'.lists[e] = cc.lists[e]
             /\ \A t \in Targets : e \in wants'[t] <=> e \in wants[t]
  PROVE  ContactInv'
<1>1. run' = run /\ edited' = edited \cup {x} /\ aborts' = aborts
      /\ edits' \in 0..MaxEdits
  BY ContactAssumption DEF Edit, ContactInv, ContactParts
<1>2. ContactParts'
  BY <1>1 DEF ContactInv, ContactParts
<1>3. PlanHolds'
  BY <1>1 DEF ContactInv, PlanHolds
<1>4. ASSUME NEW e \in Emails \ edited', Tracked(e)
      PROVE  Tracked(e)'
  <2>1. e \in Emails \ {x}
    BY <1>1
  <2> QED
    BY <1>1, <1>4, <2>1 DEF Tracked
<1> QED
  BY <1>1, <1>2, <1>3, <1>4 DEF ContactInv, AllTracked

LEMMA OthersKeep ==
  ASSUME ContactInv, NEW x \in Emails,
         \/ OptOut(x)
         \/ OptIn(x)
         \/ \E l \in Lists : EditList(x, l)
         \/ \E t \in Targets : EditSource(t, x)
  PROVE  ContactInv'
<1>0. Edit(x) /\ cc \in Accounts /\ Sound(cc)
      /\ wants \in [Targets -> SUBSET Emails]
  BY DEF OptOut, OptIn, EditList, EditSource, ContactInv, ContactParts
<1>1. CASE OptOut(x)
  <2>1. PICK kept \in {cc.lists[x], {}} :
            cc' = [cc EXCEPT !.out = @ \cup {x}, !.lists[x] = kept]
    BY <1>1, Zenon DEF OptOut
  <2>2. /\ cc' \in Accounts /\ cc'.contacts = cc.contacts
        /\ cc'.out = cc.out \cup {x} /\ cc'.named = cc.named
        /\ cc'.lists = [cc.lists EXCEPT ![x] = kept]
    BY <1>0, <2>1 DEF Accounts
  <2>3. Sound(cc')
    BY <1>0, <1>1, <2>2 DEF Sound, Accounts, OptOut
  <2>4. \A e \in Emails \ {x} : cc'.lists[e] = cc.lists[e]
    BY <1>0, <2>2 DEF Accounts
  <2> QED
    BY <1>0, <1>1, <2>2, <2>3, <2>4, EditKeeps DEF OptOut
<1>2. CASE OptIn(x)
  <2>2. /\ cc' \in Accounts /\ cc'.contacts = cc.contacts
        /\ cc'.out = cc.out \ {x} /\ cc'.named = cc.named
        /\ cc'.lists = cc.lists
    BY <1>0, <1>2 DEF Accounts, OptIn
  <2>3. Sound(cc')
    BY <1>0, <2>2 DEF Sound
  <2> QED
    BY <1>0, <1>2, <2>2, <2>3, EditKeeps DEF OptIn
<1>3. CASE \E l \in Lists : EditList(x, l)
  <2>1. PICK l \in Lists : EditList(x, l)
    BY <1>3
  <2>2. PICK kept \in SUBSET Lists :
            cc' = [cc EXCEPT !.lists[x] = kept]
    <3>1. cc.lists[x] \in SUBSET Lists
      BY <1>0 DEF Accounts
    <3> DEFINE k == IF l \in cc.lists[x] THEN cc.lists[x] \ {l}
                    ELSE cc.lists[x] \cup {l}
    <3>2. k \in SUBSET Lists
      BY <3>1
    <3>3. cc' = [cc EXCEPT !.lists[x] = k]
      BY <1>0, <2>1 DEF EditList, Accounts
    <3> QED
      BY <3>2, <3>3, Zenon
  <2>3. /\ cc' \in Accounts /\ cc'.contacts = cc.contacts
        /\ cc'.out = cc.out /\ cc'.named = cc.named
        /\ cc'.lists = [cc.lists EXCEPT ![x] = kept]
    BY <1>0, <2>2 DEF Accounts
  <2>4. Sound(cc')
    BY <1>0, <2>1, <2>3 DEF Sound, Accounts, EditList
  <2>5. \A e \in Emails \ {x} : cc'.lists[e] = cc.lists[e]
    BY <1>0, <2>3 DEF Accounts
  <2> QED
    BY <1>0, <2>1, <2>3, <2>4, <2>5, EditKeeps DEF EditList
<1>4. CASE \E t \in Targets : EditSource(t, x)
  <2>1. PICK u \in Targets : EditSource(u, x)
    BY <1>4
  <2>2. /\ wants' \in [Targets -> SUBSET Emails] /\ cc' = cc
        /\ \A e \in Emails \ {x} : \A t \in Targets :
               e \in wants'[t] <=> e \in wants[t]
    BY <1>0, <2>1 DEF EditSource
  <2> QED
    BY <1>0, <2>2, EditKeeps
<1> QED
  BY <1>1, <1>2, <1>3, <1>4

LEMMA ContactStutters ==
  ASSUME ContactInv, UNCHANGED contactVars
  PROVE  ContactInv'
  BY DEF contactVars, ContactInv, ContactParts, PlanHolds, AllTracked, Tracked

LEMMA ContactKeeps == ContactInv /\ [ContactNext]_contactVars => ContactInv'
<1> SUFFICES ASSUME ContactInv, [ContactNext]_contactVars PROVE ContactInv'
  OBVIOUS
<1>1. CASE SyncStep
  BY <1>1, LoadKeeps, DoneKeeps, PostKeeps, PutKeeps DEF SyncStep, WriteContact
<1>2. CASE UNCHANGED contactVars
  BY <1>2, ContactStutters
<1> QED
  BY <1>1, <1>2, AbortKeeps, OthersKeep DEF ContactNext

\* An undisturbed run that has ended has synced.
LEMMA TrackedSyncs == ContactInv => QuietRunSyncs
<1> SUFFICES ASSUME ContactInv, run.phase = "done", edited = {}
             PROVE  /\ Synced
                    /\ \A e \in Emails :
                           cc.lists[e] \ Targets = run.loaded.lists[e] \ Targets
                    /\ UpdateNames =>
                           \A t \in Targets : OnList(cc, t) \ Partial \subseteq cc.named
  BY DEF QuietRunSyncs
<1>0. /\ run.left = {} /\ run \in Runs /\ Sound(run.loaded)
      /\ cc \in Accounts /\ Sound(cc) /\ wants \in [Targets -> SUBSET Emails]
  BY DEF ContactInv, ContactParts, PlanHolds
<1>1. ASSUME NEW e \in Emails
      PROVE  /\ Tracked(e)
             /\ \A t \in Targets : t \in cc.lists[e] <=> e \in Desired(run, t)
             /\ \A t \in Targets :
                    e \in Desired(run, t) <=> e \in wants[t] \ cc.out
             /\ cc.lists[e] \ Targets = run.loaded.lists[e] \ Targets
  <2>1. Tracked(e)
    BY DEF ContactInv, AllTracked
  <2>2. cc.lists[e] = PutLists(run, e)
    BY <1>0, <2>1 DEF Tracked
  <2>3. \A t \in Targets : e \in Desired(run, t) <=> e \in wants[t] \ cc.out
    BY <2>1 DEF Tracked, Desired
  <2> QED
    BY <1>0, <2>1, <2>2, <2>3, PutIsDesired
<1>2. Synced
  <2> SUFFICES ASSUME NEW t \in Targets, NEW e
               PROVE  e \in OnList(cc, t) <=> e \in wants[t] \ cc.out
    BY DEF Synced
  <2>1. CASE e \in Emails
    <3>1. t \in cc.lists[e] => e \in cc.contacts
      BY <1>0, <2>1 DEF Sound
    <3> QED
      BY <1>1, <2>1, <3>1 DEF OnList
  <2>2. CASE e \notin Emails
    BY <1>0, <2>2 DEF OnList, Accounts
  <2> QED
    BY <2>1, <2>2
<1>3. ASSUME UpdateNames, NEW t \in Targets,
             NEW e \in OnList(cc, t) \ Partial
      PROVE  e \in cc.named
  <2>1. e \in Emails /\ t \in cc.lists[e]
    BY <1>0 DEF OnList, Accounts
  <2>2. e \in Desired(run, t) /\ Tracked(e)
    BY <1>1, <2>1
  <2>3. CASE e \in run.loaded.named
    BY <2>2, <2>3 DEF Tracked
  <2>4. CASE e \in run.loaded.contacts \ run.loaded.named
    <3>1. Renamed(run, e)
      BY <1>3, <2>2, <2>4 DEF Renamed
    <3> QED
      BY <1>0, <2>2, <3>1 DEF Tracked
  <2>5. CASE e \notin run.loaded.contacts
    <3>1. NeedsPost(run, e)
      BY <2>2, <2>5 DEF NeedsPost, Subscribed, OnList
    <3> QED
      BY <1>0, <2>2, <2>5, <3>1 DEF Tracked
  <2> QED
    BY <2>3, <2>4, <2>5
<1> QED
  BY <1>1, <1>2, <1>3

\* A run of pk-sync-ps-to-cc that nobody disturbed leaves the target lists, the
\* other lists and the names as its plan says, for any lists, contacts, limits,
\* edits and interrupted runs before it.
THEOREM ContactsAreSafe == ContactSpec => []ContactSafe
<1>1. ContactInv => ContactSafe
  BY TrackedSyncs DEF ContactSafe, ContactTypeOK, ContactInv, ContactParts,
                      PlanHolds, Runs
<1> QED
  BY ContactStart, ContactKeeps, <1>1, PTL DEF ContactSpec

\* Whatever others do meanwhile, a write of the run changes no list outside the
\* configuration, nor the permission, of a contact not edited since it was
\* loaded, and puts nobody who had opted out by then on a target list.
THEOREM WritesAreModest ==
    ContactSpec => UndoingNeedsEdit /\ OptOutAtLoadHolds
<1>1. ASSUME ContactInv, NEW e \in Emails \ edited, WriteContact(e)
      PROVE  /\ cc'.lists[e] \ Targets = cc.lists[e] \ Targets
             /\ e \in cc'.out <=> e \in cc.out
  <2>0. /\ run \in Runs /\ Sound(run.loaded) /\ cc \in Accounts
        /\ run.phase = "writing" /\ e \in run.left /\ Tracked(e)
    BY <1>1 DEF ContactInv, ContactParts, AllTracked, WriteContact, Post, Put
  <2>1. CASE Post(e)
    <3>1. cc'.lists[e] = cc.lists[e] \cup Subscribed(run, e) /\ cc'.out = cc.out
      BY <2>0, <2>1 DEF Post, Accounts
    <3> QED
      BY <3>1 DEF Subscribed
  <2>2. CASE Put(e)
    <3>1. cc'.lists[e] = PutLists(run, e) /\ cc'.out \in PutOut(e)
      BY <2>0, <2>2 DEF Put, Accounts
    <3>3. e \in cc'.out <=> e \in cc.out
      BY <2>0, <3>1 DEF Tracked, PutOut
    <3>2. cc.lists[e] \ Targets = run.loaded.lists[e] \ Targets
      BY <2>0 DEF Tracked, Subscribed
    <3> QED
      BY <2>0, <3>1, <3>2, <3>3, PutIsDesired
  <2> QED
    BY <1>1, <2>1, <2>2 DEF WriteContact
<1>2. ASSUME ContactInv, NEW e \in run.loaded.out, WriteContact(e)
      PROVE  cc'.lists[e] \cap Targets \subseteq cc.lists[e]
  <2>0. /\ run \in Runs /\ Sound(run.loaded) /\ cc \in Accounts
        /\ e \in Emails
    BY <1>2 DEF ContactInv, ContactParts, Runs, Accounts
  <2>1. Subscribed(run, e) = {} /\ \A t \in Targets : e \notin Desired(run, t)
    BY DEF Subscribed, Desired
  <2>2. Put(e)
    BY <1>2, <2>1 DEF WriteContact, Post, NeedsPost
  <2>3. cc'.lists[e] = PutLists(run, e)
    BY <2>0, <2>2 DEF Put, Accounts
  <2> QED
    BY <2>0, <2>1, <2>3, PutIsDesired
<1>3. ContactInv /\ [ContactNext]_contactVars =>
          /\ [\A e \in Emails \ edited :
                 WriteContact(e) =>
                     /\ cc'.lists[e] \ Targets = cc.lists[e] \ Targets
                     /\ e \in cc'.out <=> e \in cc.out]_contactVars
          /\ [\A e \in run.loaded.out :
                 WriteContact(e) => cc'.lists[e] \cap Targets \subseteq cc.lists[e]]_contactVars
  BY <1>1, <1>2
<1> QED
  BY ContactStart, ContactKeeps, <1>3, PTL
     DEF ContactSpec, UndoingNeedsEdit, OptOutAtLoadHolds

-----------------------------------------------------------------------------
(* The unsubscribed report.                                                *)

\* Some run has sent the day's report of the mapping and not yet recorded it.
InHand(d, m) == \E r \in Run : step[r] = "sent" /\ date[r] = d /\ at[r] = m

\* A report recorded for the day was sent; one neither recorded nor in a run's
\* hand was sent only by runs that failed or died.
Accounted ==
    \A d \in Day : \A m \in Mapping :
        /\ emailed[d][m] <= 1 + unmarked[d][m]
        /\ <<d, m>> \notin file.sent /\ ~InHand(d, m) =>
               emailed[d][m] <= unmarked[d][m]
        /\ <<d, m>> \in file.sent => emailed[d][m] > 0

\* A run that has sent a report is at a mapping the file does not record.
SentIsNew ==
    \A r \in Run : step[r] = "sent" =>
        /\ at[r] \in view[r]
        /\ <<date[r], at[r]>> \notin file.sent
        /\ emailed[date[r]][at[r]] > 0

\* The mappings a run has passed are recorded, if it had anything to report.
PassedRecorded ==
    \A r \in Run : step[r] \in {"looking", "sent"} =>
        \A m \in view[r] : m < at[r] => <<date[r], m>> \in file.sent

Counters ==
    /\ emailed \in [Day -> [Mapping -> Nat]]
    /\ unmarked \in [Day -> [Mapping -> Nat]]

ReportInv ==
    /\ ReportTypeOK
    /\ Counters
    /\ Accounted
    /\ SentIsNew
    /\ PassedRecorded
    /\ EndedMeansReported

LEMMA ReportStart == ReportInit => ReportInv
  BY ReportAssumption
     DEF ReportInit, ReportInv, ReportTypeOK, Counters, Accounted, SentIsNew,
         PassedRecorded, EndedMeansReported, InHand, NoState, States, Day,
         Mapping

\* What a step that moves no sent run, sends nothing and records nothing keeps.
LEMMA AccountedStays ==
  ASSUME Accounted, UNCHANGED <<emailed, unmarked>>, file'.sent = file.sent,
         \A r \in Run : step[r] = "sent" =>
             step'[r] = "sent" /\ date'[r] = date[r] /\ at'[r] = at[r]
  PROVE  Accounted'
<1> SUFFICES ASSUME NEW d \in Day, NEW m \in Mapping
             PROVE  /\ emailed'[d][m] <= 1 + unmarked'[d][m]
                    /\ <<d, m>> \notin file'.sent /\ ~InHand(d, m)' =>
                           emailed'[d][m] <= unmarked'[d][m]
                    /\ <<d, m>> \in file'.sent => emailed'[d][m] > 0
  BY Zenon DEF Accounted
<1>1. InHand(d, m) => InHand(d, m)'
  BY DEF InHand
<1> QED
  BY <1>1 DEF Accounted

LEMMA DecideKeeps ==
  ASSUME ReportInv, NEW q \in Run, Decide(q)
  PROVE  ReportInv'
<1>1. ReportTypeOK'
  BY ReportAssumption
     DEF Decide, ToStep, ReportInv, ReportTypeOK, States, Day, Mapping
<1>2. Counters'
  BY ReportAssumption
     DEF Decide, ToStep, ReportInv, Counters, ReportTypeOK, Day, Mapping
<1>3. Accounted'
  BY AccountedStays, ReportAssumption DEF Decide, ToStep, ReportInv, ReportTypeOK
<1>4. SentIsNew'
  BY ReportAssumption
     DEF Decide, ToStep, ReportInv, ReportTypeOK, Counters, SentIsNew, Day,
         Mapping
<1>5. PassedRecorded'
  BY ReportAssumption
     DEF Decide, ToStep, ReportInv, ReportTypeOK, PassedRecorded, Day, Mapping
<1>6. EndedMeansReported'
  BY ReportAssumption
     DEF Decide, ToStep, ReportInv, ReportTypeOK, Counters, EndedMeansReported,
         Day, Mapping
<1> QED
  BY <1>1, <1>2, <1>3, <1>4, <1>5, <1>6 DEF ReportInv

LEMMA EnterLockKeeps ==
  ASSUME ReportInv, NEW q \in Run, EnterLock(q)
  PROVE  ReportInv'
<1>1. ReportTypeOK'
  BY ReportAssumption
     DEF EnterLock, ToStep, ReportInv, ReportTypeOK, States, Day, Mapping
<1>2. Counters'
  BY ReportAssumption
     DEF EnterLock, ToStep, ReportInv, Counters, ReportTypeOK, Day, Mapping
<1>3. Accounted'
  BY AccountedStays, ReportAssumption
     DEF EnterLock, ToStep, ReportInv, ReportTypeOK
<1>4. SentIsNew'
  BY ReportAssumption
     DEF EnterLock, ToStep, ReportInv, ReportTypeOK, Counters, SentIsNew, Day,
         Mapping
<1>5. PassedRecorded'
  BY ReportAssumption
     DEF EnterLock, ToStep, ReportInv, ReportTypeOK, PassedRecorded, Day,
         Mapping
<1>6. EndedMeansReported'
  BY ReportAssumption
     DEF EnterLock, ToStep, ReportInv, ReportTypeOK, Counters,
         EndedMeansReported, Day, Mapping
<1> QED
  BY <1>1, <1>2, <1>3, <1>4, <1>5, <1>6 DEF ReportInv

LEMMA SkipKeeps ==
  ASSUME ReportInv, NEW q \in Run, Skip(q)
  PROVE  ReportInv'
<1>1. ReportTypeOK'
  BY ReportAssumption
     DEF Skip, Reported, ReportInv, ReportTypeOK, States, Day, Mapping
<1>2. Counters'
  BY ReportAssumption
     DEF Skip, Reported, ReportInv, Counters, ReportTypeOK, Day, Mapping
<1>3. Accounted'
  BY AccountedStays, ReportAssumption
     DEF Skip, Reported, ReportInv, ReportTypeOK
<1>4. SentIsNew'
  BY ReportAssumption
     DEF Skip, Reported, ReportInv, ReportTypeOK, Counters, SentIsNew, Day,
         Mapping
<1>5. PassedRecorded'
  BY ReportAssumption
     DEF Skip, Reported, ReportInv, ReportTypeOK, PassedRecorded, Day, Mapping
<1>6. EndedMeansReported'
  BY ReportAssumption
     DEF Skip, Reported, ReportInv, ReportTypeOK, Counters,
         EndedMeansReported, Day, Mapping
<1> QED
  BY <1>1, <1>2, <1>3, <1>4, <1>5, <1>6 DEF ReportInv

LEMMA SendKeeps ==
  ASSUME ReportInv, NEW q \in Run, Send(q)
  PROVE  ReportInv'
<1>1. ReportTypeOK'
  BY ReportAssumption
     DEF Send, Reported, ToStep, ReportInv, ReportTypeOK, States, Day, Mapping
<1>2. Counters'
  BY ReportAssumption
     DEF Send, Reported, ToStep, ReportInv, Counters, ReportTypeOK, Day, Mapping
<1>3. Accounted'
  <2> SUFFICES ASSUME NEW d \in Day, NEW m \in Mapping
               PROVE  /\ emailed'[d][m] <= 1 + unmarked'[d][m]
                      /\ <<d, m>> \notin file'.sent /\ ~InHand(d, m)' =>
                             emailed'[d][m] <= unmarked'[d][m]
                      /\ <<d, m>> \in file'.sent => emailed'[d][m] > 0
    BY Zenon DEF Accounted
  <2>1. /\ emailed[d][m] \in Nat /\ unmarked[d][m] \in Nat
        /\ emailed[d][m] <= 1 + unmarked[d][m]
        /\ <<d, m>> \notin file.sent /\ ~InHand(d, m) =>
               emailed[d][m] <= unmarked[d][m]
        /\ <<d, m>> \in file.sent => emailed[d][m] > 0
    BY DEF ReportInv, Counters, Accounted
  <2>2. InHand(d, m) => InHand(d, m)'
    BY DEF ReportInv, ReportTypeOK, Send, ToStep, InHand
  <2>3. CASE d = date[q] /\ m = at[q]
    <3>1. emailed'[d][m] = emailed[d][m] + 1
      BY <2>3 DEF ReportInv, Counters, Send
    <3>2. InHand(d, m)'
      BY <2>3 DEF ReportInv, ReportTypeOK, Send, ToStep, InHand
    <3>3. <<d, m>> \notin file.sent
      BY <2>3 DEF ReportInv, ReportTypeOK, Send, Reported
    <3>4. ~InHand(d, m)
      BY ReportAssumption DEF ReportInv, ReportTypeOK, Send, InHand
    <3> QED
      BY <2>1, <3>1, <3>2, <3>3, <3>4 DEF Send
  <2>4. CASE ~(d = date[q] /\ m = at[q])
    <3>1. emailed'[d][m] = emailed[d][m]
      BY <2>4 DEF ReportInv, Counters, Send
    <3> QED
      BY <2>1, <2>2, <3>1 DEF Send
  <2> QED
    BY <2>3, <2>4
<1>4. SentIsNew'
  <2>1. \A r \in Run : step'[r] = "sent" => r = q
    BY ReportAssumption DEF ReportInv, ReportTypeOK, Send, ToStep
  <2>2. /\ date[q] \in Day /\ at[q] \in Mapping
        /\ emailed[date[q]][at[q]] \in Nat
    BY DEF ReportInv, ReportTypeOK, Counters, Send
  <2>3. emailed'[date[q]][at[q]] = emailed[date[q]][at[q]] + 1
    BY <2>2 DEF ReportInv, Counters, Send
  <2>4. state[q] = file
    BY DEF ReportInv, ReportTypeOK, Send
  <2> QED
    BY <2>1, <2>2, <2>3, <2>4 DEF SentIsNew, Send, Reported
<1>5. PassedRecorded'
  BY ReportAssumption
     DEF Send, Reported, ToStep, ReportInv, ReportTypeOK, PassedRecorded, Day,
         Mapping
<1>6. EndedMeansReported'
  <2> SUFFICES ASSUME NEW r \in Run, step'[r] = "done", NEW m \in view'[r]
               PROVE  emailed'[date'[r]][m] > 0
    BY DEF EndedMeansReported
  <2>1. step[r] = "done" /\ date'[r] = date[r] /\ m \in view[r]
    BY DEF ReportInv, ReportTypeOK, Send, ToStep
  <2>2. /\ date[r] \in Day /\ m \in Mapping
        /\ emailed[date[r]][m] \in Nat /\ emailed[date[r]][m] > 0
    BY <2>1 DEF ReportInv, ReportTypeOK, Counters, EndedMeansReported
  <2>3. emailed'[date[r]][m] \in {emailed[date[r]][m], emailed[date[r]][m] + 1}
    BY <2>2 DEF ReportInv, Counters, Send
  <2> QED
    BY <2>1, <2>2, <2>3
<1> QED
  BY <1>1, <1>2, <1>3, <1>4, <1>5, <1>6 DEF ReportInv

LEMMA SendFailsKeeps ==
  ASSUME ReportInv, NEW q \in Run, SendFails(q)
  PROVE  ReportInv'
<1>1. ReportTypeOK'
  BY ReportAssumption
     DEF SendFails, Reported, ToStep, ReportInv, ReportTypeOK, States, Day,
         Mapping
<1>2. Counters'
  BY ReportAssumption
     DEF SendFails, Reported, ToStep, ReportInv, Counters, ReportTypeOK, Day,
         Mapping
<1>3. Accounted'
  BY AccountedStays, ReportAssumption
     DEF SendFails, Reported, ToStep, ReportInv, ReportTypeOK
<1>4. SentIsNew'
  BY ReportAssumption
     DEF SendFails, Reported, ToStep, ReportInv, ReportTypeOK, Counters,
         SentIsNew, Day, Mapping
<1>5. PassedRecorded'
  BY ReportAssumption
     DEF SendFails, Reported, ToStep, ReportInv, ReportTypeOK, PassedRecorded,
         Day, Mapping
<1>6. EndedMeansReported'
  BY ReportAssumption
     DEF SendFails, Reported, ToStep, ReportInv, ReportTypeOK, Counters,
         EndedMeansReported, Day, Mapping
<1> QED
  BY <1>1, <1>2, <1>3, <1>4, <1>5, <1>6 DEF ReportInv

LEMMA MarkKeeps ==
  ASSUME ReportInv, NEW q \in Run, Mark(q)
  PROVE  ReportInv'
<1>1. ReportTypeOK'
  <2> DEFINE marked == [state[q] EXCEPT !.sent = @ \cup {<<date[q], at[q]>>}]
  <2>1. /\ state[q] = file /\ file \in States /\ at[q] \in view[q]
        /\ view[q] \subseteq Mapping /\ date[q] \in Day
    BY DEF ReportInv, ReportTypeOK, SentIsNew, Mark
  <2>2. marked \in States /\ marked.sent = file.sent \cup {<<date[q], at[q]>>}
    BY <2>1 DEF States
  <2>3. file' = marked /\ state' = [state EXCEPT ![q] = marked]
    BY Zenon DEF Mark
  <2> HIDE DEF marked
  <2>4. at' \in [Run -> 1..(NumLists + 1)]
    BY <2>1, ReportAssumption DEF ReportInv, ReportTypeOK, Mark, Mapping
  <2>5. /\ file' \in States /\ state' \in [Run -> States]
        /\ \A r \in Run : flock' = r => state'[r] = file'
    BY <2>2, <2>3, ReportAssumption DEF ReportInv, ReportTypeOK, Mark
  <2> QED
    BY <2>4, <2>5, ReportAssumption DEF ReportInv, ReportTypeOK, Mark, ToStep
<1>2. Counters'
  BY ReportAssumption
     DEF Mark, ToStep, ReportInv, Counters, ReportTypeOK, Day, Mapping
<1>3. Accounted'
  <2> SUFFICES ASSUME NEW d \in Day, NEW m \in Mapping
               PROVE  /\ emailed'[d][m] <= 1 + unmarked'[d][m]
                      /\ <<d, m>> \notin file'.sent /\ ~InHand(d, m)' =>
                             emailed'[d][m] <= unmarked'[d][m]
                      /\ <<d, m>> \in file'.sent => emailed'[d][m] > 0
    BY Zenon DEF Accounted
  <2>1. /\ emailed[d][m] \in Nat /\ unmarked[d][m] \in Nat
        /\ emailed[d][m] <= 1 + unmarked[d][m]
        /\ <<d, m>> \notin file.sent /\ ~InHand(d, m) =>
               emailed[d][m] <= unmarked[d][m]
        /\ <<d, m>> \in file.sent => emailed[d][m] > 0
    BY DEF ReportInv, Counters, Accounted
  <2>2. file'.sent = file.sent \cup {<<date[q], at[q]>>}
    BY DEF ReportInv, ReportTypeOK, Mark, States
  <2>3. emailed' = emailed /\ unmarked' = unmarked
    BY DEF Mark
  <2>4. InHand(d, m) => d = date[q] /\ m = at[q]
    BY DEF ReportInv, ReportTypeOK, Mark, InHand
  <2>5. d = date[q] /\ m = at[q] => emailed[d][m] > 0
    BY DEF ReportInv, SentIsNew, Mark
  <2> QED
    BY <2>1, <2>2, <2>3, <2>4, <2>5
<1>4. SentIsNew'
  <2>1. \A r \in Run : step'[r] # "sent"
    BY DEF ReportInv, ReportTypeOK, Mark, ToStep
  <2> QED
    BY <2>1 DEF SentIsNew
<1>5. PassedRecorded'
  <2>1. file'.sent = file.sent \cup {<<date[q], at[q]>>}
    BY DEF ReportInv, ReportTypeOK, Mark, States
  <2>2. \A r \in Run : step'[r] \in {"looking", "sent"} => r = q
    BY DEF ReportInv, ReportTypeOK, Mark, ToStep
  <2>3. at'[q] = at[q] + 1 /\ at[q] \in Nat /\ view[q] \subseteq Nat
    BY ReportAssumption DEF ReportInv, ReportTypeOK, Mark, Mapping
  <2>4. \A m \in view[q] : m < at[q] => <<date[q], m>> \in file.sent
    BY DEF ReportInv, PassedRecorded, Mark
  <2>5. \A m \in view[q] : m < at[q] + 1 => m < at[q] \/ m = at[q]
    BY <2>3
  <2> QED
    BY <2>1, <2>2, <2>3, <2>4, <2>5 DEF PassedRecorded, Mark
<1>6. EndedMeansReported'
  BY ReportAssumption
     DEF Mark, ToStep, ReportInv, ReportTypeOK, Counters, EndedMeansReported,
         Day, Mapping
<1> QED
  BY <1>1, <1>2, <1>3, <1>4, <1>5, <1>6 DEF ReportInv

LEMMA CloseKeeps ==
  ASSUME ReportInv, NEW q \in Run, Close(q)
  PROVE  ReportInv'
<1>1. ReportTypeOK'
  <2> DEFINE closed == [state[q] EXCEPT !.last = date[q]]
  <2>1. state[q] = file /\ file \in States /\ date[q] \in Day
    BY ReportAssumption DEF ReportInv, ReportTypeOK, Close
  <2>2. closed \in States /\ closed.sent = file.sent
    BY <2>1, ReportAssumption DEF States, Day
  <2>3. file' = closed
    BY Zenon DEF Close
  <2> HIDE DEF closed
  <2> QED
    BY <2>2, <2>3, ReportAssumption DEF ReportInv, ReportTypeOK, Close, ToStep
<1>2. Counters'
  BY ReportAssumption
     DEF Close, ToStep, ReportInv, Counters, ReportTypeOK, Day, Mapping
<1>3. Accounted'
  <2> DEFINE closed == [state[q] EXCEPT !.last = date[q]]
  <2>1. state[q] = file /\ file \in States /\ date[q] \in Day
    BY ReportAssumption DEF ReportInv, ReportTypeOK, Close
  <2>2. closed \in States /\ closed.sent = file.sent
    BY <2>1, ReportAssumption DEF States, Day
  <2>3. file' = closed
    BY Zenon DEF Close
  <2> HIDE DEF closed
  <2> QED
    BY <2>2, <2>3, AccountedStays DEF ReportInv, ReportTypeOK, Close, ToStep
<1>4. SentIsNew'
  <2>1. \A r \in Run : step'[r] # "sent"
    BY DEF ReportInv, ReportTypeOK, Close, ToStep
  <2> QED
    BY <2>1 DEF SentIsNew
<1>5. PassedRecorded'
  <2>1. \A r \in Run : step'[r] \notin {"looking", "sent"}
    BY DEF ReportInv, ReportTypeOK, Close, ToStep
  <2> QED
    BY <2>1 DEF PassedRecorded
<1>6. EndedMeansReported'
  <2>1. \A m \in view[q] : m \in Mapping /\ m < at[q]
    BY ReportAssumption DEF ReportInv, ReportTypeOK, Close, Mapping
  <2>2. \A m \in view[q] : emailed[date[q]][m] > 0
    BY <2>1 DEF ReportInv, ReportTypeOK, PassedRecorded, Accounted, Close
  <2> QED
    BY <2>2 DEF ReportInv, ReportTypeOK, EndedMeansReported, Close, ToStep
<1> QED
  BY <1>1, <1>2, <1>3, <1>4, <1>5, <1>6 DEF ReportInv

LEMMA SendFailsLateKeeps ==
  ASSUME ReportInv, NEW q \in Run, SendFailsLate(q)
  PROVE  ReportInv'
<1>0. /\ step[q] = "sent" /\ date[q] \in Day /\ at[q] \in Mapping /\ flock = q
      /\ unmarked' = [unmarked EXCEPT ![date[q]][at[q]] = @ + 1]
      /\ file' = file /\ emailed' = emailed
  BY DEF SendFailsLate, ReportInv, ReportTypeOK, SentIsNew
<1>1. ReportTypeOK'
  BY ReportAssumption
     DEF SendFailsLate, ToStep, ReportInv, ReportTypeOK, States, Day, Mapping
<1>2. Counters'
  BY <1>0 DEF ReportInv, Counters
<1>3. Accounted'
  <2> SUFFICES ASSUME NEW d \in Day, NEW m \in Mapping
               PROVE  /\ emailed'[d][m] <= 1 + unmarked'[d][m]
                      /\ <<d, m>> \notin file'.sent /\ ~InHand(d, m)' =>
                             emailed'[d][m] <= unmarked'[d][m]
                      /\ <<d, m>> \in file'.sent => emailed'[d][m] > 0
    BY Zenon DEF Accounted
  <2>1. /\ emailed[d][m] \in Nat /\ unmarked[d][m] \in Nat
        /\ emailed[d][m] <= 1 + unmarked[d][m]
        /\ <<d, m>> \notin file.sent /\ ~InHand(d, m) =>
               emailed[d][m] <= unmarked[d][m]
        /\ <<d, m>> \in file.sent => emailed[d][m] > 0
    BY DEF ReportInv, Counters, Accounted
  <2>2. CASE d = date[q] /\ m = at[q]
    <3>1. unmarked'[d][m] = unmarked[d][m] + 1
      BY <1>0, <2>2 DEF ReportInv, Counters
    <3> QED
      BY <1>0, <2>1, <3>1
  <2>3. CASE ~(d = date[q] /\ m = at[q])
    <3>1. unmarked'[d][m] = unmarked[d][m]
      BY <1>0, <2>3 DEF ReportInv, Counters
    <3>2. ~InHand(d, m)
      BY <1>0, <2>3 DEF ReportInv, ReportTypeOK, InHand
    <3> QED
      BY <1>0, <2>1, <3>1, <3>2
  <2> QED
    BY <2>2, <2>3
<1>4. SentIsNew'
  BY ReportAssumption
     DEF SendFailsLate, ToStep, ReportInv, ReportTypeOK, Counters, SentIsNew, Day,
         Mapping
<1>5. PassedRecorded'
  BY ReportAssumption
     DEF SendFailsLate, ToStep, ReportInv, ReportTypeOK, PassedRecorded, Day,
         Mapping
<1>6. EndedMeansReported'
  BY ReportAssumption
     DEF SendFailsLate, ToStep, ReportInv, ReportTypeOK, Counters,
         EndedMeansReported, Day, Mapping
<1> QED
  BY <1>1, <1>2, <1>3, <1>4, <1>5, <1>6 DEF ReportInv

LEMMA DieKeeps ==
  ASSUME ReportInv, NEW q \in Run, Die(q)
  PROVE  ReportInv'
<1>1. ReportTypeOK'
  BY ReportAssumption
     DEF Die, ToStep, ReportInv, ReportTypeOK, States, Day, Mapping
<1>2. Counters'
  <2>1. CASE step[q] = "sent"
    <3>1. date[q] \in Day /\ at[q] \in Mapping
      BY <2>1 DEF ReportInv, ReportTypeOK, SentIsNew
    <3>2. unmarked' = [unmarked EXCEPT ![date[q]][at[q]] = @ + 1]
      BY <2>1 DEF Die
    <3> QED
      BY <3>1, <3>2 DEF ReportInv, Counters, Die
  <2> QED
    BY <2>1 DEF ReportInv, Counters, Die
<1>3. Accounted'
  <2>1. CASE step[q] # "sent"
    BY <2>1, AccountedStays DEF ReportInv, ReportTypeOK, Die, ToStep
  <2>2. CASE step[q] = "sent"
    <3> SUFFICES ASSUME NEW d \in Day, NEW m \in Mapping
                 PROVE  /\ emailed'[d][m] <= 1 + unmarked'[d][m]
                        /\ <<d, m>> \notin file'.sent /\ ~InHand(d, m)' =>
                               emailed'[d][m] <= unmarked'[d][m]
                        /\ <<d, m>> \in file'.sent => emailed'[d][m] > 0
      BY Zenon DEF Accounted
    <3>1. /\ emailed[d][m] \in Nat /\ unmarked[d][m] \in Nat
          /\ emailed[d][m] <= 1 + unmarked[d][m]
          /\ <<d, m>> \notin file.sent /\ ~InHand(d, m) =>
                 emailed[d][m] <= unmarked[d][m]
          /\ <<d, m>> \in file.sent => emailed[d][m] > 0
      BY DEF ReportInv, Counters, Accounted
    <3>2. file' = file /\ emailed' = emailed
      BY DEF Die
    <3>3. CASE d = date[q] /\ m = at[q]
      <4>1. unmarked'[d][m] = unmarked[d][m] + 1
        BY <2>2, <3>3 DEF ReportInv, Counters, Die
      <4> QED
        BY <3>1, <3>2, <4>1
    <3>4. CASE ~(d = date[q] /\ m = at[q])
      <4>1. unmarked'[d][m] = unmarked[d][m]
        BY <2>2, <3>4 DEF ReportInv, Counters, Die
      <4>2. ~InHand(d, m)
        BY <2>2, <3>4 DEF ReportInv, ReportTypeOK, InHand
      <4> QED
        BY <3>1, <3>2, <4>1, <4>2
    <3> QED
      BY <3>3, <3>4
  <2> QED
    BY <2>1, <2>2
<1>4. SentIsNew'
  BY ReportAssumption
     DEF Die, ToStep, ReportInv, ReportTypeOK, Counters, SentIsNew, Day, Mapping
<1>5. PassedRecorded'
  BY ReportAssumption
     DEF Die, ToStep, ReportInv, ReportTypeOK, PassedRecorded, Day, Mapping
<1>6. EndedMeansReported'
  BY ReportAssumption
     DEF Die, ToStep, ReportInv, ReportTypeOK, Counters, EndedMeansReported,
         Day, Mapping
<1> QED
  BY <1>1, <1>2, <1>3, <1>4, <1>5, <1>6 DEF ReportInv

LEMMA NextDayKeeps ==
  ASSUME ReportInv, NextDay
  PROVE  ReportInv'
<1>1. today' \in Day
  BY ReportAssumption DEF NextDay, ReportInv, ReportTypeOK, Day
<1>2. Accounted'
  BY AccountedStays DEF NextDay, ReportInv
<1> QED
  BY <1>1, <1>2 DEF NextDay, ReportInv, ReportTypeOK, Counters, SentIsNew,
                    PassedRecorded, EndedMeansReported

LEMMA ReportStutters ==
  ASSUME ReportInv, UNCHANGED reportVars
  PROVE  ReportInv'
  BY DEF reportVars, ReportInv, ReportTypeOK, Counters, Accounted, SentIsNew,
         PassedRecorded, EndedMeansReported, InHand

\* However the daily runs of pk-sync-ps-to-cc overlap, cross midnight, fail to
\* send or to record, and die: a mapping's report for a day is sent again only
\* for a run that failed or died between the provider's taking it and its
\* record, and a run that ended well has had every mapping it saw opt-outs in
\* reported.
THEOREM ReportsAreSafe == ReportSpec => []ReportSafe
<1>1. ReportInv /\ [ReportNext]_reportVars => ReportInv'
  <2> SUFFICES ASSUME ReportInv, [ReportNext]_reportVars PROVE ReportInv'
    OBVIOUS
  <2>1. CASE UNCHANGED reportVars
    BY <2>1, ReportStutters
  <2>2. CASE NextDay
    BY <2>2, NextDayKeeps
  <2>3. CASE \E r \in Run : Decide(r) \/ RunStep(r) \/ Die(r)
    BY <2>3, DecideKeeps, EnterLockKeeps, SkipKeeps, SendKeeps, SendFailsKeeps,
       SendFailsLateKeeps, MarkKeeps, CloseKeeps, DieKeeps DEF RunStep
  <2> QED
    BY <2>1, <2>2, <2>3 DEF ReportNext
<1>2. ReportInv => ReportSafe
  BY DEF ReportInv, ReportSafe, RepeatNeedsLostRecord, Accounted
<1> QED
  BY ReportStart, <1>1, <1>2, PTL DEF ReportSpec
=============================================================================
