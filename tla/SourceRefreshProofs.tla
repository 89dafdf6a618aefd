------------------------ MODULE SourceRefreshProofs ------------------------
(***************************************************************************)
(* SourceSafe holds in every reachable state, for any number of requests,  *)
(* workers, windows, faults and scope changes; and SlotsSafe and SlotsKept *)
(* for every pair of schedules, margin, allowance and lead.                *)
(***************************************************************************)
EXTENDS SourceRefresh, RefreshSlots, FiniteSetTheorems, WellFoundedInduction, TLAPS

-----------------------------------------------------------------------------
(* The inductive invariant.                                                *)

\* The stages of a worker by what they say about its source fence.
Unfenced == {"idle", "existing", "prepare", "compact", "acquire"}
Opening == {"compacting", "begin"}
Loading == {"inputs", "fetch", "calling", "loaded", "stage", "complete"}
Closing == {"retire", "promote"}

\* A request in flight is the lease's own, under its reserved deadline.
CallsOK == calls \subseteq {lease.fence} /\ (calls # {} => lease.ext)

\* A worker acts for a claim it was given.  While no later claim was made the
\* run is running, and past the first check it has published nothing.
ClaimOK(w) ==
  worker[w].pc # "idle" =>
    /\ worker[w].r \in Requests
    /\ worker[w].tf <= req[worker[w].r].tf
    /\ worker[w].tf = req[worker[w].r].tf =>
         /\ req[worker[w].r].state = "running"
         /\ worker[w].pc \notin {"existing", "settle"} => ~Completed(worker[w].r)

\* Where the worker's snapshot is.  Once a later fence was granted it may be
\* retired under its feet.
FenceOK(w) ==
  LET f == worker[w].sf
  IN /\ worker[w].pc \in Unfenced => f = 0
     /\ worker[w].pc \in Opening => f # 0 /\ f \notin DOMAIN snap
     /\ worker[w].pc \in Loading \union Closing \union {"settle"} =>
          f \in DOMAIN snap /\ snap[f].r = worker[w].r
     /\ worker[w].pc \in Loading /\ f = lease.fence => snap[f].state = "staging"
     /\ worker[w].pc \in Closing /\ f = lease.fence => snap[f].state = "ready"

OneWorkerPerClaim ==
  \A w, v \in Workers :
    /\ worker[w].pc # "idle" /\ worker[v].pc # "idle"
    /\ worker[w].r = worker[v].r /\ worker[w].tf = worker[v].tf
    => w = v

OneWorkerPerFence ==
  \A w, v \in Workers : worker[w].sf # 0 /\ worker[w].sf = worker[v].sf => w = v

\* An open snapshot of the newest fence is compared with the current corpus.
OpenOnCurrent ==
  \A f \in DOMAIN snap :
    f = lease.fence /\ snap[f].state \in {"staging", "ready"} =>
      snap[f].base = current.snap

\* The newest refusal was compared with the current corpus, too.
RefusalOK ==
  refusal # 0 => /\ snap[refusal].state = "rejected"
                 /\ snap[refusal].base = current.snap

\* An acceptance that was used names a rejected load, no longer the newest.
AcceptedOK ==
  \A f \in Promoted :
    snap[f].acc # 0 =>
      /\ snap[f].acc \in DOMAIN snap /\ snap[f].acc # refusal
      /\ snap[snap[f].acc].state = "rejected"

\* OutcomeIsPublication without counting.
OutcomeOK ==
  /\ \A f, g \in Promoted : snap[f].r = snap[g].r => f = g
  /\ \A r \in Requests :
       /\ req[r].state = "succeeded" => Completed(r)
       /\ req[r].state \in {"failed", "cancelled"} => ~Completed(r)

SourceInv ==
  /\ SourceTypeOK
  /\ CallsOK
  /\ \A w \in Workers : ClaimOK(w) /\ FenceOK(w)
  /\ OneWorkerPerClaim
  /\ OneWorkerPerFence
  /\ OpenOnCurrent
  /\ RefusalOK
  /\ AcceptedOK
  /\ TruthIsAChain
  /\ OutcomeOK
  /\ AcceptedAsReviewed

-----------------------------------------------------------------------------
(* The snapshots.                                                          *)

\* What every step but a promotion leaves of the snapshots.
SnapKept ==
  /\ DOMAIN snap \subseteq DOMAIN snap'
  /\ \A f \in DOMAIN snap :
       /\ snap'[f].r = snap[f].r /\ snap'[f].base = snap[f].base
       /\ snap[f].state = "promoted" => snap'[f] = snap[f]
       /\ snap'[f].state = "promoted" => snap[f].state = "promoted"
       /\ snap[f].state = "rejected" => snap'[f].state = "rejected"
  /\ \A f \in DOMAIN snap' \ DOMAIN snap : snap'[f].state # "promoted"

LEMMA SamePromoted ==
  ASSUME SnapKept
  PROVE  /\ Promoted' = Promoted
         /\ \A f \in Promoted : snap'[f] = snap[f]
         /\ \A r : Completed(r)' <=> Completed(r)
  <1>1. Promoted' = Promoted /\ \A f \in Promoted : snap'[f] = snap[f]
    BY DEF SnapKept, Promoted
  <1>2. ASSUME NEW r PROVE Completed(r)' <=> Completed(r)
    BY DEF SnapKept, Completed, Attempts
  <1> QED BY <1>1, <1>2

\* Without a promotion source truth stays the chain it is.
LEMMA StoreKept ==
  ASSUME TruthIsAChain, AcceptedOK, AcceptedAsReviewed, SnapKept, current' = current
  PROVE  TruthIsAChain' /\ AcceptedAsReviewed'
  <1>1. /\ Promoted' = Promoted
        /\ \A f \in Promoted : snap'[f] = snap[f]
    BY SamePromoted
  <1>2. TruthIsAChain'
    <2>1. /\ current'.gen = Cardinality(Promoted')
          /\ current'.snap = IF Promoted' = {} THEN 0 ELSE Max(Promoted')
      BY <1>1 DEF TruthIsAChain
    <2>2. ASSUME NEW f \in Promoted'
          PROVE  LET before == {g \in Promoted' : g < f}
                 IN /\ snap'[f].gen = Cardinality(before) + 1
                    /\ snap'[f].base = IF before = {} THEN 0 ELSE Max(before)
      BY <1>1, <2>2, Zenon DEF TruthIsAChain
    <2> QED BY <2>1, <2>2, Zenon DEF TruthIsAChain
  <1>3. AcceptedAsReviewed'
    <2> SUFFICES ASSUME NEW f \in Promoted', snap'[f].acc # 0
                 PROVE  /\ snap'[f].base = snap'[snap'[f].acc].base
                        /\ \A g \in Promoted' \ {f} : snap'[g].acc # snap'[f].acc
      BY Zenon DEF AcceptedAsReviewed
    <2>1. snap'[f] = snap[f] /\ f \in Promoted BY <1>1
    <2>2. snap[f].acc \in DOMAIN snap BY <2>1 DEF AcceptedOK
    <2>3. snap'[snap[f].acc].base = snap[snap[f].acc].base BY <2>2 DEF SnapKept
    <2>4. /\ snap[f].base = snap[snap[f].acc].base
          /\ \A g \in Promoted \ {f} : snap[g].acc # snap[f].acc
      BY <2>1 DEF AcceptedAsReviewed
    <2> QED BY <2>1, <2>3, <2>4, <1>1
  <1> QED BY <1>2, <1>3

\* What a step without a promotion has to show, C being the workers it moves.
LEMMA UnpromotedKeeps ==
  ASSUME SourceInv, SourceTypeOK', CallsOK', SnapKept, current' = current,
         NEW C \in SUBSET Workers,
         \A w \in C : ClaimOK(w)' /\ FenceOK(w)',
         \A v \in Workers \ C : worker'[v] = worker[v],
         \A v \in Workers \ C : worker[v].sf # 0 =>
           /\ worker[v].sf \notin DOMAIN snap => worker[v].sf \notin DOMAIN snap'
           /\ worker[v].sf \in DOMAIN snap /\ worker[v].sf = lease'.fence =>
                /\ lease.fence = lease'.fence
                /\ snap'[worker[v].sf].state = snap[worker[v].sf].state,
         \A v \in Workers \ C : worker[v].pc # "idle" =>
           /\ req[worker[v].r].tf <= req'[worker[v].r].tf
           /\ worker[v].tf = req'[worker[v].r].tf =>
                /\ worker[v].tf = req[worker[v].r].tf
                /\ req'[worker[v].r].state = "running",
         OneWorkerPerClaim', OneWorkerPerFence',
         OpenOnCurrent', RefusalOK', AcceptedOK',
         \A r \in Requests :
           /\ req'[r].state = "succeeded" => req[r].state = "succeeded" \/ Completed(r)
           /\ req'[r].state \in {"failed", "cancelled"} =>
                req[r].state \in {"failed", "cancelled"} \/ ~Completed(r)
  PROVE  SourceInv'
  <1>1. /\ Promoted' = Promoted
        /\ \A f \in Promoted : snap'[f] = snap[f]
        /\ \A r : Completed(r)' <=> Completed(r)
    BY SamePromoted
  <1>2. TruthIsAChain' /\ AcceptedAsReviewed'
    BY StoreKept DEF SourceInv
  <1>3. ASSUME NEW v \in Workers PROVE ClaimOK(v)' /\ FenceOK(v)'
    <2>1. CASE v \in C BY <2>1
    <2>2. CASE v \notin C
      <3>0. worker'[v] = worker[v] /\ ClaimOK(v) /\ FenceOK(v) BY <2>2 DEF SourceInv
      <3>1. ClaimOK(v)'
        <4> SUFFICES ASSUME worker[v].pc # "idle"
                     PROVE  /\ worker[v].r \in Requests
                            /\ worker[v].tf <= req'[worker[v].r].tf
                            /\ worker[v].tf = req'[worker[v].r].tf =>
                                 /\ req'[worker[v].r].state = "running"
                                 /\ worker[v].pc \notin {"existing", "settle"} =>
                                      ~Completed(worker[v].r)
          BY <3>0, <1>1, Zenon DEF ClaimOK
        <4>1. worker[v].r \in Requests /\ worker[v].tf <= req[worker[v].r].tf
          BY <3>0, Zenon DEF ClaimOK
        <4>2. /\ req[worker[v].r].tf \in Nat /\ req'[worker[v].r].tf \in Nat
              /\ worker[v].tf \in Nat
          BY <4>1 DEF SourceInv, SourceTypeOK
        <4>3. worker[v].tf <= req'[worker[v].r].tf BY <2>2, <4>1, <4>2
        <4>4. worker[v].tf = req'[worker[v].r].tf =>
                 /\ req'[worker[v].r].state = "running"
                 /\ worker[v].pc \notin {"existing", "settle"} =>
                      ~Completed(worker[v].r)
          BY <2>2, <3>0, Zenon DEF ClaimOK
        <4> QED BY <4>1, <4>3, <4>4
      <3>2. FenceOK(v)'
        <4> DEFINE f == worker[v].sf
        <4>1. 0 \notin DOMAIN snap BY DEF SourceInv, SourceTypeOK
        <4>2. f \in DOMAIN snap => f \in DOMAIN snap' /\ snap'[f].r = snap[f].r
          BY DEF SnapKept
        <4>3. f # 0 => /\ f \notin DOMAIN snap => f \notin DOMAIN snap'
                       /\ f \in DOMAIN snap /\ f = lease'.fence =>
                            /\ lease.fence = lease'.fence
                            /\ snap'[f].state = snap[f].state
          BY <2>2
        <4> QED BY <3>0, <4>1, <4>2, <4>3 DEF FenceOK
      <3> QED BY <3>1, <3>2
    <2> QED BY <2>1, <2>2
  <1>4. OutcomeOK'
    <2>1. \A f, g \in Promoted' : snap'[f].r = snap'[g].r => f = g
      BY <1>1 DEF SourceInv, OutcomeOK
    <2>2. ASSUME NEW r \in Requests
          PROVE  /\ req'[r].state = "succeeded" => Completed(r)'
                 /\ req'[r].state \in {"failed", "cancelled"} => ~Completed(r)'
      BY <1>1 DEF SourceInv, OutcomeOK
    <2> QED BY <2>1, <2>2 DEF OutcomeOK
  <1> QED BY <1>2, <1>3, <1>4 DEF SourceInv

-----------------------------------------------------------------------------
(* The shapes of the other steps.                                          *)

LEMMA Unmoved ==
  ASSUME UNCHANGED snap PROVE SnapKept
  BY DEF SnapKept

\* A worker that keeps its claim and its fence, or gives them up, takes
\* nothing from another.
LEMMA PairsKept ==
  ASSUME OneWorkerPerClaim, OneWorkerPerFence, NEW w \in Workers,
         \A v \in Workers \ {w} : worker'[v] = worker[v],
         worker'[w].sf \in {0, worker[w].sf},
         worker'[w].pc # "idle" => /\ worker[w].pc # "idle"
                                   /\ worker'[w].r = worker[w].r
                                   /\ worker'[w].tf = worker[w].tf
  PROVE  OneWorkerPerClaim' /\ OneWorkerPerFence'
  <1>1. ASSUME NEW u \in Workers, NEW v \in Workers,
               worker'[u].pc # "idle", worker'[v].pc # "idle",
               worker'[u].r = worker'[v].r, worker'[u].tf = worker'[v].tf
        PROVE  u = v
    <2>1. \A x \in Workers : worker'[x].pc # "idle" =>
            /\ worker[x].pc # "idle"
            /\ worker'[x].r = worker[x].r /\ worker'[x].tf = worker[x].tf
      OBVIOUS
    <2> QED BY <1>1, <2>1 DEF OneWorkerPerClaim
  <1>2. ASSUME NEW u \in Workers, NEW v \in Workers,
               worker'[u].sf # 0, worker'[u].sf = worker'[v].sf
        PROVE  u = v
    <2>1. \A x \in Workers : worker'[x].sf \in {0, worker[x].sf} OBVIOUS
    <2> QED BY <1>2, <2>1 DEF OneWorkerPerFence
  <1> QED BY <1>1, <1>2 DEF OneWorkerPerClaim, OneWorkerPerFence

\* Steps of time and of Administrators.
LEMMA QuietKeeps ==
  ASSUME SourceInv, SourceTypeOK', CallsOK',
         UNCHANGED <<req, snap, current, worker, refusal>>, lease'.fence = lease.fence
  PROVE  SourceInv'
  <1>1. SnapKept BY Unmoved
  <1>2. OneWorkerPerClaim' /\ OneWorkerPerFence'
    BY DEF SourceInv, OneWorkerPerClaim, OneWorkerPerFence
  <1>3. OpenOnCurrent' /\ RefusalOK' /\ AcceptedOK'
    BY DEF SourceInv, OpenOnCurrent, RefusalOK, AcceptedOK, Promoted
  <1>4. \A v \in Workers : worker[v].pc # "idle" =>
           /\ req[worker[v].r].tf <= req'[worker[v].r].tf
           /\ worker[v].tf = req'[worker[v].r].tf =>
                /\ worker[v].tf = req[worker[v].r].tf
                /\ req'[worker[v].r].state = "running"
    <2> SUFFICES ASSUME NEW v \in Workers, worker[v].pc # "idle"
                 PROVE  /\ req[worker[v].r].tf <= req[worker[v].r].tf
                        /\ worker[v].tf = req[worker[v].r].tf =>
                             req[worker[v].r].state = "running"
      OBVIOUS
    <2>1. ClaimOK(v) BY DEF SourceInv
    <2>2. req[worker[v].r].tf \in Nat BY <2>1 DEF ClaimOK, SourceInv, SourceTypeOK
    <2> QED BY <2>1, <2>2 DEF ClaimOK
  <1>5. {} \in SUBSET Workers /\ \A v \in Workers \ {} : v \in Workers OBVIOUS
  <1>6. /\ \A v \in Workers \ {} : worker'[v] = worker[v]
        /\ \A v \in Workers \ {} : worker[v].sf # 0 =>
           /\ worker[v].sf \notin DOMAIN snap => worker[v].sf \notin DOMAIN snap'
           /\ worker[v].sf \in DOMAIN snap /\ worker[v].sf = lease'.fence =>
                /\ lease.fence = lease'.fence
                /\ snap'[worker[v].sf].state = snap[worker[v].sf].state
    OBVIOUS
  <1>7. \A r \in Requests :
           /\ req'[r].state = "succeeded" => req[r].state = "succeeded" \/ Completed(r)
           /\ req'[r].state \in {"failed", "cancelled"} =>
                req[r].state \in {"failed", "cancelled"} \/ ~Completed(r)
    OBVIOUS
  <1>8. current' = current OBVIOUS
  <1> QED BY <1>1, <1>2, <1>3, <1>4, <1>5, <1>6, <1>7, <1>8, UnpromotedKeeps, Zenon

\* Steps of the web and of the scan on one request.
LEMMA RequestKeeps ==
  ASSUME SourceInv, SourceTypeOK', NEW r \in Requests,
         UNCHANGED <<lease, snap, current, worker, calls, refusal>>,
         \A q \in Requests \ {r} : req'[q] = req[q],
         \/ req'[r].tf = req[r].tf + 1
         \/ /\ req'[r].tf = req[r].tf
            /\ req[r].state = "running" => req'[r].state = "running",
         req'[r].state = "succeeded" => Completed(r),
         req'[r].state \in {"failed", "cancelled"} => ~Completed(r)
  PROVE  SourceInv'
  <1>1. SnapKept BY Unmoved
  <1>2. OneWorkerPerClaim' /\ OneWorkerPerFence'
    BY DEF SourceInv, OneWorkerPerClaim, OneWorkerPerFence
  <1>3. OpenOnCurrent' /\ RefusalOK' /\ AcceptedOK' /\ CallsOK'
    BY DEF SourceInv, OpenOnCurrent, RefusalOK, AcceptedOK, Promoted, CallsOK
  <1>4. ASSUME NEW v \in Workers, worker[v].pc # "idle"
        PROVE  /\ req[worker[v].r].tf <= req'[worker[v].r].tf
               /\ worker[v].tf = req'[worker[v].r].tf =>
                    /\ worker[v].tf = req[worker[v].r].tf
                    /\ req'[worker[v].r].state = "running"
    <2>1. ClaimOK(v) BY DEF SourceInv
    <2>2. /\ worker[v].r \in Requests /\ worker[v].tf <= req[worker[v].r].tf
          /\ worker[v].tf = req[worker[v].r].tf => req[worker[v].r].state = "running"
      BY <1>4, <2>1 DEF ClaimOK
    <2>3. req[worker[v].r].tf \in Nat /\ worker[v].tf \in Nat
      BY <2>2 DEF SourceInv, SourceTypeOK
    <2>4. CASE worker[v].r = r BY <2>2, <2>3, <2>4
    <2>5. CASE worker[v].r # r
      <3>1. req'[worker[v].r] = req[worker[v].r] BY <2>2, <2>5
      <3> QED BY <2>2, <2>3, <3>1
    <2> QED BY <2>4, <2>5
  <1>5. \A q \in Requests :
           /\ req'[q].state = "succeeded" => req[q].state = "succeeded" \/ Completed(q)
           /\ req'[q].state \in {"failed", "cancelled"} =>
                req[q].state \in {"failed", "cancelled"} \/ ~Completed(q)
    OBVIOUS
  <1>6. {} \in SUBSET Workers /\ \A v \in Workers \ {} : v \in Workers OBVIOUS
  <1>7. /\ \A v \in Workers \ {} : worker'[v] = worker[v]
        /\ \A v \in Workers \ {} : worker[v].sf # 0 =>
           /\ worker[v].sf \notin DOMAIN snap => worker[v].sf \notin DOMAIN snap'
           /\ worker[v].sf \in DOMAIN snap /\ worker[v].sf = lease'.fence =>
                /\ lease.fence = lease'.fence
                /\ snap'[worker[v].sf].state = snap[worker[v].sf].state
    OBVIOUS
  <1>8. current' = current OBVIOUS
  <1> QED BY <1>1, <1>2, <1>3, <1>4, <1>5, <1>6, <1>7, <1>8, UnpromotedKeeps, Zenon

\* A worker goes on under the fence it has, or gives it up.
LEMMA MoveKeeps ==
  ASSUME SourceInv, SourceTypeOK', CallsOK', NEW w \in Workers,
         UNCHANGED <<req, snap, current, refusal>>, lease'.fence = lease.fence,
         \A v \in Workers \ {w} : worker'[v] = worker[v],
         worker'[w].sf \in {0, worker[w].sf},
         worker'[w].pc # "idle" =>
           /\ worker[w].pc # "idle"
           /\ worker'[w].r = worker[w].r /\ worker'[w].tf = worker[w].tf
           /\ worker[w].pc \notin {"existing", "settle"} \/ ~Completed(worker[w].r),
         FenceOK(w)'
  PROVE  SourceInv'
  <1>1. SnapKept BY Unmoved
  <1>2. OneWorkerPerClaim' /\ OneWorkerPerFence'
    BY PairsKept DEF SourceInv
  <1>3. OpenOnCurrent' /\ RefusalOK' /\ AcceptedOK'
    BY DEF SourceInv, OpenOnCurrent, RefusalOK, AcceptedOK, Promoted
  <1>4. ASSUME NEW v \in Workers, worker[v].pc # "idle"
        PROVE  /\ req[worker[v].r].tf <= req'[worker[v].r].tf
               /\ worker[v].tf = req'[worker[v].r].tf =>
                    /\ worker[v].tf = req[worker[v].r].tf
                    /\ req'[worker[v].r].state = "running"
    <2>1. ClaimOK(v) BY DEF SourceInv
    <2>2. req[worker[v].r].tf \in Nat
      BY <1>4, <2>1 DEF ClaimOK, SourceInv, SourceTypeOK
    <2> QED BY <1>4, <2>1, <2>2 DEF ClaimOK
  <1>5. ClaimOK(w)'
    <2>1. \A r : Completed(r)' <=> Completed(r) BY <1>1, SamePromoted
    <2>2. ClaimOK(w) BY DEF SourceInv
    <2> QED BY <2>1, <2>2, Zenon DEF ClaimOK
  <1>6. {w} \in SUBSET Workers OBVIOUS
  <1> QED BY <1>1, <1>2, <1>3, <1>4, <1>5, <1>6, UnpromotedKeeps

\* A worker settles its claim and leaves.
LEMMA EndKeeps ==
  ASSUME SourceInv, SourceTypeOK', CallsOK', NEW w \in Workers, NEW st,
         st \in Ended \union {"retry_wait"},
         worker[w].pc # "idle", TaskOwned(w), Leaves(w),
         current' = current, lease'.fence = lease.fence, SnapKept,
         DOMAIN snap' = DOMAIN snap,
         \A f \in DOMAIN snap : \/ snap'[f] = snap[f]
                                \/ f = worker[w].sf /\ snap'[f].state = "rejected",
         req' = [req EXCEPT ![worker[w].r].state = st, ![worker[w].r].live = FALSE],
         st = "succeeded" => Completed(worker[w].r),
         st \in {"failed", "cancelled"} => ~Completed(worker[w].r),
         RefusalOK', AcceptedOK'
  PROVE  SourceInv'
  <1> DEFINE r == worker[w].r
  <1>1. worker'[w] = IdleWorker /\ \A v \in Workers \ {w} : worker'[v] = worker[v]
    BY DEF Leaves, SourceInv, SourceTypeOK
  <1>2. worker'[w].pc = "idle" /\ worker'[w].sf = 0 BY <1>1 DEF IdleWorker
  <1>3. OneWorkerPerClaim' /\ OneWorkerPerFence'
    BY <1>1, <1>2, PairsKept DEF SourceInv
  <1>4. OpenOnCurrent' BY DEF SourceInv, OpenOnCurrent, SnapKept
  <1>5. ClaimOK(w)' /\ FenceOK(w)'
    BY <1>2 DEF ClaimOK, FenceOK, Unfenced, Opening, Loading, Closing
  <1>6. r \in Requests /\ req[r].tf = worker[w].tf
    BY DEF TaskOwned, SourceInv, ClaimOK
  <1>7. /\ \A q \in Requests \ {r} : req'[q] = req[q]
        /\ req'[r].tf = req[r].tf /\ req'[r].state = st
    BY <1>6 DEF SourceInv, SourceTypeOK
  <1>8. ASSUME NEW v \in Workers \ {w}, worker[v].pc # "idle"
        PROVE  /\ req[worker[v].r].tf <= req'[worker[v].r].tf
               /\ worker[v].tf = req'[worker[v].r].tf =>
                    /\ worker[v].tf = req[worker[v].r].tf
                    /\ req'[worker[v].r].state = "running"
    <2>1. ClaimOK(v) BY DEF SourceInv
    <2>2. /\ worker[v].r \in Requests
          /\ worker[v].tf = req[worker[v].r].tf => req[worker[v].r].state = "running"
      BY <1>8, <2>1 DEF ClaimOK
    <2>3. req[worker[v].r].tf \in Nat BY <2>2 DEF SourceInv, SourceTypeOK
    <2>4. worker[v].r = r => worker[v].tf # req[r].tf
      BY <1>6, <1>8 DEF SourceInv, OneWorkerPerClaim
    <2>5. CASE worker[v].r = r BY <1>7, <2>3, <2>4, <2>5
    <2>6. CASE worker[v].r # r
      <3>1. req'[worker[v].r] = req[worker[v].r] BY <1>7, <2>2, <2>6
      <3>2. req[worker[v].r].tf <= req'[worker[v].r].tf BY <2>3, <3>1
      <3>3. worker[v].tf = req'[worker[v].r].tf =>
              /\ worker[v].tf = req[worker[v].r].tf
              /\ req'[worker[v].r].state = "running"
        BY <2>2, <3>1, Zenon
      <3> QED BY <3>2, <3>3
    <2> QED BY <2>5, <2>6
  <1>9. \A v \in Workers \ {w} : worker[v].sf # 0 =>
           /\ worker[v].sf \notin DOMAIN snap => worker[v].sf \notin DOMAIN snap'
           /\ worker[v].sf \in DOMAIN snap /\ worker[v].sf = lease'.fence =>
                /\ lease.fence = lease'.fence
                /\ snap'[worker[v].sf].state = snap[worker[v].sf].state
    <2>1. \A v \in Workers \ {w} : worker[v].sf # 0 => worker[v].sf # worker[w].sf
      BY DEF SourceInv, OneWorkerPerFence
    <2> QED BY <2>1
  <1>10. \A q \in Requests :
           /\ req'[q].state = "succeeded" => req[q].state = "succeeded" \/ Completed(q)
           /\ req'[q].state \in {"failed", "cancelled"} =>
                req[q].state \in {"failed", "cancelled"} \/ ~Completed(q)
    BY <1>7
  <1>11. {w} \in SUBSET Workers OBVIOUS
  <1> HIDE DEF r
  <1> QED BY <1>1, <1>3, <1>4, <1>5, <1>8, <1>9, <1>10, <1>11, UnpromotedKeeps

-----------------------------------------------------------------------------
(* Types.                                                                  *)

Rows == [state : {"absent", "queued", "running", "retry_wait", "abandoned"}
                   \union Ended,
         window : Windows, tf : Nat, live : BOOLEAN, attempt : Nat]
Leases == [owner : Requests \union {None}, tf : Nat, fence : Nat,
           phase : {"idle", "full", "compaction"}, held : BOOLEAN, ext : BOOLEAN]
Snaps(n) == [r : Requests, tf : Nat, base : 0 .. n,
             state : {"staging", "ready", "rejected", "promoted"},
             gen : Nat, acc : 0 .. n]
Processes(n) == [pc : Pcs, r : Requests \union {None}, tf : Nat,
                 sf : 0 .. n, acc : 0 .. n]
DomainTypes ==
  /\ scope \in Windows
  /\ current \in [snap : {0} \union DOMAIN snap, gen : Nat]
  /\ calls \subseteq DOMAIN snap
  /\ refusal \in {0} \union DOMAIN snap
  /\ acceptance \in [of : {0} \union DOMAIN snap, live : BOOLEAN]
  /\ faults \in 0 .. MaxFaults /\ changes \in 0 .. MaxChanges

LEMMA TypeParts ==
  SourceTypeOK <=> /\ req \in [Requests -> Rows]
                   /\ lease \in Leases
                   /\ DOMAIN snap \subseteq 1 .. lease.fence
                   /\ \A f \in DOMAIN snap : snap[f] \in Snaps(lease.fence)
                   /\ worker \in [Workers -> Processes(lease.fence)]
                   /\ DomainTypes
  BY Zenon DEF SourceTypeOK, Rows, Leases, Snaps, Processes, DomainTypes

LEMMA TypePartsNext ==
  SourceTypeOK' <=> /\ req' \in [Requests -> Rows]
                    /\ lease' \in Leases
                    /\ DOMAIN snap' \subseteq 1 .. lease'.fence
                    /\ \A f \in DOMAIN snap' : snap'[f] \in Snaps(lease'.fence)
                    /\ worker' \in [Workers -> Processes(lease'.fence)]
                    /\ DomainTypes'
  BY Zenon DEF SourceTypeOK, Rows, Leases, Snaps, Processes, DomainTypes

\* A worker's stage changes.
LEMMA PcMoves ==
  ASSUME SourceTypeOK, NEW w \in Workers, NEW pc \in Pcs, ToPc(w, pc),
         lease'.fence = lease.fence
  PROVE  /\ worker'[w].pc = pc /\ worker'[w].r = worker[w].r
         /\ worker'[w].tf = worker[w].tf /\ worker'[w].sf = worker[w].sf
         /\ worker'[w].acc = worker[w].acc
         /\ \A v \in Workers \ {w} : worker'[v] = worker[v]
         /\ worker' \in [Workers -> Processes(lease'.fence)]
  BY TypeParts DEF ToPc, Processes

LEMMA IdleTyped == SourceTypeOK => IdleWorker \in Processes(lease.fence)
  BY TypeParts DEF IdleWorker, Processes, Leases, Pcs

\* A worker becomes idle.
LEMMA Leaving ==
  ASSUME SourceTypeOK, NEW w \in Workers, Leaves(w), lease'.fence = lease.fence
  PROVE  /\ worker'[w].pc = "idle" /\ worker'[w].sf = 0
         /\ \A v \in Workers \ {w} : worker'[v] = worker[v]
         /\ worker' \in [Workers -> Processes(lease'.fence)]
  <1>1. IdleWorker \in Processes(lease.fence) BY IdleTyped
  <1> QED BY <1>1, TypeParts DEF Leaves, IdleWorker

-----------------------------------------------------------------------------
(* The first state.                                                        *)

LEMMA SourceInitHolds == SourceInit => SourceInv
  <1> SUFFICES ASSUME SourceInit PROVE SourceInv OBVIOUS
  <1>0. DOMAIN snap = {} /\ lease.fence = 0 /\ Promoted = {}
    BY DEF SourceInit, Promoted
  <1>1. \A w \in Workers : worker[w] = IdleWorker BY DEF SourceInit
  <1>2. SourceTypeOK
    <2>1. lease \in Leases BY DEF SourceInit, Leases
    <2>2. req \in [Requests -> Rows] BY DEF SourceInit, Rows
    <2>3. worker \in [Workers -> Processes(lease.fence)]
      BY <1>0 DEF SourceInit, Processes, IdleWorker, Pcs
    <2>4. DomainTypes BY SourceAssumption, <1>0 DEF SourceInit, DomainTypes
    <2> QED BY <1>0, <2>1, <2>2, <2>3, <2>4, TypeParts
  <1>3. CallsOK BY DEF SourceInit, CallsOK
  <1>4. \A w \in Workers : ClaimOK(w) /\ FenceOK(w)
    BY <1>1 DEF ClaimOK, FenceOK, IdleWorker, Opening, Loading, Closing
  <1>5. OneWorkerPerClaim /\ OneWorkerPerFence
    BY <1>1 DEF OneWorkerPerClaim, OneWorkerPerFence, IdleWorker
  <1>6. OpenOnCurrent /\ RefusalOK /\ AcceptedOK /\ AcceptedAsReviewed
    BY <1>0 DEF OpenOnCurrent, RefusalOK, AcceptedOK, AcceptedAsReviewed, SourceInit
  <1>7. TruthIsAChain
    BY <1>0, FS_EmptySet DEF TruthIsAChain, SourceInit
  <1>8. OutcomeOK BY <1>0 DEF OutcomeOK, SourceInit
  <1> QED BY <1>2, <1>3, <1>4, <1>5, <1>6, <1>7, <1>8 DEF SourceInv

-----------------------------------------------------------------------------
(* Requests, scope and acceptances; time; recovery.                        *)

LEMMA RequestRefreshKeeps ==
  ASSUME SourceInv, NEW r \in Requests, RequestRefresh(r)
  PROVE  SourceInv'
  <1>1. SourceTypeOK BY DEF SourceInv
  <1>2. req' \in [Requests -> Rows]
    <2>1. scope \in Windows /\ req \in [Requests -> Rows]
      BY <1>1, TypeParts DEF DomainTypes
    <2>2. [req[r] EXCEPT !.state = "queued", !.window = scope] \in Rows
      BY <2>1 DEF Rows
    <2> QED BY <2>1, <2>2 DEF RequestRefresh
  <1>3. SourceTypeOK'
    BY <1>1, <1>2, TypeParts, TypePartsNext DEF RequestRefresh, DomainTypes, domain
  <1>4. /\ req'[r].tf = req[r].tf /\ req'[r].state = "queued"
        /\ req[r].state = "absent"
        /\ \A q \in Requests \ {r} : req'[q] = req[q]
    BY <1>1, TypeParts DEF RequestRefresh
  <1> QED BY <1>3, <1>4, RequestKeeps DEF RequestRefresh, domain

LEMMA TaskLeaseLapsesKeeps ==
  ASSUME SourceInv, NEW r \in Requests, TaskLeaseLapses(r)
  PROVE  SourceInv'
  <1>1. SourceTypeOK BY DEF SourceInv
  <1>2. req' \in [Requests -> Rows]
    BY <1>1, TypeParts DEF TaskLeaseLapses, Rows
  <1>3. faults' \in 0 .. MaxFaults
    BY <1>1, SourceAssumption DEF TaskLeaseLapses, LapseCost, SourceTypeOK
  <1>4. SourceTypeOK'
    BY <1>1, <1>2, <1>3, TypeParts, TypePartsNext DEF TaskLeaseLapses, DomainTypes, domain
  <1>5. /\ req'[r].tf = req[r].tf /\ req'[r].state = "running"
        /\ \A q \in Requests \ {r} : req'[q] = req[q]
    BY <1>1, TypeParts DEF TaskLeaseLapses, Rows
  <1> QED BY <1>4, <1>5, RequestKeeps DEF TaskLeaseLapses, domain

LEMMA LeaseExpiredKeeps ==
  ASSUME SourceInv, NEW r \in Requests, LeaseExpired(r)
  PROVE  SourceInv'
  <1>1. SourceTypeOK BY DEF SourceInv
  <1>2. req' \in [Requests -> Rows]
    BY <1>1, TypeParts DEF LeaseExpired, Rows
  <1>3. SourceTypeOK'
    BY <1>1, <1>2, TypeParts, TypePartsNext DEF LeaseExpired, DomainTypes, domain
  <1>4. /\ req'[r].tf = req[r].tf + 1 /\ req'[r].state = "abandoned"
        /\ \A q \in Requests \ {r} : req'[q] = req[q]
    BY <1>1, TypeParts DEF LeaseExpired, Rows
  <1> QED BY <1>3, <1>4, RequestKeeps DEF LeaseExpired, domain

LEMMA RecoverKeeps ==
  ASSUME SourceInv, NEW r \in Requests, RecoverRefresh(r)
  PROVE  SourceInv'
  <1>1. SourceTypeOK BY DEF SourceInv
  <1> DEFINE st == RefreshRecoveryPlan(r)
  <1>2. /\ st \in Ended \union {"retry_wait", "abandoned"}
        /\ st = "succeeded" => Completed(r)
        /\ st \in {"failed", "cancelled"} => ~Completed(r)
    BY Zenon DEF RefreshRecoveryPlan, Ended
  <1>3. req' = [req EXCEPT ![r].state = st] /\ req[r].state = "abandoned"
    BY DEF RecoverRefresh
  <1>4. UNCHANGED <<lease, snap, current, worker, calls, faults, domain>>
    BY DEF RecoverRefresh
  <1> HIDE DEF st
  <1>5. req' \in [Requests -> Rows]
    BY <1>1, <1>2, <1>3, TypeParts DEF Rows
  <1>6. SourceTypeOK'
    BY <1>1, <1>4, <1>5, TypeParts, TypePartsNext DEF DomainTypes, domain
  <1>7. /\ req'[r].tf = req[r].tf /\ req'[r].state = st
        /\ \A q \in Requests \ {r} : req'[q] = req[q]
    BY <1>1, <1>3, TypeParts DEF Rows
  <1> QED BY <1>2, <1>3, <1>4, <1>6, <1>7, RequestKeeps DEF domain

LEMMA CancelSupersededKeeps ==
  ASSUME SourceInv, NEW r \in Requests, CancelSuperseded(r)
  PROVE  SourceInv'
  <1>1. SourceTypeOK BY DEF SourceInv
  <1>2. /\ req' = [req EXCEPT ![r].state = "cancelled"]
        /\ req[r].state # "running" /\ ~Completed(r)
        /\ UNCHANGED <<lease, snap, current, worker, calls, faults, domain>>
    BY DEF CancelSuperseded
  <1>3. req' \in [Requests -> Rows]
    BY <1>1, <1>2, TypeParts DEF Rows, Ended
  <1>4. SourceTypeOK'
    BY <1>1, <1>2, <1>3, TypeParts, TypePartsNext DEF DomainTypes, domain
  <1>5. /\ req'[r].tf = req[r].tf /\ req'[r].state = "cancelled"
        /\ \A q \in Requests \ {r} : req'[q] = req[q]
    BY <1>1, <1>2, TypeParts DEF Rows
  <1> QED BY <1>2, <1>4, <1>5, RequestKeeps DEF domain

LEMMA QuietStepsKeep ==
  ASSUME SourceInv,
         ChangeScope \/ Accept \/ AcceptanceExpires \/ TimeStep \/ UNCHANGED sourceVars
  PROVE  SourceInv'
  <1>1. SourceTypeOK /\ CallsOK BY DEF SourceInv
  <1>2. CASE ChangeScope
    <2>1. DomainTypes'
      BY <1>1, <1>2, TypeParts, SourceAssumption DEF ChangeScope, DomainTypes
    <2>2. SourceTypeOK'
      BY <1>1, <1>2, <2>1, TypeParts, TypePartsNext DEF ChangeScope
    <2> QED BY <1>1, <1>2, <2>2, QuietKeeps DEF ChangeScope, CallsOK
  <1>3. CASE Accept
    <2>1. DomainTypes' BY <1>1, <1>3, TypeParts DEF Accept, DomainTypes
    <2>2. SourceTypeOK'
      BY <1>1, <1>3, <2>1, TypeParts, TypePartsNext DEF Accept
    <2> QED BY <1>1, <1>3, <2>2, QuietKeeps DEF Accept, CallsOK
  <1>4. CASE AcceptanceExpires
    <2>1. DomainTypes' BY <1>1, <1>4, TypeParts DEF AcceptanceExpires, DomainTypes
    <2>2. SourceTypeOK'
      BY <1>1, <1>4, <2>1, TypeParts, TypePartsNext DEF AcceptanceExpires
    <2> QED BY <1>1, <1>4, <2>2, QuietKeeps DEF AcceptanceExpires, CallsOK
  <1>5. CASE SourceLeaseLapses
    <2>1. /\ lease' \in Leases /\ lease'.fence = lease.fence
          /\ lease'.ext = lease.ext
      BY <1>1, <1>5, TypeParts DEF SourceLeaseLapses, Leases
    <2>2. faults' \in 0 .. MaxFaults
      BY <1>1, <1>5, SourceAssumption DEF SourceLeaseLapses, LapseCost, SourceTypeOK
    <2>3. SourceTypeOK'
      BY <1>1, <1>5, <2>1, <2>2, TypeParts, TypePartsNext
      DEF SourceLeaseLapses, DomainTypes, domain
    <2> QED BY <1>1, <1>5, <2>1, <2>3, QuietKeeps DEF SourceLeaseLapses, CallsOK, domain
  <1>6. CASE CallTimesOut
    <2>1. calls' \subseteq calls BY <1>6 DEF CallTimesOut
    <2>2. SourceTypeOK'
      BY <1>1, <1>6, <2>1, TypeParts, TypePartsNext DEF CallTimesOut, DomainTypes, domain
    <2> QED BY <1>1, <1>6, <2>1, <2>2, QuietKeeps DEF CallTimesOut, CallsOK, domain
  <1>7. CASE DeadlinePasses
    <2>1. lease' \in Leases /\ lease'.fence = lease.fence
      BY <1>1, <1>7, TypeParts DEF DeadlinePasses, Leases
    <2>2. SourceTypeOK'
      BY <1>1, <1>7, <2>1, TypeParts, TypePartsNext DEF DeadlinePasses, DomainTypes, domain
    <2>3. calls = {} BY <1>1, <1>7 DEF DeadlinePasses, CallsOK
    <2> QED BY <1>1, <1>7, <2>1, <2>2, <2>3, QuietKeeps DEF DeadlinePasses, CallsOK, domain
  <1>8. CASE UNCHANGED sourceVars
    <2>1. SourceTypeOK' BY <1>1, <1>8 DEF SourceTypeOK, sourceVars
    <2> QED BY <1>1, <1>8, <2>1, QuietKeeps DEF sourceVars, CallsOK
  <1> QED BY <1>2, <1>3, <1>4, <1>5, <1>6, <1>7, <1>8 DEF TimeStep

-----------------------------------------------------------------------------
(* A worker's steps.                                                       *)

LEMMA ClaimKeeps ==
  ASSUME SourceInv, NEW w \in Workers, NEW r \in Requests, ClaimRefresh(w, r)
  PROVE  SourceInv'
  <1>1. SourceTypeOK /\ CallsOK BY DEF SourceInv
  <1>2. req[r].tf \in Nat /\ req[r].attempt \in Nat
    BY <1>1, TypeParts DEF Rows
  <1>3. req' \in [Requests -> Rows]
    <2>1. req[r] \in Rows /\ req[r].tf + 1 \in Nat /\ req[r].attempt + 1 \in Nat
      BY <1>1, <1>2, TypeParts
    <2>2. [req[r] EXCEPT !.state = "running", !.tf = req[r].tf + 1, !.live = TRUE,
                         !.attempt = req[r].attempt + 1] \in Rows
      BY <2>1 DEF Rows
    <2> QED BY <1>1, <2>2, TypeParts DEF ClaimRefresh
  <1>4. /\ req'[r].tf = req[r].tf + 1 /\ req'[r].state = "running"
        /\ \A q \in Requests \ {r} : req'[q] = req[q]
    BY <1>1, TypeParts DEF ClaimRefresh, Rows
  <1> DEFINE x == [IdleWorker EXCEPT !.pc = "existing", !.r = r, !.tf = req[r].tf + 1]
  <1>5. worker' = [worker EXCEPT ![w] = x] BY DEF ClaimRefresh
  <1>6. /\ x.pc = "existing" /\ x.r = r /\ x.tf = req[r].tf + 1 /\ x.sf = 0
        /\ x \in Processes(lease.fence)
    <2>1. x.pc = "existing" /\ x.r = r /\ x.tf = req[r].tf + 1 /\ x.sf = 0
      BY DEF IdleWorker
    <2>2. IdleWorker \in Processes(lease.fence) BY <1>1, IdleTyped
    <2>3. req[r].tf + 1 \in Nat /\ "existing" \in Pcs BY <1>2 DEF Pcs
    <2>4. x \in Processes(lease.fence) BY <2>2, <2>3 DEF Processes
    <2> QED BY <2>1, <2>4
  <1> HIDE DEF x
  <1>7. /\ worker'[w] = x /\ \A v \in Workers \ {w} : worker'[v] = worker[v]
        /\ worker' \in [Workers -> Processes(lease.fence)]
    BY <1>1, <1>5, <1>6, TypeParts
  <1>8. /\ UNCHANGED <<lease, snap, current, calls, faults, domain>>
        /\ worker[w].pc = "idle" /\ req[r].state # "running"
        /\ req[r].state \notin Ended
    BY DEF ClaimRefresh, Ended
  <1>9. SourceTypeOK'
    BY <1>1, <1>3, <1>7, <1>8, TypeParts, TypePartsNext DEF DomainTypes, domain
  <1>10. SnapKept BY <1>8, Unmoved
  <1>11. ASSUME NEW v \in Workers \ {w}, worker[v].pc # "idle"
         PROVE  /\ worker[v].r = r => worker[v].tf <= req[r].tf
                /\ req[worker[v].r].tf <= req'[worker[v].r].tf
                /\ worker[v].tf = req'[worker[v].r].tf =>
                     /\ worker[v].tf = req[worker[v].r].tf
                     /\ req'[worker[v].r].state = "running"
    <2>1. ClaimOK(v) BY DEF SourceInv
    <2>2. /\ worker[v].r \in Requests /\ worker[v].tf <= req[worker[v].r].tf
          /\ worker[v].tf = req[worker[v].r].tf => req[worker[v].r].state = "running"
      BY <1>11, <2>1 DEF ClaimOK
    <2>3. req[worker[v].r].tf \in Nat /\ worker[v].tf \in Nat
      BY <1>1, <2>2, TypeParts DEF Rows, Processes
    <2>4. CASE worker[v].r = r BY <1>4, <2>2, <2>3, <2>4
    <2>5. CASE worker[v].r # r
      <3>1. req'[worker[v].r] = req[worker[v].r] BY <1>4, <2>2, <2>5
      <3>2. req[worker[v].r].tf <= req'[worker[v].r].tf BY <2>3, <3>1
      <3> QED BY <2>2, <2>5, <3>1, <3>2, Zenon
    <2> QED BY <2>4, <2>5
  <1>12. OneWorkerPerClaim'
    <2>1. ASSUME NEW v \in Workers \ {w}, worker[v].pc # "idle"
          PROVE  worker[v].r # x.r \/ worker[v].tf # x.tf
      <3>1. worker[v].tf \in Nat BY <1>1, TypeParts DEF Processes
      <3> QED BY <1>2, <1>6, <1>11, <2>1, <3>1
    <2> QED BY <1>7, <2>1 DEF SourceInv, OneWorkerPerClaim
  <1>13. OneWorkerPerFence'
    BY <1>6, <1>7 DEF SourceInv, OneWorkerPerFence
  <1>14. OpenOnCurrent' /\ RefusalOK' /\ AcceptedOK' /\ CallsOK'
    BY <1>8 DEF SourceInv, OpenOnCurrent, RefusalOK, AcceptedOK, Promoted, CallsOK, domain
  <1>15. ClaimOK(w)' /\ FenceOK(w)'
    <2>1. x.tf <= req'[r].tf BY <1>2, <1>4, <1>6
    <2> QED BY <1>4, <1>6, <1>7, <2>1
            DEF ClaimOK, FenceOK, Unfenced, Opening, Loading, Closing
  <1>16. \A q \in Requests :
           /\ req'[q].state = "succeeded" => req[q].state = "succeeded" \/ Completed(q)
           /\ req'[q].state \in {"failed", "cancelled"} =>
                req[q].state \in {"failed", "cancelled"} \/ ~Completed(q)
    BY <1>4
  <1>17. {w} \in SUBSET Workers OBVIOUS
  <1>18. \A v \in Workers \ {w} : worker[v].sf # 0 =>
           /\ worker[v].sf \notin DOMAIN snap => worker[v].sf \notin DOMAIN snap'
           /\ worker[v].sf \in DOMAIN snap /\ worker[v].sf = lease'.fence =>
                /\ lease.fence = lease'.fence
                /\ snap'[worker[v].sf].state = snap[worker[v].sf].state
    BY <1>8
  <1> QED BY <1>7, <1>8, <1>9, <1>10, <1>11, <1>12, <1>13, <1>14, <1>15, <1>16,
             <1>17, <1>18, UnpromotedKeeps

\* A step that only moves a worker's stage, between two with the same claims.
LEMMA PcKeeps ==
  ASSUME SourceInv, NEW w \in Workers, NEW pc \in Pcs, ToPc(w, pc),
         UNCHANGED <<req, lease, snap, current, faults, domain>>,
         calls' \subseteq calls,
         pc # "idle", worker[w].pc # "idle",
         worker[w].pc # "settle",
         worker[w].pc = "existing" => ~Completed(worker[w].r),
         \/ worker[w].pc \in Unfenced /\ pc \in Unfenced
         \/ worker[w].pc \in Loading /\ pc \in Loading
  PROVE  SourceInv'
  <1>1. SourceTypeOK /\ CallsOK /\ FenceOK(w) BY DEF SourceInv
  <1>2. lease'.fence = lease.fence OBVIOUS
  <1>3. /\ worker'[w].pc = pc /\ worker'[w].r = worker[w].r
        /\ worker'[w].tf = worker[w].tf /\ worker'[w].sf = worker[w].sf
        /\ \A v \in Workers \ {w} : worker'[v] = worker[v]
        /\ worker' \in [Workers -> Processes(lease'.fence)]
    BY <1>1, <1>2, PcMoves
  <1>4. SourceTypeOK'
    BY <1>1, <1>3, TypeParts, TypePartsNext DEF DomainTypes, domain
  <1>5. CallsOK' BY <1>1 DEF CallsOK
  <1>6. FenceOK(w)'
    BY <1>1, <1>3 DEF FenceOK, Unfenced, Opening, Loading, Closing
  <1> QED BY <1>2, <1>3, <1>4, <1>5, <1>6, MoveKeeps DEF domain

LEMMA PcStepsKeep ==
  ASSUME SourceInv, NEW w \in Workers,
         Prepare(w) \/ Inputs(w) \/ CallReturns(w) \/ StageRows(w)
  PROVE  SourceInv'
  <1>1. CASE Prepare(w)
    BY <1>1, PcKeeps DEF Prepare, Pcs, Unfenced
  <1>2. CASE Inputs(w)
    BY <1>2, PcKeeps DEF Inputs, Verified, Pcs, Scoped, Loading
  <1>3. CASE CallReturns(w)
    <2>1. PICK pc \in {"fetch", "loaded"} : ToPc(w, pc) BY <1>3 DEF CallReturns
    <2> QED BY <1>3, <2>1, PcKeeps DEF CallReturns, Pcs, Scoped, Loading
  <1>4. CASE StageRows(w)
    BY <1>4, PcKeeps DEF StageRows, Verified, Pcs, Scoped, Loading
  <1> QED BY <1>1, <1>2, <1>3, <1>4

LEMMA LoadAcceptedKeeps ==
  ASSUME SourceInv, NEW w \in Workers, LoadAccepted(w)
  PROVE  SourceInv'
  <1>1. SourceTypeOK /\ CallsOK /\ FenceOK(w) BY DEF SourceInv
  <1>2. PICK acc \in {0, LiveAcceptance} :
          worker' = [worker EXCEPT ![w].pc = "stage", ![w].acc = acc]
    BY DEF LoadAccepted
  <1>3. acc \in 0 .. lease.fence
    BY <1>1, TypeParts DEF LiveAcceptance, DomainTypes, Leases
  <1>4. [worker[w] EXCEPT !.pc = "stage", !.acc = acc] \in Processes(lease.fence)
    BY <1>1, <1>3, TypeParts DEF Processes, Pcs, Scoped
  <1>5. /\ worker'[w].pc = "stage" /\ worker'[w].r = worker[w].r
        /\ worker'[w].tf = worker[w].tf /\ worker'[w].sf = worker[w].sf
        /\ \A v \in Workers \ {w} : worker'[v] = worker[v]
    BY <1>1, <1>2, TypeParts DEF Processes
  <1>6. worker' \in [Workers -> Processes(lease.fence)]
    BY <1>1, <1>2, <1>4, TypeParts
  <1>7. /\ UNCHANGED <<req, lease, snap, current, calls, faults, domain>>
        /\ worker[w].pc = "loaded"
    BY DEF LoadAccepted
  <1>8. SourceTypeOK'
    BY <1>1, <1>6, <1>7, TypeParts, TypePartsNext DEF DomainTypes, domain
  <1>9. CallsOK' BY <1>1, <1>7 DEF CallsOK
  <1>10. FenceOK(w)'
    BY <1>1, <1>5, <1>7 DEF FenceOK, Unfenced, Opening, Loading, Closing
  <1> QED BY <1>5, <1>7, <1>8, <1>9, <1>10, MoveKeeps DEF domain

\* Losing ownership and crashing leave everything but the worker.
LEMMA GoneKeeps ==
  ASSUME SourceInv, NEW w \in Workers, Lost(w) \/ Crash(w)
  PROVE  SourceInv'
  <1>1. SourceTypeOK /\ CallsOK BY DEF SourceInv
  <1>2. UNCHANGED <<req, lease, snap, current, calls, domain>> /\ Leaves(w)
    BY DEF Lost, Crash
  <1>3. faults' \in 0 .. MaxFaults
    BY <1>1, SourceAssumption DEF Lost, Crash, SourceTypeOK
  <1>4. /\ worker'[w].pc = "idle" /\ worker'[w].sf = 0
        /\ \A v \in Workers \ {w} : worker'[v] = worker[v]
        /\ worker' \in [Workers -> Processes(lease'.fence)]
    BY <1>1, <1>2, Leaving
  <1>5. SourceTypeOK'
    BY <1>1, <1>2, <1>3, <1>4, TypeParts, TypePartsNext DEF DomainTypes, domain
  <1>6. CallsOK' BY <1>1, <1>2 DEF CallsOK
  <1>7. FenceOK(w)'
    BY <1>4 DEF FenceOK, Unfenced, Opening, Loading, Closing
  <1> QED BY <1>2, <1>4, <1>5, <1>6, <1>7, MoveKeeps DEF domain

\* A compaction ends, with or without its lease.
LEMMA CompactionEndsKeeps ==
  ASSUME SourceInv, NEW w \in Workers, SkipCompaction(w) \/ ReleaseCompaction(w)
  PROVE  SourceInv'
  <1>1. SourceTypeOK /\ CallsOK BY DEF SourceInv
  <1>2. /\ UNCHANGED <<req, snap, current, calls, faults, domain>>
        /\ lease' = lease \/ lease' = Released
        /\ worker' = [worker EXCEPT ![w].pc = "acquire", ![w].sf = 0]
        /\ worker[w].pc \in {"compact", "compacting"}
    BY DEF SkipCompaction, ReleaseCompaction
  <1>3. lease' \in Leases /\ lease'.fence = lease.fence /\ lease'.ext = lease.ext
    BY <1>1, <1>2, TypeParts DEF Released, Leases
  <1>4. [worker[w] EXCEPT !.pc = "acquire", !.sf = 0] \in Processes(lease.fence)
    <2>1. lease.fence \in Nat /\ 0 \in 0 .. lease.fence
      BY <1>1, TypeParts DEF Leases
    <2>2. worker[w] \in Processes(lease.fence) /\ "acquire" \in Pcs
      BY <1>1, TypeParts DEF Pcs, Scoped
    <2> QED BY <2>1, <2>2 DEF Processes
  <1>5. /\ worker'[w].pc = "acquire" /\ worker'[w].r = worker[w].r
        /\ worker'[w].tf = worker[w].tf /\ worker'[w].sf = 0
        /\ \A v \in Workers \ {w} : worker'[v] = worker[v]
    BY <1>1, <1>2, TypeParts DEF Processes
  <1>6. worker' \in [Workers -> Processes(lease'.fence)]
    BY <1>1, <1>2, <1>3, <1>4, TypeParts
  <1>7. SourceTypeOK'
    BY <1>1, <1>2, <1>3, <1>6, TypeParts, TypePartsNext DEF DomainTypes, domain
  <1>8. CallsOK' BY <1>1, <1>2, <1>3 DEF CallsOK
  <1>9. FenceOK(w)'
    BY <1>5 DEF FenceOK, Unfenced, Opening, Loading, Closing
  <1> QED BY <1>2, <1>3, <1>5, <1>7, <1>8, <1>9, MoveKeeps DEF domain

LEMMA AcquireKeeps ==
  ASSUME SourceInv, NEW w \in Workers,
         CompactBeforeRefresh(w) \/ AcquireFull(w)
  PROVE  SourceInv'
  <1>1. SourceTypeOK /\ CallsOK /\ ClaimOK(w) BY DEF SourceInv
  <1> DEFINE n == lease.fence + 1
  <1>2. PICK phase \in {"full", "compaction"}, pc \in Opening :
          /\ lease' = [owner |-> worker[w].r, tf |-> worker[w].tf, fence |-> n,
                       phase |-> phase, held |-> TRUE, ext |-> FALSE]
          /\ worker' = [worker EXCEPT ![w].pc = pc, ![w].sf = n]
    BY DEF CompactBeforeRefresh, AcquireFull, AcquireSource, Opening
  <1>3. /\ UNCHANGED <<req, snap, current, calls, faults, domain>>
        /\ worker[w].pc \in {"compact", "acquire"} /\ ~lease.ext
    BY DEF CompactBeforeRefresh, AcquireFull, AcquireSource, Busy
  <1>4. lease.fence \in Nat /\ n \in Nat /\ lease.fence < n
    BY <1>1, TypeParts DEF Leases
  <1>5. \A m \in 0 .. lease.fence : m \in 0 .. n /\ m # n BY <1>4
  <1> HIDE DEF n
  <1>6. worker[w].r \in Requests /\ worker[w].tf \in Nat
    BY <1>1, <1>3, TypeParts DEF ClaimOK, Processes
  <1>7. lease' \in Leases /\ lease'.fence = n
    BY <1>2, <1>4, <1>6 DEF Leases
  <1>8. /\ worker'[w].pc = pc /\ worker'[w].r = worker[w].r
        /\ worker'[w].tf = worker[w].tf /\ worker'[w].sf = n
        /\ \A v \in Workers \ {w} : worker'[v] = worker[v]
    BY <1>1, <1>2, TypeParts DEF Processes
  <1>9. \A v \in Workers : worker[v].sf \in 0 .. lease.fence
    BY <1>1, TypeParts DEF Processes
  <1>10. worker' \in [Workers -> Processes(n)]
    <2>1. \A y \in Processes(lease.fence) : y \in Processes(n)
      BY <1>5 DEF Processes
    <2>2. n \in 0 .. n /\ pc \in Pcs
      BY <1>4 DEF Opening, Pcs, Scoped
    <2>3. [worker[w] EXCEPT !.pc = pc, !.sf = n] \in Processes(n)
      <3>1. worker[w] \in Processes(n) BY <1>1, <2>1, TypeParts
      <3> QED BY <2>2, <3>1 DEF Processes
    <2> QED BY <1>1, <1>2, <2>1, <2>3, TypeParts
  <1>11. SourceTypeOK'
    <2>1. DOMAIN snap' \subseteq 1 .. n
      BY <1>1, <1>3, <1>4, TypeParts
    <2>2. \A y \in Snaps(lease.fence) : y \in Snaps(n)
      BY <1>5 DEF Snaps
    <2>3. \A f \in DOMAIN snap' : snap'[f] \in Snaps(n)
      BY <1>1, <1>3, <2>2, TypeParts
    <2> QED BY <1>1, <1>3, <1>7, <1>10, <2>1, <2>3, TypeParts, TypePartsNext
            DEF DomainTypes, domain
  <1>12. n \notin DOMAIN snap BY <1>1, <1>4, TypeParts
  <1>13. CallsOK' BY <1>1, <1>3 DEF CallsOK
  <1>14. SnapKept BY <1>3, Unmoved
  <1>15. OneWorkerPerClaim'
    BY <1>3, <1>8 DEF SourceInv, OneWorkerPerClaim
  <1>16. OneWorkerPerFence'
    BY <1>4, <1>5, <1>8, <1>9 DEF SourceInv, OneWorkerPerFence
  <1>17. OpenOnCurrent' BY <1>3, <1>7, <1>12 DEF OpenOnCurrent
  <1>18. RefusalOK' /\ AcceptedOK'
    BY <1>3 DEF SourceInv, RefusalOK, AcceptedOK, Promoted, domain
  <1>19. FenceOK(w)'
    BY <1>3, <1>4, <1>8, <1>12 DEF FenceOK, Unfenced, Opening, Loading, Closing
  <1>20. ClaimOK(w)'
    <2>1. \A r : Completed(r)' <=> Completed(r) BY <1>14, SamePromoted
    <2>2. worker[w].pc # "idle" /\ worker[w].pc \notin {"existing", "settle"}
      BY <1>3
    <2> QED BY <1>1, <1>3, <1>8, <2>1, <2>2, Zenon DEF ClaimOK
  <1>21. ASSUME NEW v \in Workers, worker[v].pc # "idle"
         PROVE  /\ req[worker[v].r].tf <= req'[worker[v].r].tf
                /\ worker[v].tf = req'[worker[v].r].tf =>
                     /\ worker[v].tf = req[worker[v].r].tf
                     /\ req'[worker[v].r].state = "running"
    <2>1. ClaimOK(v) BY DEF SourceInv
    <2>2. req[worker[v].r].tf \in Nat
      BY <1>21, <2>1 DEF ClaimOK, SourceInv, SourceTypeOK
    <2> QED BY <1>3, <1>21, <2>1, <2>2 DEF ClaimOK
  <1>22. \A v \in Workers \ {w} : worker[v].sf # 0 =>
           /\ worker[v].sf \notin DOMAIN snap => worker[v].sf \notin DOMAIN snap'
           /\ worker[v].sf \in DOMAIN snap /\ worker[v].sf = lease'.fence =>
                /\ lease.fence = lease'.fence
                /\ snap'[worker[v].sf].state = snap[worker[v].sf].state
    BY <1>3, <1>5, <1>7, <1>9
  <1>23. {w} \in SUBSET Workers OBVIOUS
  <1>24. \A q \in Requests :
           /\ req'[q].state = "succeeded" => req[q].state = "succeeded" \/ Completed(q)
           /\ req'[q].state \in {"failed", "cancelled"} =>
                req[q].state \in {"failed", "cancelled"} \/ ~Completed(q)
    BY <1>3
  <1>25. \A v \in {w} : ClaimOK(v)' /\ FenceOK(v)' BY <1>19, <1>20
  <1>26. current' = current BY <1>3
  <1>27. \A v \in Workers \ {w} : v \in Workers OBVIOUS
  <1> QED BY <1>8, <1>11, <1>13, <1>14, <1>15, <1>16, <1>17, <1>18, <1>21, <1>22,
             <1>23, <1>24, <1>25, <1>26, <1>27, UnpromotedKeeps

\* A worker that changes only the snapshot of its own current fence, or opens
\* it, keeping its claim.
LEMMA OwnSnapKeeps ==
  ASSUME SourceInv, SourceTypeOK', CallsOK', NEW w \in Workers, SnapKept,
         UNCHANGED <<req, current, refusal>>, lease'.fence = lease.fence,
         worker[w].pc \notin {"idle", "existing", "settle"},
         worker[w].sf # 0,
         worker'[w].r = worker[w].r, worker'[w].tf = worker[w].tf,
         worker'[w].sf = worker[w].sf,
         \A v \in Workers \ {w} : worker'[v] = worker[v],
         DOMAIN snap' \subseteq DOMAIN snap \union {worker[w].sf},
         \A f \in DOMAIN snap : f = lease.fence /\ f # worker[w].sf => snap'[f] = snap[f],
         FenceOK(w)', OpenOnCurrent'
  PROVE  SourceInv'
  <1>1. SourceTypeOK /\ ClaimOK(w) BY DEF SourceInv
  <1>2. OneWorkerPerClaim' /\ OneWorkerPerFence'
    BY PairsKept DEF SourceInv
  <1>3. \A v \in Workers \ {w} : worker[v].sf # 0 =>
           /\ worker[v].sf \notin DOMAIN snap => worker[v].sf \notin DOMAIN snap'
           /\ worker[v].sf \in DOMAIN snap /\ worker[v].sf = lease'.fence =>
                /\ lease.fence = lease'.fence
                /\ snap'[worker[v].sf].state = snap[worker[v].sf].state
    <2>1. \A v \in Workers \ {w} : worker[v].sf # 0 => worker[v].sf # worker[w].sf
      BY DEF SourceInv, OneWorkerPerFence
    <2> QED BY <2>1
  <1>4. RefusalOK'
    <2>1. refusal # 0 => refusal \in DOMAIN snap BY <1>1, TypeParts DEF DomainTypes
    <2> QED BY <2>1 DEF SourceInv, RefusalOK, SnapKept
  <1>5. AcceptedOK'
    <2>1. /\ Promoted' = Promoted
          /\ \A f \in Promoted : snap'[f] = snap[f]
      BY SamePromoted
    <2> QED BY <2>1 DEF SourceInv, AcceptedOK, SnapKept
  <1>6. ClaimOK(w)'
    <2>1. \A r : Completed(r)' <=> Completed(r) BY SamePromoted
    <2> QED BY <1>1, <2>1, Zenon DEF ClaimOK
  <1>7. ASSUME NEW v \in Workers, worker[v].pc # "idle"
        PROVE  /\ req[worker[v].r].tf <= req'[worker[v].r].tf
               /\ worker[v].tf = req'[worker[v].r].tf =>
                    /\ worker[v].tf = req[worker[v].r].tf
                    /\ req'[worker[v].r].state = "running"
    <2>1. ClaimOK(v) BY DEF SourceInv
    <2>2. req[worker[v].r].tf \in Nat
      BY <1>7, <2>1 DEF ClaimOK, SourceInv, SourceTypeOK
    <2> QED BY <1>7, <2>1, <2>2 DEF ClaimOK
  <1>8. {w} \in SUBSET Workers /\ current' = current OBVIOUS
  <1>9. \A v \in {w} : ClaimOK(v)' /\ FenceOK(v)' BY <1>6
  <1>10. \A q \in Requests :
           /\ req'[q].state = "succeeded" => req[q].state = "succeeded" \/ Completed(q)
           /\ req'[q].state \in {"failed", "cancelled"} =>
                req[q].state \in {"failed", "cancelled"} \/ ~Completed(q)
    OBVIOUS
  <1>11. \A v \in Workers \ {w} : v \in Workers OBVIOUS
  <1> QED BY <1>2, <1>3, <1>4, <1>5, <1>7, <1>8, <1>9, <1>10, <1>11, UnpromotedKeeps

LEMMA BeginAttemptKeeps ==
  ASSUME SourceInv, NEW w \in Workers, BeginAttempt(w)
  PROVE  SourceInv'
  <1>1. SourceTypeOK /\ CallsOK /\ ClaimOK(w) /\ FenceOK(w) BY DEF SourceInv
  <1> DEFINE f == worker[w].sf
             new == [r |-> worker[w].r, tf |-> worker[w].tf, base |-> current.snap,
                     state |-> "staging", gen |-> 0, acc |-> 0]
  <1>2. /\ snap' = [g \in DOMAIN snap \union {f} |-> IF g = f THEN new ELSE snap[g]]
        /\ ToPc(w, "inputs") /\ worker[w].pc = "begin" /\ lease.fence = f
        /\ UNCHANGED <<req, lease, current, calls, faults, domain>>
    BY DEF BeginAttempt, Verified, SourceOwned
  <1>3. f # 0 /\ f \notin DOMAIN snap
    BY <1>1, <1>2 DEF FenceOK, Opening
  <1>4. worker[w].r \in Requests BY <1>1, <1>2 DEF ClaimOK
  <1>5. /\ lease.fence \in Nat /\ worker[w].tf \in Nat /\ f \in 0 .. lease.fence
        /\ current.snap \in {0} \union DOMAIN snap
        /\ DOMAIN snap \subseteq 1 .. lease.fence
    BY <1>1, TypeParts DEF Leases, Processes, DomainTypes
  <1>6. new \in Snaps(lease.fence)
    <2>1. current.snap \in 0 .. lease.fence /\ 0 \in 0 .. lease.fence BY <1>5
    <2> QED BY <1>4, <1>5, <2>1 DEF Snaps
  <1>7. new.r = worker[w].r /\ new.base = current.snap /\ new.state = "staging"
    OBVIOUS
  <1> HIDE DEF new
  <1>8. /\ DOMAIN snap' = DOMAIN snap \union {f} /\ snap'[f] = new
        /\ \A g \in DOMAIN snap : snap'[g] = snap[g]
    BY <1>2, <1>3
  <1>9. /\ worker'[w].pc = "inputs" /\ worker'[w].r = worker[w].r
        /\ worker'[w].tf = worker[w].tf /\ worker'[w].sf = f
        /\ \A v \in Workers \ {w} : worker'[v] = worker[v]
        /\ worker' \in [Workers -> Processes(lease'.fence)]
    <2>1. "inputs" \in Pcs BY DEF Pcs, Scoped
    <2> QED BY <1>1, <1>2, <2>1, PcMoves
  <1>10. SourceTypeOK'
    <2>1. DOMAIN snap' \subseteq 1 .. lease.fence BY <1>3, <1>5, <1>8
    <2>2. \A g \in DOMAIN snap' : snap'[g] \in Snaps(lease.fence)
      BY <1>1, <1>6, <1>8, TypeParts
    <2>3. DomainTypes' BY <1>1, <1>2, <1>8, TypeParts DEF DomainTypes, domain
    <2> QED BY <1>1, <1>2, <1>9, <2>1, <2>2, <2>3, TypeParts, TypePartsNext
  <1>11. SnapKept BY <1>7, <1>8 DEF SnapKept
  <1>12. CallsOK' BY <1>1, <1>2 DEF CallsOK
  <1>13. OpenOnCurrent' BY <1>2, <1>7, <1>8 DEF SourceInv, OpenOnCurrent
  <1>14. FenceOK(w)'
    BY <1>7, <1>8, <1>9 DEF FenceOK, Unfenced, Opening, Loading, Closing
  <1> QED BY <1>2, <1>3, <1>8, <1>9, <1>10, <1>11, <1>12, <1>13, <1>14, OwnSnapKeeps
          DEF domain

LEMMA ReserveRequestKeeps ==
  ASSUME SourceInv, NEW w \in Workers, ReserveRequest(w)
  PROVE  SourceInv'
  <1>1. SourceTypeOK /\ CallsOK /\ FenceOK(w) BY DEF SourceInv
  <1>2. /\ lease' = [lease EXCEPT !.ext = TRUE]
        /\ calls' = calls \union {worker[w].sf}
        /\ ToPc(w, "calling") /\ worker[w].pc = "fetch" /\ lease.fence = worker[w].sf
        /\ UNCHANGED <<req, snap, current, faults, domain>>
    BY DEF ReserveRequest, Verified, SourceOwned
  <1>3. lease' \in Leases /\ lease'.fence = lease.fence /\ lease'.ext = TRUE
    BY <1>1, <1>2, TypeParts DEF Leases
  <1>4. worker[w].sf \in DOMAIN snap BY <1>1, <1>2 DEF FenceOK, Loading
  <1>5. /\ worker'[w].pc = "calling" /\ worker'[w].r = worker[w].r
        /\ worker'[w].tf = worker[w].tf /\ worker'[w].sf = worker[w].sf
        /\ \A v \in Workers \ {w} : worker'[v] = worker[v]
        /\ worker' \in [Workers -> Processes(lease'.fence)]
    <2>1. "calling" \in Pcs BY DEF Pcs
    <2> QED BY <1>1, <1>2, <1>3, <2>1, PcMoves
  <1>6. SourceTypeOK'
    <2>1. DomainTypes' BY <1>1, <1>2, <1>4, TypeParts DEF DomainTypes, domain
    <2> QED BY <1>1, <1>2, <1>3, <1>5, <2>1, TypeParts, TypePartsNext
  <1>7. CallsOK' BY <1>1, <1>2, <1>3 DEF CallsOK
  <1>8. FenceOK(w)'
    BY <1>1, <1>2, <1>3, <1>5 DEF FenceOK, Unfenced, Opening, Loading, Closing
  <1> QED BY <1>2, <1>3, <1>5, <1>6, <1>7, <1>8, MoveKeeps DEF domain

LEMMA CompleteSnapshotKeeps ==
  ASSUME SourceInv, NEW w \in Workers, CompleteSnapshot(w)
  PROVE  SourceInv'
  <1>1. SourceTypeOK /\ CallsOK /\ FenceOK(w) BY DEF SourceInv
  <1> DEFINE f == worker[w].sf
  <1>2. /\ snap' = [snap EXCEPT ![f].state = "ready", ![f].acc = worker[w].acc]
        /\ snap[f].state = "staging"
        /\ ToPc(w, "retire") /\ worker[w].pc = "complete" /\ lease.fence = f
        /\ UNCHANGED <<req, lease, current, calls, faults, domain>>
    BY DEF CompleteSnapshot, Verified, SourceOwned
  <1>3. f \in DOMAIN snap /\ snap[f].r = worker[w].r
    BY <1>1, <1>2 DEF FenceOK, Loading
  <1>4. /\ snap[f] \in Snaps(lease.fence) /\ worker[w].acc \in 0 .. lease.fence
        /\ 0 \notin DOMAIN snap
    BY <1>1, <1>3, TypeParts DEF Processes
  <1>5. /\ DOMAIN snap' = DOMAIN snap
        /\ \A g \in DOMAIN snap \ {f} : snap'[g] = snap[g]
        /\ snap'[f] = [snap[f] EXCEPT !.state = "ready", !.acc = worker[w].acc]
    BY <1>2, <1>3
  <1>6. /\ snap'[f] \in Snaps(lease.fence) /\ snap'[f].state = "ready"
        /\ snap'[f].r = snap[f].r /\ snap'[f].base = snap[f].base
    BY <1>4, <1>5 DEF Snaps
  <1>7. /\ worker'[w].pc = "retire" /\ worker'[w].r = worker[w].r
        /\ worker'[w].tf = worker[w].tf /\ worker'[w].sf = f
        /\ \A v \in Workers \ {w} : worker'[v] = worker[v]
        /\ worker' \in [Workers -> Processes(lease'.fence)]
    <2>1. "retire" \in Pcs BY DEF Pcs, Scoped
    <2> QED BY <1>1, <1>2, <2>1, PcMoves
  <1>8. SourceTypeOK'
    <2>1. \A g \in DOMAIN snap' : snap'[g] \in Snaps(lease.fence)
      BY <1>1, <1>5, <1>6, TypeParts
    <2>2. DomainTypes' BY <1>1, <1>2, <1>5, TypeParts DEF DomainTypes, domain
    <2> QED BY <1>1, <1>2, <1>5, <1>7, <2>1, <2>2, TypeParts, TypePartsNext
  <1>9. SnapKept BY <1>2, <1>3, <1>5, <1>6 DEF SnapKept
  <1>10. CallsOK' BY <1>1, <1>2 DEF CallsOK
  <1>11. OpenOnCurrent' BY <1>2, <1>3, <1>5, <1>6 DEF SourceInv, OpenOnCurrent
  <1>12. FenceOK(w)'
    BY <1>3, <1>5, <1>6, <1>7 DEF FenceOK, Unfenced, Opening, Loading, Closing
  <1> QED BY <1>2, <1>3, <1>4, <1>5, <1>7, <1>8, <1>9, <1>10, <1>11, <1>12, OwnSnapKeeps
          DEF domain

LEMMA RetireDrainedKeeps ==
  ASSUME SourceInv, NEW w \in Workers, RetireDrained(w)
  PROVE  SourceInv'
  <1>1. SourceTypeOK /\ CallsOK /\ FenceOK(w) BY DEF SourceInv
  <1> DEFINE f == worker[w].sf
  <1>2. /\ snap' = [g \in DOMAIN snap |->
                      IF g < f /\ snap[g].state \in {"staging", "ready"}
                      THEN [snap[g] EXCEPT !.state = "rejected"] ELSE snap[g]]
        /\ ToPc(w, "promote") /\ worker[w].pc = "retire" /\ lease.fence = f
        /\ UNCHANGED <<req, lease, current, calls, faults, domain>>
    BY DEF RetireDrained, Verified, SourceOwned
  <1>3. f \in DOMAIN snap /\ snap[f].r = worker[w].r /\ snap[f].state = "ready"
    BY <1>1, <1>2 DEF FenceOK, Closing
  <1>4. f \in Nat /\ DOMAIN snap \subseteq 1 .. f
    BY <1>1, <1>2, TypeParts DEF Leases
  <1>5. DOMAIN snap' = DOMAIN snap /\ snap'[f] = snap[f]
    BY <1>2, <1>3, <1>4
  <1>6. ASSUME NEW g \in DOMAIN snap
        PROVE  /\ snap'[g] \in Snaps(lease.fence)
               /\ snap'[g].r = snap[g].r /\ snap'[g].base = snap[g].base
               /\ \/ snap'[g] = snap[g]
                  \/ /\ snap'[g].state = "rejected"
                     /\ snap[g].state \in {"staging", "ready"}
    <2>1. snap[g] \in Snaps(lease.fence) BY <1>1, TypeParts
    <2>2. snap'[g] = snap[g]
          \/ /\ snap'[g] = [snap[g] EXCEPT !.state = "rejected"]
             /\ snap[g].state \in {"staging", "ready"}
      BY <1>2
    <2> QED BY <2>1, <2>2 DEF Snaps
  <1>7. /\ worker'[w].pc = "promote" /\ worker'[w].r = worker[w].r
        /\ worker'[w].tf = worker[w].tf /\ worker'[w].sf = f
        /\ \A v \in Workers \ {w} : worker'[v] = worker[v]
        /\ worker' \in [Workers -> Processes(lease'.fence)]
    <2>1. "promote" \in Pcs BY DEF Pcs, Scoped
    <2> QED BY <1>1, <1>2, <2>1, PcMoves
  <1>8. SourceTypeOK'
    <2>1. DomainTypes' BY <1>1, <1>2, <1>5, TypeParts DEF DomainTypes, domain
    <2> QED BY <1>1, <1>2, <1>5, <1>6, <1>7, <2>1, TypeParts, TypePartsNext
  <1>9. SnapKept BY <1>5, <1>6 DEF SnapKept
  <1>10. CallsOK' BY <1>1, <1>2 DEF CallsOK
  <1>11. OpenOnCurrent' BY <1>2, <1>3, <1>5 DEF SourceInv, OpenOnCurrent
  <1>12. FenceOK(w)'
    BY <1>3, <1>5, <1>7 DEF FenceOK, Unfenced, Opening, Loading, Closing
  <1>13. f # 0 /\ \A g \in DOMAIN snap : g = lease.fence /\ g # f => snap'[g] = snap[g]
    BY <1>2, <1>3, <1>4
  <1> QED BY <1>2, <1>5, <1>7, <1>8, <1>9, <1>10, <1>11, <1>12, <1>13, OwnSnapKeeps
          DEF domain

-----------------------------------------------------------------------------
(* The ends of an execution.                                               *)

LEMMA RefusalKept ==
  ASSUME SourceInv, SnapKept, current' = current, refusal' = refusal
  PROVE  RefusalOK' /\ AcceptedOK'
  <1>1. RefusalOK'
    <2>1. refusal # 0 => refusal \in DOMAIN snap
      BY TypeParts DEF SourceInv, DomainTypes
    <2> QED BY <2>1 DEF SourceInv, RefusalOK, SnapKept
  <1>2. AcceptedOK'
    <2>1. /\ Promoted' = Promoted
          /\ \A f \in Promoted : snap'[f] = snap[f]
      BY SamePromoted
    <2> QED BY <2>1 DEF SourceInv, AcceptedOK, SnapKept
  <1> QED BY <1>1, <1>2

\* The rows of a settled claim.
LEMMA SettledRows ==
  ASSUME SourceInv, NEW w \in Workers, worker[w].pc # "idle",
         NEW st \in Ended \union {"retry_wait"},
         req' = [req EXCEPT ![worker[w].r].state = st, ![worker[w].r].live = FALSE]
  PROVE  req' \in [Requests -> Rows]
  <1>1. worker[w].r \in Requests BY DEF SourceInv, ClaimOK
  <1>2. req \in [Requests -> Rows] BY TypeParts DEF SourceInv
  <1>3. [req[worker[w].r] EXCEPT !.state = st, !.live = FALSE] \in Rows
    BY <1>1, <1>2 DEF Rows
  <1> QED BY <1>2, <1>3

LEMMA SucceedKeeps ==
  ASSUME SourceInv, NEW w \in Workers,
         SettleRefresh(w) \/ (ExistingOutcome(w) /\ Completed(worker[w].r))
  PROVE  SourceInv'
  <1>1. SourceTypeOK /\ CallsOK BY DEF SourceInv
  <1>2. /\ worker[w].pc # "idle" /\ TaskOwned(w) /\ Leaves(w)
        /\ Completed(worker[w].r)
        /\ req' = [req EXCEPT ![worker[w].r].state = "succeeded",
                              ![worker[w].r].live = FALSE]
        /\ lease' = lease \/ lease' = Released
        /\ UNCHANGED <<snap, current, calls, faults, domain>>
    BY DEF SettleRefresh, ExistingOutcome, SourceOwned
  <1>3. lease' \in Leases /\ lease'.fence = lease.fence /\ lease'.ext = lease.ext
    BY <1>1, <1>2, TypeParts DEF Released, Leases
  <1>4. "succeeded" \in Ended \union {"retry_wait"} BY DEF Ended
  <1>5. req' \in [Requests -> Rows] BY <1>2, <1>4, SettledRows
  <1>6. worker' \in [Workers -> Processes(lease'.fence)]
    BY <1>1, <1>2, <1>3, Leaving
  <1>7. SourceTypeOK'
    BY <1>1, <1>2, <1>3, <1>5, <1>6, TypeParts, TypePartsNext DEF DomainTypes, domain
  <1>8. CallsOK' BY <1>1, <1>2, <1>3 DEF CallsOK
  <1>9. SnapKept BY <1>2, Unmoved
  <1>10. RefusalOK' /\ AcceptedOK' BY <1>2, <1>9, RefusalKept DEF domain
  <1>11. /\ DOMAIN snap' = DOMAIN snap
         /\ \A f \in DOMAIN snap : \/ snap'[f] = snap[f]
                                   \/ f = worker[w].sf /\ snap'[f].state = "rejected"
    BY <1>2
  <1> QED BY <1>2, <1>3, <1>4, <1>7, <1>8, <1>9, <1>10, <1>11, EndKeeps

LEMMA ExistingOutcomeKeeps ==
  ASSUME SourceInv, NEW w \in Workers, ExistingOutcome(w)
  PROVE  SourceInv'
  <1>1. CASE Completed(worker[w].r) BY <1>1, SucceedKeeps
  <1>2. CASE ~Completed(worker[w].r)
    BY <1>2, PcKeeps DEF ExistingOutcome, Pcs, Scoped, Unfenced
  <1> QED BY <1>1, <1>2

\* What a failed read leaves of the snapshots.
LEMMA FailedSnaps ==
  ASSUME SourceInv, NEW w \in Workers, worker[w].pc # "idle", worker[w].pc # "settle",
         NEW retry, NEW contention, SettleFailedRead(w, retry, contention)
  PROVE  /\ DOMAIN snap' = DOMAIN snap
         /\ \A f \in DOMAIN snap : \/ snap'[f] = snap[f]
                                   \/ f = worker[w].sf /\ snap'[f].state = "rejected"
         /\ worker[w].sf \in DOMAIN snap => snap'[worker[w].sf].state = "rejected"
         /\ \A f \in DOMAIN snap : snap'[f] \in Snaps(lease.fence)
         /\ SnapKept
  <1> DEFINE f == worker[w].sf
  <1>1. /\ snap' = [g \in DOMAIN snap |->
                      IF g = f THEN [snap[g] EXCEPT !.state = "rejected"] ELSE snap[g]]
        /\ ~Completed(worker[w].r)
    BY DEF SettleFailedRead
  <1>2. f \in DOMAIN snap => snap[f].state # "promoted"
    <2>1. 0 \notin DOMAIN snap /\ FenceOK(w) /\ worker[w].pc \in Pcs
      BY TypeParts DEF SourceInv, Processes
    <2>2. f \in DOMAIN snap => snap[f].r = worker[w].r
      BY <2>1 DEF FenceOK, Pcs, Scoped, Unfenced, Opening, Loading, Closing
    <2> QED BY <1>1, <2>2 DEF Completed, Attempts
  <1>3. \A g \in DOMAIN snap : snap[g] \in Snaps(lease.fence)
    BY TypeParts DEF SourceInv
  <1>4. DOMAIN snap' = DOMAIN snap /\ \A g \in DOMAIN snap \ {f} : snap'[g] = snap[g]
    BY <1>1
  <1>5. f \in DOMAIN snap =>
          /\ snap'[f] \in Snaps(lease.fence) /\ snap'[f].state = "rejected"
          /\ snap'[f].r = snap[f].r /\ snap'[f].base = snap[f].base
    <2> SUFFICES ASSUME f \in DOMAIN snap
                 PROVE  /\ snap'[f] \in Snaps(lease.fence)
                        /\ snap'[f].state = "rejected"
                        /\ snap'[f].r = snap[f].r /\ snap'[f].base = snap[f].base
      OBVIOUS
    <2>1. snap'[f] = [snap[f] EXCEPT !.state = "rejected"] BY <1>1
    <2>2. snap[f] \in Snaps(lease.fence) BY <1>3
    <2> QED BY <2>1, <2>2 DEF Snaps
  <1>6. SnapKept BY <1>2, <1>4, <1>5 DEF SnapKept
  <1> QED BY <1>3, <1>4, <1>5, <1>6

\* A failed read is settled, with or without a new refusal.
LEMMA FailedReadKeeps ==
  ASSUME SourceInv, NEW w \in Workers,
         worker[w].pc # "idle", worker[w].pc # "settle",
         NEW retry, NEW contention, SettleFailedRead(w, retry, contention),
         UNCHANGED <<scope, current, calls, acceptance, faults, changes>>,
         refusal' \in {0} \union DOMAIN snap, RefusalOK', AcceptedOK'
  PROVE  SourceInv'
  <1>1. SourceTypeOK /\ CallsOK BY DEF SourceInv
  <1>2. /\ DOMAIN snap' = DOMAIN snap
        /\ \A f \in DOMAIN snap : \/ snap'[f] = snap[f]
                                  \/ f = worker[w].sf /\ snap'[f].state = "rejected"
        /\ \A f \in DOMAIN snap : snap'[f] \in Snaps(lease.fence)
        /\ SnapKept
    BY FailedSnaps
  <1>3. PICK st \in {"retry_wait", "failed"} :
          req' = [req EXCEPT ![worker[w].r].state = st, ![worker[w].r].live = FALSE]
    BY Zenon DEF SettleFailedRead
  <1>4. /\ TaskOwned(w) /\ Leaves(w) /\ ~Completed(worker[w].r)
        /\ lease' = lease \/ lease' = Released
    BY DEF SettleFailedRead
  <1>5. lease' \in Leases /\ lease'.fence = lease.fence /\ lease'.ext = lease.ext
    BY <1>1, <1>4, TypeParts DEF Released, Leases
  <1>6. st \in Ended \union {"retry_wait"} /\ st # "succeeded" BY DEF Ended
  <1>7. req' \in [Requests -> Rows] BY <1>3, <1>6, SettledRows
  <1>8. worker' \in [Workers -> Processes(lease'.fence)]
    BY <1>1, <1>4, <1>5, Leaving
  <1>9. SourceTypeOK'
    <2>1. DomainTypes' BY <1>1, <1>2, TypeParts DEF DomainTypes
    <2> QED BY <1>1, <1>2, <1>5, <1>7, <1>8, <2>1, TypeParts, TypePartsNext
  <1>10. CallsOK' BY <1>1, <1>5 DEF CallsOK
  <1> QED BY <1>2, <1>3, <1>4, <1>5, <1>6, <1>9, <1>10, EndKeeps

LEMMA FailuresKeep ==
  ASSUME SourceInv, NEW w \in Workers,
         \/ ScopeChanged(w) \/ LeaseUnavailable(w) \/ ReadFails(w)
         \/ AcceptanceLapsed(w)
  PROVE  SourceInv'
  <1>1. PICK retry \in BOOLEAN, contention \in BOOLEAN :
          SettleFailedRead(w, retry, contention)
    BY DEF ScopeChanged, LeaseUnavailable, ReadFails, AcceptanceLapsed
  <1>2. /\ UNCHANGED <<current, calls, faults, domain>>
        /\ worker[w].pc # "idle" /\ worker[w].pc # "settle"
    BY DEF ScopeChanged, LeaseUnavailable, ReadFails, AcceptanceLapsed, Scoped, Verified
  <1>3. SnapKept BY <1>1, <1>2, FailedSnaps
  <1>4. RefusalOK' /\ AcceptedOK' BY <1>2, <1>3, RefusalKept DEF domain
  <1>5. refusal' \in {0} \union DOMAIN snap
    BY <1>2, TypeParts DEF SourceInv, DomainTypes, domain
  <1> QED BY <1>1, <1>2, <1>4, <1>5, FailedReadKeeps DEF domain

LEMMA LoadRefusedKeeps ==
  ASSUME SourceInv, NEW w \in Workers, LoadRefused(w)
  PROVE  SourceInv'
  <1> DEFINE f == worker[w].sf
  <1>1. /\ SettleFailedRead(w, FALSE, FALSE) /\ worker[w].pc = "loaded"
        /\ refusal' = f
        /\ UNCHANGED <<scope, current, calls, acceptance, faults, changes>>
    BY DEF LoadRefused
  <1>2. /\ SnapKept
        /\ f \in DOMAIN snap => snap'[f].state = "rejected"
    BY <1>1, FailedSnaps
  <1>3. f \in DOMAIN snap /\ f # 0
    <2>1. FenceOK(w) /\ 0 \notin DOMAIN snap BY TypeParts DEF SourceInv
    <2> QED BY <1>1, <2>1 DEF FenceOK, Loading
  <1>4. lease.fence = f BY <1>1, <1>3 DEF SettleFailedRead, SourceOwned
  <1>5. snap[f].state = "staging"
    <2>1. FenceOK(w) BY DEF SourceInv
    <2> QED BY <1>1, <1>4, <2>1 DEF FenceOK, Loading
  <1>6. snap[f].base = current.snap
    BY <1>3, <1>4, <1>5 DEF SourceInv, OpenOnCurrent
  <1>7. RefusalOK' BY <1>1, <1>2, <1>3, <1>6 DEF RefusalOK, SnapKept
  <1>8. AcceptedOK'
    <2>1. /\ Promoted' = Promoted
          /\ \A g \in Promoted : snap'[g] = snap[g]
      BY <1>2, SamePromoted
    <2> QED BY <1>1, <1>2, <1>5, <2>1 DEF SourceInv, AcceptedOK, SnapKept
  <1> QED BY <1>1, <1>3, <1>7, <1>8, FailedReadKeeps

-----------------------------------------------------------------------------
(* The promotion.                                                          *)

LEMMA GreatestIsMax ==
  ASSUME NEW S \in SUBSET Nat, NEW m \in S, \A y \in S : y <= m
  PROVE  Max(S) = m
  <1>1. \A x \in S : (\A y \in S : x >= y) => x = m OBVIOUS
  <1>2. \A y \in S : m >= y OBVIOUS
  <1> QED BY <1>1, <1>2 DEF Max

\* A promotion extends the chain of source truth by its own corpus.
LEMMA ChainGrows ==
  ASSUME SourceInv, NEW f \in DOMAIN snap, f = lease.fence,
         snap[f].state = "ready", snap[f].base = current.snap,
         Promoted' = Promoted \union {f},
         \A g \in Promoted : snap'[g] = snap[g],
         snap'[f].gen = current.gen + 1, snap'[f].base = snap[f].base,
         current' = [snap |-> f, gen |-> current.gen + 1]
  PROVE  TruthIsAChain'
  <1>1. /\ f \in Nat /\ DOMAIN snap \subseteq 1 .. f
    BY TypeParts DEF SourceInv, Leases
  <1>2. f \notin Promoted /\ \A g \in Promoted : g \in Nat /\ g < f
    BY <1>1 DEF Promoted
  <1>3. IsFiniteSet(Promoted) /\ Cardinality(Promoted) \in Nat
    <2>1. IsFiniteSet(1 .. f) BY <1>1, FS_Interval
    <2>2. Promoted \subseteq 1 .. f BY <1>1 DEF Promoted
    <2> QED BY <2>1, <2>2, FS_Subset, FS_CardinalityType
  <1>4. Cardinality(Promoted') = Cardinality(Promoted) + 1
    BY <1>2, <1>3, FS_AddElement
  <1>5. /\ current.gen = Cardinality(Promoted)
        /\ current.snap = IF Promoted = {} THEN 0 ELSE Max(Promoted)
    BY DEF SourceInv, TruthIsAChain
  <1>6. Max(Promoted') = f /\ Promoted' # {}
    <2>1. Promoted' \in SUBSET Nat /\ f \in Promoted' /\ \A y \in Promoted' : y <= f
      BY <1>1, <1>2
    <2> QED BY <2>1, GreatestIsMax
  <1>7. /\ current'.gen = Cardinality(Promoted')
        /\ current'.snap = IF Promoted' = {} THEN 0 ELSE Max(Promoted')
    BY <1>4, <1>5, <1>6
  <1>8. ASSUME NEW g \in Promoted'
        PROVE  LET before == {h \in Promoted' : h < g}
               IN /\ snap'[g].gen = Cardinality(before) + 1
                  /\ snap'[g].base = IF before = {} THEN 0 ELSE Max(before)
    <2>1. CASE g = f
      <3>1. {h \in Promoted' : h < g} = Promoted BY <1>1, <1>2, <2>1
      <3>2. snap'[g].gen = Cardinality(Promoted) + 1
        BY <1>5, <2>1
      <3>3. snap'[g].base = IF Promoted = {} THEN 0 ELSE Max(Promoted)
        BY <1>5, <2>1, Zenon
      <3> QED BY <3>1, <3>2, <3>3, Zenon
    <2>2. CASE g # f
      <3>1. g \in Promoted BY <2>2
      <3>2. {h \in Promoted' : h < g} = {h \in Promoted : h < g}
        BY <1>1, <1>2, <3>1
      <3>3. LET before == {h \in Promoted : h < g}
            IN /\ snap[g].gen = Cardinality(before) + 1
               /\ snap[g].base = IF before = {} THEN 0 ELSE Max(before)
        BY <3>1, Zenon DEF SourceInv, TruthIsAChain
      <3>4. snap'[g] = snap[g] BY <3>1
      <3> QED BY <3>2, <3>3, <3>4, Zenon
    <2> QED BY <2>1, <2>2
  <1> QED BY <1>7, <1>8, Zenon DEF TruthIsAChain

LEMMA PromoteKeeps ==
  ASSUME SourceInv, NEW w \in Workers, Promote(w)
  PROVE  SourceInv'
  <1>1. SourceTypeOK /\ CallsOK /\ ClaimOK(w) /\ FenceOK(w) BY DEF SourceInv
  <1> DEFINE f == worker[w].sf
             r == worker[w].r
  <1>2. /\ worker[w].pc = "promote" /\ TaskOwned(w) /\ lease.fence = f
        /\ snap[f].state = "ready" /\ snap[f].base = current.snap
        /\ snap[f].acc # 0 => snap[f].acc = LiveAcceptance
        /\ snap' = [snap EXCEPT ![f].state = "promoted", ![f].gen = current.gen + 1]
        /\ current' = [snap |-> f, gen |-> current.gen + 1]
        /\ refusal' = 0
        /\ ToPc(w, "settle")
        /\ UNCHANGED <<scope, req, lease, calls, acceptance, faults, changes>>
    BY DEF Promote, Verified, SourceOwned
  <1>3. f \in DOMAIN snap /\ snap[f].r = r
    BY <1>1, <1>2 DEF FenceOK, Closing
  <1>4. r \in Requests /\ ~Completed(r) /\ req[r].state = "running"
        /\ worker[w].tf = req[r].tf
    BY <1>1, <1>2 DEF ClaimOK, TaskOwned
  <1>5. /\ snap[f] \in Snaps(lease.fence) /\ current.gen \in Nat
        /\ lease.fence \in Nat /\ 0 \notin DOMAIN snap
    BY <1>1, <1>3, TypeParts DEF DomainTypes, Leases
  <1>6. /\ DOMAIN snap' = DOMAIN snap
        /\ \A g \in DOMAIN snap \ {f} : snap'[g] = snap[g]
        /\ snap'[f] = [snap[f] EXCEPT !.state = "promoted", !.gen = current.gen + 1]
    BY <1>2, <1>3
  <1>7. /\ snap'[f] \in Snaps(lease.fence) /\ snap'[f].state = "promoted"
        /\ snap'[f].r = r /\ snap'[f].base = snap[f].base
        /\ snap'[f].acc = snap[f].acc /\ snap'[f].gen = current.gen + 1
    <2>1. current.gen + 1 \in Nat BY <1>5
    <2>2. snap'[f] \in Snaps(lease.fence) /\ snap'[f].state = "promoted"
      BY <1>5, <1>6, <2>1 DEF Snaps
    <2>3. /\ snap'[f].r = snap[f].r /\ snap'[f].base = snap[f].base
          /\ snap'[f].acc = snap[f].acc /\ snap'[f].gen = current.gen + 1
      BY <1>5, <1>6 DEF Snaps
    <2> QED BY <1>3, <2>2, <2>3
  <1>8. /\ worker'[w].pc = "settle" /\ worker'[w].r = r
        /\ worker'[w].tf = worker[w].tf /\ worker'[w].sf = f
        /\ \A v \in Workers \ {w} : worker'[v] = worker[v]
        /\ worker' \in [Workers -> Processes(lease'.fence)]
    <2>1. "settle" \in Pcs BY DEF Pcs
    <2> QED BY <1>1, <1>2, <2>1, PcMoves
  <1>9. /\ Promoted' = Promoted \union {f} /\ f \notin Promoted
        /\ \A g \in Promoted : snap'[g] = snap[g]
    BY <1>2, <1>3, <1>6, <1>7 DEF Promoted
  <1>10. SourceTypeOK'
    <2>1. \A g \in DOMAIN snap' : snap'[g] \in Snaps(lease.fence)
      BY <1>1, <1>6, <1>7, TypeParts
    <2>2. DomainTypes'
      BY <1>1, <1>2, <1>3, <1>5, <1>6, TypeParts DEF DomainTypes
    <2> QED BY <1>1, <1>2, <1>6, <1>8, <2>1, <2>2, TypeParts, TypePartsNext
  <1>11. CallsOK' BY <1>1, <1>2 DEF CallsOK
  <1>12. OneWorkerPerClaim' /\ OneWorkerPerFence'
    BY <1>2, <1>8, PairsKept DEF SourceInv
  <1>13. \A v \in Workers \ {w} : worker[v].sf # f
    BY <1>3, <1>5 DEF SourceInv, OneWorkerPerFence
  <1>14. \A q : q # r => (Completed(q)' <=> Completed(q))
    BY <1>3, <1>6, <1>7 DEF Completed, Attempts
  <1>15. ASSUME NEW v \in Workers PROVE ClaimOK(v)' /\ FenceOK(v)'
    <2>1. CASE v = w
      <3>1. ClaimOK(w)'
        BY <1>1, <1>2, <1>4, <1>8 DEF ClaimOK
      <3>2. FenceOK(w)'
        BY <1>3, <1>6, <1>7, <1>8 DEF FenceOK, Unfenced, Opening, Loading, Closing
      <3> QED BY <2>1, <3>1, <3>2
    <2>2. CASE v # w
      <3>1. worker'[v] = worker[v] /\ ClaimOK(v) /\ FenceOK(v) BY <1>8, <2>2 DEF SourceInv
      <3>2. FenceOK(v)'
        BY <1>2, <1>6, <1>13, <2>2, <3>1 DEF FenceOK
      <3>3. worker[v].pc # "idle" /\ worker[v].tf = req[worker[v].r].tf => worker[v].r # r
        BY <1>2, <1>4, <2>2 DEF SourceInv, OneWorkerPerClaim
      <3>4. ClaimOK(v)'
        <4> SUFFICES ASSUME worker[v].pc # "idle"
                     PROVE  /\ worker[v].r \in Requests
                            /\ worker[v].tf <= req[worker[v].r].tf
                            /\ worker[v].tf = req[worker[v].r].tf =>
                                 /\ req[worker[v].r].state = "running"
                                 /\ worker[v].pc \notin {"existing", "settle"} =>
                                      ~Completed(worker[v].r)'
          BY <1>2, <3>1, Zenon DEF ClaimOK
        <4> QED BY <1>14, <3>1, <3>3, Zenon DEF ClaimOK
      <3> QED BY <3>2, <3>4
    <2> QED BY <2>1, <2>2
  <1>16. OpenOnCurrent' BY <1>2, <1>6, <1>7 DEF OpenOnCurrent
  <1>17. RefusalOK' BY <1>2 DEF RefusalOK
  <1>18. snap[f].acc # 0 =>
           /\ snap[f].acc = refusal /\ refusal \in DOMAIN snap
           /\ snap[refusal].state = "rejected" /\ snap[refusal].base = current.snap
    <2>1. refusal \in {0} \union DOMAIN snap BY <1>1, TypeParts DEF DomainTypes
    <2> QED BY <1>2, <2>1 DEF LiveAcceptance, SourceInv, RefusalOK
  <1>19. AcceptedOK'
    <2> SUFFICES ASSUME NEW g \in Promoted', snap'[g].acc # 0
                 PROVE  /\ snap'[g].acc \in DOMAIN snap' /\ snap'[g].acc # refusal'
                        /\ snap'[snap'[g].acc].state = "rejected"
      BY Zenon DEF AcceptedOK
    <2>1. snap'[g].acc = snap[g].acc BY <1>7, <1>9
    <2>2. snap[g].acc \in DOMAIN snap /\ snap[snap[g].acc].state = "rejected"
      BY <1>9, <1>18, <2>1 DEF SourceInv, AcceptedOK
    <2> QED BY <1>2, <1>6, <2>1, <2>2
  <1>20. AcceptedAsReviewed'
    <2> SUFFICES ASSUME NEW g \in Promoted', snap'[g].acc # 0
                 PROVE  /\ snap'[g].base = snap'[snap'[g].acc].base
                        /\ \A h \in Promoted' \ {g} : snap'[h].acc # snap'[g].acc
      BY Zenon DEF AcceptedAsReviewed
    <2>1. \A h \in Promoted' : snap'[h].acc = snap[h].acc /\ snap'[h].base = snap[h].base
      BY <1>7, <1>9
    <2>2. \A h \in DOMAIN snap : snap'[h].base = snap[h].base BY <1>6, <1>7
    <2>3. \A h \in Promoted : snap[h].acc # 0 =>
            /\ snap[h].acc \in DOMAIN snap /\ snap[h].acc # refusal
            /\ snap[h].base = snap[snap[h].acc].base
            /\ \A k \in Promoted \ {h} : snap[k].acc # snap[h].acc
      BY DEF SourceInv, AcceptedOK, AcceptedAsReviewed
    <2>4. CASE g = f
      <3>1. snap[f].acc # 0 /\ f \in Promoted' BY <1>9, <2>1, <2>4
      <3>2. /\ snap'[f].acc = refusal /\ snap'[f].base = current.snap
            /\ snap'[refusal].base = current.snap
        BY <1>2, <1>18, <2>1, <2>2, <3>1
      <3>3. \A h \in Promoted : snap'[h].acc # refusal
        BY <1>9, <1>18, <2>1, <2>3, <3>1
      <3> QED BY <1>9, <2>4, <3>2, <3>3
    <2>5. CASE g # f
      <3>1. g \in Promoted /\ snap[g].acc # 0 BY <1>9, <2>1, <2>5
      <3> QED BY <1>9, <1>18, <2>1, <2>2, <2>3, <3>1
    <2> QED BY <2>4, <2>5
  <1>21. OutcomeOK'
    <2>1. \A g \in Promoted : snap[g].r # r
      BY <1>4 DEF Promoted, Completed, Attempts
    <2>2. \A g, h \in Promoted' : snap'[g].r = snap'[h].r => g = h
      BY <1>7, <1>9, <2>1 DEF SourceInv, OutcomeOK
    <2>3. ASSUME NEW q \in Requests
          PROVE  /\ req'[q].state = "succeeded" => Completed(q)'
                 /\ req'[q].state \in {"failed", "cancelled"} => ~Completed(q)'
      BY <1>2, <1>4, <1>14 DEF SourceInv, OutcomeOK
    <2> QED BY <2>2, <2>3 DEF OutcomeOK
  <1>22. TruthIsAChain'
    BY <1>2, <1>3, <1>7, <1>9, ChainGrows
  <1> QED BY <1>10, <1>11, <1>12, <1>15, <1>16, <1>17, <1>19, <1>20, <1>21, <1>22
          DEF SourceInv

-----------------------------------------------------------------------------
(* Every step, and what follows.                                           *)

LEMMA SourceStepKeeps == SourceInv /\ [SourceNext]_sourceVars => SourceInv'
  <1> SUFFICES ASSUME SourceInv, [SourceNext]_sourceVars PROVE SourceInv' OBVIOUS
  <1>1. ASSUME NEW w \in Workers, WorkerStep(w) PROVE SourceInv'
    <2>1. CASE Prepare(w) \/ Inputs(w) \/ CallReturns(w) \/ StageRows(w)
      BY <2>1, PcStepsKeep
    <2>2. CASE ExistingOutcome(w) BY <2>2, ExistingOutcomeKeeps
    <2>3. CASE CompactBeforeRefresh(w) \/ AcquireFull(w) BY <2>3, AcquireKeeps
    <2>4. CASE SkipCompaction(w) \/ ReleaseCompaction(w) BY <2>4, CompactionEndsKeeps
    <2>5. CASE BeginAttempt(w) BY <2>5, BeginAttemptKeeps
    <2>6. CASE ReserveRequest(w) BY <2>6, ReserveRequestKeeps
    <2>7. CASE LoadAccepted(w) BY <2>7, LoadAcceptedKeeps
    <2>8. CASE CompleteSnapshot(w) BY <2>8, CompleteSnapshotKeeps
    <2>9. CASE RetireDrained(w) BY <2>9, RetireDrainedKeeps
    <2>10. CASE Promote(w) BY <2>10, PromoteKeeps
    <2>11. CASE SettleRefresh(w) BY <2>11, SucceedKeeps
    <2>12. CASE ScopeChanged(w) \/ LeaseUnavailable(w) \/ ReadFails(w) \/ AcceptanceLapsed(w)
      BY <2>12, FailuresKeep
    <2>13. CASE LoadRefused(w) BY <2>13, LoadRefusedKeeps
    <2>14. CASE Lost(w) BY <2>14, GoneKeeps
    <2> QED BY <1>1, <2>1, <2>2, <2>3, <2>4, <2>5, <2>6, <2>7, <2>8, <2>9, <2>10,
               <2>11, <2>12, <2>13, <2>14 DEF WorkerStep
  <1>2. ASSUME NEW w \in Workers, Crash(w) PROVE SourceInv' BY <1>2, GoneKeeps
  <1>3. ASSUME NEW w \in Workers, NEW r \in Requests, ClaimRefresh(w, r) PROVE SourceInv'
    BY <1>3, ClaimKeeps
  <1>4. ASSUME NEW r \in Requests, RequestRefresh(r) \/ ScanStep(r) \/ TaskLeaseLapses(r)
        PROVE  SourceInv'
    BY <1>4, RequestRefreshKeeps, TaskLeaseLapsesKeeps, LeaseExpiredKeeps, RecoverKeeps,
       CancelSupersededKeeps DEF ScanStep
  <1>5. CASE TimeStep \/ ChangeScope \/ Accept \/ AcceptanceExpires \/ Rest
             \/ UNCHANGED sourceVars
    BY <1>5, QuietStepsKeep DEF Rest
  <1> QED BY <1>1, <1>2, <1>3, <1>4, <1>5 DEF SourceNext

LEMMA SourceInvIsSafe == SourceInv => SourceSafe
  <1> SUFFICES ASSUME SourceInv PROVE SourceSafe OBVIOUS
  <1>1. SourceTypeOK /\ TruthIsAChain /\ AcceptedAsReviewed BY DEF SourceInv
  <1>2. OneReadAtATime
    <2>1. calls = {} \/ calls = {lease.fence} BY DEF SourceInv, CallsOK
    <2>2. Cardinality({}) = 0 BY FS_EmptySet
    <2>3. Cardinality({lease.fence}) = 1 BY FS_Singleton
    <2>4. Cardinality(calls) = 0 \/ Cardinality(calls) = 1 BY <2>1, <2>2, <2>3
    <2> QED BY <2>4 DEF OneReadAtATime
  <1>3. BaseIsCurrent
    <2> SUFFICES ASSUME NEW w \in Workers, worker[w].pc \notin {"idle", "settle"},
                        worker[w].sf \in DOMAIN snap, SourceOwned(w)
                 PROVE  snap[worker[w].sf].base = current.snap
      BY DEF BaseIsCurrent
    <2>1. worker[w].sf = lease.fence BY DEF SourceOwned
    <2>2. FenceOK(w) /\ worker[w].pc \in Pcs /\ 0 \notin DOMAIN snap
      BY TypeParts DEF SourceInv, Processes
    <2>3. snap[worker[w].sf].state \in {"staging", "ready"}
      BY <2>1, <2>2 DEF FenceOK, Pcs, Scoped, Unfenced, Opening, Loading, Closing
    <2> QED BY <2>1, <2>3 DEF SourceInv, OpenOnCurrent
  <1>4. OutcomeIsPublication
    <2> SUFFICES ASSUME NEW r \in Requests
                 PROVE  LET published == Attempts(r) \intersect Promoted
                        IN /\ Cardinality(published) <= 1
                           /\ req[r].state = "succeeded" => published # {}
                           /\ req[r].state \in {"failed", "cancelled"} => published = {}
      BY Zenon DEF OutcomeIsPublication
    <2> DEFINE published == Attempts(r) \intersect Promoted
    <2>1. published # {} <=> Completed(r) BY DEF Completed, Attempts, Promoted
    <2>2. \A f, g \in published : f = g
      BY DEF Attempts, SourceInv, OutcomeOK
    <2>3. Cardinality(published) <= 1
      <3>1. CASE published = {} BY <3>1, FS_EmptySet
      <3>2. CASE published # {}
        <4>1. PICK f \in published : TRUE BY <3>2
        <4>2. published = {f} BY <2>2, <4>1
        <4>3. Cardinality({f}) = 1 BY FS_Singleton
        <4> QED BY <4>2, <4>3
      <3> QED BY <3>1, <3>2
    <2>4. /\ req[r].state = "succeeded" => published # {}
          /\ req[r].state \in {"failed", "cancelled"} => published = {}
      BY <2>1 DEF SourceInv, OutcomeOK
    <2> HIDE DEF published
    <2> QED BY <2>3, <2>4 DEF published
  <1> QED BY <1>1, <1>2, <1>3, <1>4 DEF SourceSafe

\* The invariant holds in every reachable state.
THEOREM SourceInvariant == SourceSpec => []SourceInv
  BY SourceInitHolds, SourceStepKeeps, PTL DEF SourceSpec

\* For any number of requests, workers, crashes, lost leases and changes of
\* scope: ParishSoft is read by one process at a time, source truth is one
\* chain in the order of the fences, a read's base cannot change under its
\* owner, a refresh succeeds exactly when it published, and an acceptance lets
\* through one load, against the corpus that was reviewed (acquire_source,
\* promote_snapshot, settle_failed_read, recovery_plan, require_live).
THEOREM SourceIsSafe == SourceSpec => []SourceSafe
  BY SourceInvariant, SourceInvIsSafe, PTL

-----------------------------------------------------------------------------
(* The least and the greatest of a set of times.                           *)

\* A set of natural numbers that is not empty has its least element.
LEMMA MinIs ==
  ASSUME NEW S \in SUBSET Nat, S # {}
  PROVE  Min(S) \in S /\ \A y \in S : Min(S) <= y
<1> DEFINE R == {ss \in Nat \X Nat : ss[1] < ss[2]}
<1>0. IsWellFoundedOn(R, Nat)
  BY NatLessThanWellFounded, Zenon DEF OpToRel
<1> HIDE DEF R
<1>2. PICK x \in S : \A y \in S : ~ (<<y, x>> \in R)
  BY <1>0, WFMin
<1> USE DEF R
<1>3. ASSUME NEW y \in S PROVE x <= y
  <2>1. x \in Nat /\ y \in Nat
    OBVIOUS
  <2>2. ~ (<<y, x>> \in R)
    BY <1>2
  <2>3. ~ (y < x)
    BY <2>1, <2>2
  <2> QED
    BY <2>1, <2>3
<1> QED
  BY <1>3 DEF Min

\* A bounded set of them has its greatest.
LEMMA MaxIs ==
  ASSUME NEW n \in Nat, NEW S \in SUBSET (0 .. n), S # {}
  PROVE  Max(S) \in S /\ \A y \in S : y <= Max(S)
<1> DEFINE T == {n - s : s \in S}
<1>1. T \in SUBSET Nat
  OBVIOUS
<1>a. T # {}
  OBVIOUS
<1>2. Min(T) \in T /\ \A y \in T : Min(T) <= y
  BY <1>1, <1>a, MinIs
<1>3. PICK x \in S : Min(T) = n - x
  BY <1>2
<1>4. ASSUME NEW y \in S PROVE  y <= x
  <2>1. n - y \in T /\ x \in Int /\ y \in Int
    OBVIOUS
  <2>2. n - x <= n - y
    BY <1>2, <1>3, <2>1
  <2> HIDE DEF T
  <2> QED
    BY <2>1, <2>2
<1> QED
  BY <1>4 DEF Max

-----------------------------------------------------------------------------
(* The slots of scheduled refreshes.                                       *)

\* The catch-up slot is born with the change of schedule, and no window skips
\* it; a skipped slot never ran; a held one is the old schedule's until the
\* change, and had fallen due under it if the new one dropped it.
CatchUpOK ==
    /\ changed = Never => /\ ran[CatchUp] = Never /\ decision[CatchUp] = "none"
                          /\ ~ pass.catchUp
    /\ decision[CatchUp] # "skipped"
SkippedNeverRan == \A s \in Slots : decision[s] = "skipped" => ran[s] = Never
DroppedWereDue ==
    \A s \in Slots \ {CatchUp} :
        decision[s] = "held" => /\ changed = Never => s \in OldSlots
                                /\ changed # Never /\ s \notin NewSlots => s <= changed

SlotsInv ==
    /\ SlotsTypeOK
    /\ ran \in [Slots -> Int] /\ decision \in [Slots -> {"none", "held", "skipped"}]
    /\ CatchUpOK
    /\ SkippedNeverRan
    /\ DroppedWereDue
    /\ loading = NotLoading \/ loading.start # Never

\* Slots are named by times within the horizon, and the catch-up is neither
\* schedule's.
LEMMA SlotsAre ==
  /\ MaxTime \in Nat /\ Slots \subseteq 0 .. MaxTime /\ CatchUp \in Slots
  /\ OldSlots \subseteq Slots /\ NewSlots \subseteq Slots
  /\ CatchUp \notin OldSlots /\ CatchUp \notin NewSlots
  BY SlotBounds DEF Slots, CatchUp

\* The listed slots have fallen due, and the latest is the last of them.
LEMMA ListedAre ==
  ASSUME SlotsTypeOK
  PROVE  /\ now \in Nat
         /\ \A s \in Listed : /\ s \in Slots /\ s # CatchUp /\ s \in Nat /\ s <= now
                              /\ DueAt(s) = s
         /\ LatestSlot \subseteq Listed
         /\ Listed # {} => \E s \in LatestSlot : \A q \in Listed : q <= s
<1>1. now \in Nat
  BY SlotsAre DEF SlotsTypeOK, Times
<1>2. \A s \in Listed : /\ s \in Slots /\ s # CatchUp /\ s \in Nat /\ s <= now
                        /\ DueAt(s) = s
  BY SlotsAre DEF Listed, CurrentSlots, DueAt
<1>3. Listed \subseteq 0 .. now
  BY <1>1, <1>2
<1>4. Listed # {} => Max(Listed) \in Listed /\ \A q \in Listed : q <= Max(Listed)
  BY <1>1, <1>3, MaxIs
<1> QED
  BY <1>1, <1>2, <1>4 DEF LatestSlot

\* What a pass decides: only what was undecided, and only what is due.
LEMMA DecidedIs ==
  ASSUME SlotsInv, NEW p, NEW s \in Slots
  PROVE  /\ decision[s] # "none" => Decided(p)[s] = decision[s]
         /\ Decided(p)[s] # decision[s] => /\ s \in Listed /\ ran[s] = Never
                                           /\ Decided(p)[s] \in {"held", "skipped"}
         /\ Decided(p)[s] \in {"none", "held", "skipped"}
         /\ Decided(p)[s] = "held" /\ decision[s] # "held" => p.held
<1>1. decision[s] \in {"none", "held", "skipped"}
  BY DEF SlotsInv
<1>2. Decided(p)[s] = IF ~Deciding(p) \/ s \notin Undecided(p) THEN decision[s]
                      ELSE IF s \in p.windows THEN "skipped"
                      ELSE IF p.held THEN "held"
                      ELSE decision[s]
  BY DEF Decided
<1>3. s \in Undecided(p) => s \in Listed /\ ran[s] = Never /\ decision[s] = "none"
  BY DEF Undecided
<1> QED
  BY <1>1, <1>2, <1>3

\* The slots a pass creates are due, have not run and were not skipped.
LEMMA CreatedAre ==
  ASSUME SlotsInv, NEW p, p.catchUp => changed # Never, NEW s \in Created(p)
  PROVE  /\ s \in Slots /\ ran[s] = Never /\ Decided(p)[s] # "skipped"
         /\ (s = CatchUp /\ changed # Never) \/ s \in Listed
<1>1. /\ s \in Candidates(p) /\ ran[s] = Never /\ Decided(p)[s] # "skipped"
  BY DEF Created, Eligible
<1>2. s \in Listed \/ (s = CatchUp /\ p.catchUp)
  BY <1>1, ListedAre DEF Candidates, Extra, SlotsInv
<1> QED
  BY <1>1, <1>2, ListedAre, SlotsAre DEF SlotsInv

\* What a pass leaves: ticks for the slots it creates, and decisions that are
\* new only for slots that were due and undecided.
LEMMA PassIs ==
  ASSUME SlotsInv, NEW p, p.catchUp => changed # Never, NEW s \in Slots
  PROVE  /\ RanAfter(p)[s] = IF s \in Created(p) THEN now ELSE ran[s]
         /\ decision[s] # "none" => DecisionAfter(p)[s] = decision[s]
         /\ DecisionAfter(p)[s] \in {"none", "held", "skipped"}
         /\ DecisionAfter(p)[s] # decision[s] =>
               \/ s \in Listed
               \/ s = CatchUp /\ changed # Never /\ DecisionAfter(p)[s] = "held"
         /\ DecisionAfter(p)[s] = "skipped" => RanAfter(p)[s] = Never
         /\ DecisionAfter(p)[s] = "held" /\ decision[s] # "held" => p.held
<1>1. RanAfter(p)[s] = IF s \in Created(p) THEN now ELSE ran[s]
  BY DEF RanAfter
<1>2. DecisionAfter(p)[s] = IF Deciding(p) /\ s \in Held(p) /\ Decided(p)[s] = "none"
                            THEN "held" ELSE Decided(p)[s]
  BY DEF DecisionAfter
<1>3. /\ decision[s] # "none" => Decided(p)[s] = decision[s]
      /\ Decided(p)[s] # decision[s] => /\ s \in Listed /\ ran[s] = Never
                                        /\ Decided(p)[s] \in {"held", "skipped"}
      /\ Decided(p)[s] \in {"none", "held", "skipped"}
      /\ Decided(p)[s] = "held" /\ decision[s] # "held" => p.held
  BY DecidedIs
<1>4. s \in Held(p) => /\ p.held
                       /\ s \in Listed \/ (s = CatchUp /\ p.catchUp)
  BY ListedAre DEF Held, Eligible, Candidates, Extra, SlotsInv
<1>5. s \in Created(p) => Decided(p)[s] # "skipped"
  BY CreatedAre
<1>6. decision[s] = "skipped" => ran[s] = Never
  BY DEF SlotsInv, SkippedNeverRan
<1> QED
  BY <1>1, <1>2, <1>3, <1>4, <1>5, <1>6

-----------------------------------------------------------------------------
(* The steps of the producer and of those around it.                       *)

\* SlotsInv holds at first.
LEMMA SlotsStart ==
  ASSUME SlotsInit
  PROVE  SlotsInv
<1>1. SlotsTypeOK
  <2>1. /\ now = 0 /\ now \in Times /\ lastFull \in 0 .. now /\ since \in 0 .. now
        /\ sends \in 0 .. MaxSends /\ pauses \in 0 .. MaxPauses
    BY SlotBounds, SlotsAre DEF SlotsInit, Times
  <2>2. loading \in [start : {Never} \cup 0 .. now, asked : {Never} \cup 0 .. now]
    BY DEF SlotsInit, NotLoading
  <2>3. \A s \in Slots : ran[s] = Never /\ decision[s] = "none"
    BY DEF SlotsInit
  <2>4. {looped, skips, sending, mailPaused} \subseteq BOOLEAN
    BY SlotBounds DEF SlotsInit
  <2> QED
    BY <2>1, <2>2, <2>3, <2>4 DEF SlotsInit, SlotsTypeOK
<1>2. CatchUpOK
  BY SlotsAre DEF SlotsInit, CatchUpOK, NoPass
<1> QED
  BY <1>1, <1>2 DEF SlotsInit, SlotsInv, SkippedNeverRan, DroppedWereDue, Never

\* Steps that leave the slots alone.
LEMMA SlotsAlone ==
  ASSUME SlotsInv, SlotsTypeOK', UNCHANGED <<ran, decision, changed>>,
         changed = Never => ~ pass'.catchUp,
         loading' = loading \/ loading' = NotLoading \/ loading'.start # Never
  PROVE  SlotsInv'
  BY DEF SlotsInv, CatchUpOK, SkippedNeverRan, DroppedWereDue

\* The transaction under the lock, on reads that may be stale by then.
LEMMA WriteKeeps ==
  ASSUME SlotsInv, Write
  PROVE  SlotsInv'
<1>0. SlotsTypeOK /\ CatchUpOK /\ SkippedNeverRan /\ DroppedWereDue
  BY DEF SlotsInv
<1>1. pass.catchUp => changed # Never
  BY <1>0 DEF CatchUpOK
<1>2. now \in Nat /\ now \in Times
  BY <1>0, ListedAre DEF SlotsTypeOK
<1>3. /\ ran' = RanAfter(pass) /\ decision' = DecisionAfter(pass)
      /\ UNCHANGED <<now, changed>> /\ pass' = NoPass
  BY DEF Write, settingVars
<1>4. \A s \in Slots :
         /\ ran'[s] = IF s \in Created(pass) THEN now ELSE ran[s]
         /\ decision[s] # "none" => decision'[s] = decision[s]
         /\ decision'[s] \in {"none", "held", "skipped"}
         /\ decision'[s] # decision[s] =>
               \/ s \in Listed
               \/ s = CatchUp /\ changed # Never /\ decision'[s] = "held"
         /\ decision'[s] = "skipped" => ran'[s] = Never
  <2> TAKE s \in Slots
  <2>1. /\ RanAfter(pass)[s] = IF s \in Created(pass) THEN now ELSE ran[s]
        /\ decision[s] # "none" => DecisionAfter(pass)[s] = decision[s]
        /\ DecisionAfter(pass)[s] \in {"none", "held", "skipped"}
        /\ DecisionAfter(pass)[s] # decision[s] =>
              \/ s \in Listed
              \/ s = CatchUp /\ changed # Never /\ DecisionAfter(pass)[s] = "held"
        /\ DecisionAfter(pass)[s] = "skipped" => RanAfter(pass)[s] = Never
    BY <1>1, PassIs, Zenon
  <2> QED
    BY <1>3, <2>1
<1>5. \A s \in Created(pass) : /\ s \in Slots
                               /\ (s = CatchUp /\ changed # Never) \/ s \in Listed
  BY <1>1, CreatedAre
<1>6. \A s \in Listed : /\ s \in Slots /\ s # CatchUp /\ s \in Nat /\ s <= now
                        /\ DueAt(s) = s
  BY <1>0, ListedAre
<1>7. \A s \in Slots : DueAt(s)' = DueAt(s)
  BY <1>3 DEF DueAt
<1>8. changed # Never => DueAt(CatchUp) \in 0 .. now
  BY <1>0 DEF DueAt, SlotsTypeOK
<1>9. ran' \in [Slots -> Int] /\ decision' \in [Slots -> {"none", "held", "skipped"}]
  BY <1>2, <1>3, <1>4 DEF SlotsInv, RanAfter, DecisionAfter
<1>10. ASSUME NEW s \in Slots
       PROVE  /\ ran'[s] \in {Never} \cup DueAt(s) .. now
              /\ decision'[s] # "none" => DueAt(s) <= now
  <2>1. /\ ran[s] \in {Never} \cup DueAt(s) .. now
        /\ decision[s] # "none" => DueAt(s) <= now
    BY <1>0 DEF SlotsTypeOK
  <2>2. s \in Created(pass) \/ decision'[s] # decision[s] => DueAt(s) \in 0 .. now
    BY <1>2, <1>4, <1>5, <1>6, <1>8
  <2> QED
    BY <1>2, <1>4, <2>1, <2>2
<1>11. SlotsTypeOK'
  <2>1. logged' \subseteq Slots
    <3>1. \A p : Held(p) \subseteq Candidates(p) /\ Extra(p) \subseteq Listed
      BY DEF Held, Eligible, Extra
    <3>2. Held(pass) \subseteq Slots /\ Undecided(pass) \subseteq Slots
      BY <1>0, <1>6, <3>1, ListedAre, SlotsAre DEF Candidates, Undecided
    <3> QED
      BY <3>2 DEF Write, WaitingSlots
  <2>2. entries' \subseteq 0 .. now
    BY <1>0, <1>2 DEF Write, SlotsTypeOK
  <2>3. waiting' \in {Never} \cup 0 .. now /\ looped' = TRUE
    BY <1>0, <1>2 DEF Write, SlotsTypeOK
  <2>4. UNCHANGED <<now, loading, lastFull, changed, skips, since, sending, sends, mailPaused, pauses>>
    BY DEF Write, settingVars, sendVars
  <2>5. \A s \in Slots : /\ ran'[s] \in {Never} \cup DueAt(s)' .. now'
                         /\ decision'[s] \in {"none", "held", "skipped"}
                         /\ decision'[s] # "none" => DueAt(s)' <= now'
    BY <1>3, <1>4, <1>7, <1>10
  <2> QED
    BY <1>0, <2>1, <2>2, <2>3, <2>4, <2>5 DEF SlotsTypeOK
<1>12. CatchUpOK'
  <2>1. CatchUp \in Slots /\ CatchUp \notin Listed
    BY <1>6, SlotsAre
  <2>2. ~ pass'.catchUp
    BY <1>3 DEF NoPass
  <2> QED
    BY <1>0, <1>3, <1>4, <1>5, <2>1, <2>2 DEF CatchUpOK
<1>13. SkippedNeverRan'
  BY <1>4 DEF SkippedNeverRan
<1>14. DroppedWereDue'
  <2> SUFFICES ASSUME NEW s \in Slots \ {CatchUp}, decision'[s] = "held"
               PROVE  /\ changed = Never => s \in OldSlots
                      /\ changed # Never /\ s \notin NewSlots => s <= changed
    BY <1>3 DEF DroppedWereDue
  <2>1. CASE s \in Listed
    BY <2>1 DEF Listed, CurrentSlots
  <2>2. CASE s \notin Listed
    BY <1>0, <1>4, <2>2 DEF DroppedWereDue
  <2> QED
    BY <2>1, <2>2
<1>15. loading' = loading
  BY DEF Write
<1> QED
  BY <1>9, <1>11, <1>12, <1>13, <1>14, <1>15 DEF SlotsInv

\* A read finds the catch-up due only after the schedule changed.
LEMMA ReadKeeps ==
  ASSUME SlotsInv, Read
  PROVE  SlotsInv'
<1>1. UNCHANGED <<now, ran, decision, entries, waiting, loading, lastFull, changed, skips,
                  since, sending, sends, mailPaused, pauses>>
  BY DEF Read, loadVars, settingVars, sendVars
<1>2. PICK w : \/ pass' = pass /\ logged' = {} /\ looped' = TRUE
               \/ pass' = Reading(w) /\ UNCHANGED <<logged, looped>>
  BY DEF Read
<1>3. SlotsTypeOK'
  BY <1>1, <1>2 DEF SlotsInv, SlotsTypeOK, DueAt
<1>4. changed = Never => ~ pass'.catchUp
  BY <1>2 DEF SlotsInv, CatchUpOK, Reading, CatchUpDue
<1> QED
  BY <1>1, <1>3, <1>4, SlotsAlone

\* The change of schedule gives the catch-up its due time, and every slot held
\* so far had fallen due.
LEMMA ChangeKeeps ==
  ASSUME SlotsInv, ChangeSchedule
  PROVE  SlotsInv'
<1>0. SlotsTypeOK /\ CatchUpOK /\ SkippedNeverRan /\ DroppedWereDue
  BY DEF SlotsInv
<1>1. /\ changed = Never /\ changed' = now /\ now \in Nat
      /\ UNCHANGED <<now, ran, decision, entries, logged, pass, looped, waiting, loading,
                     lastFull, skips, since, sending, sends, mailPaused, pauses>>
  BY <1>0, ListedAre DEF ChangeSchedule, slotVars, loadVars, sendVars
<1>2. /\ ran[CatchUp] = Never /\ decision[CatchUp] = "none"
      /\ \A s \in Slots : s # CatchUp => DueAt(s)' = DueAt(s) /\ DueAt(s) = s
  BY <1>0, <1>1 DEF CatchUpOK, DueAt
<1>3. SlotsTypeOK'
  <2>1. \A s \in Slots : /\ ran'[s] \in {Never} \cup DueAt(s)' .. now'
                         /\ decision'[s] \in {"none", "held", "skipped"}
                         /\ decision'[s] # "none" => DueAt(s)' <= now'
    BY <1>0, <1>1, <1>2 DEF SlotsTypeOK
  <2> QED
    BY <1>0, <1>1, <2>1 DEF SlotsTypeOK
<1>4. CatchUpOK' /\ SkippedNeverRan'
  BY <1>0, <1>1, <1>2 DEF CatchUpOK, SkippedNeverRan, Never
<1>5. DroppedWereDue'
  BY <1>0, <1>1, <1>2 DEF DroppedWereDue, SlotsTypeOK
<1> QED
  BY <1>1, <1>3, <1>4, <1>5 DEF SlotsInv

\* Restarts, the source worker, sends, pauses and time decide nothing.
LEMMA OtherSlotStepsKeep ==
  ASSUME SlotsInv,
         \/ RestartScheduler \/ StartLoad \/ PromoteLoad \/ SwitchSkips \/ Send \/ PauseMail \/ SlotTick
         \/ Finished \/ UNCHANGED refreshVars
  PROVE  SlotsInv'
<1>0. SlotsTypeOK /\ CatchUpOK /\ now \in Nat
  BY ListedAre DEF SlotsInv
<1> USE DEF slotVars, loadVars, settingVars, sendVars
<1>1. UNCHANGED <<ran, decision, changed>>
  BY DEF RestartScheduler, StartLoad, PromoteLoad, SwitchSkips, Send, PauseMail, SlotTick, Finished, refreshVars
<1>2. pass' = pass \/ pass' = NoPass
  BY DEF RestartScheduler, StartLoad, PromoteLoad, SwitchSkips, Send, PauseMail, SlotTick, Finished, refreshVars
<1>3. changed = Never => ~ pass'.catchUp
  BY <1>0, <1>2 DEF CatchUpOK, NoPass
<1>4. \A s : DueAt(s)' = DueAt(s)
  BY <1>1 DEF DueAt
<1>5. SlotsTypeOK'
  <2>1. CASE RestartScheduler
    BY <1>0, <1>4, <2>1 DEF SlotsTypeOK, RestartScheduler
  <2>2. CASE StartLoad
    <3>1. /\ loading' = [start |-> now, asked |-> waiting] /\ waiting' = Never
          /\ UNCHANGED <<now, ran, decision, entries, logged, pass, looped, lastFull, changed,
                         skips, since, sending, sends, mailPaused, pauses>>
      BY <2>2 DEF StartLoad
    <3>2. loading' \in [start : {Never} \cup 0 .. now, asked : {Never} \cup 0 .. now]
      BY <1>0, <3>1 DEF SlotsTypeOK
    <3> QED
      BY <1>0, <1>4, <3>1, <3>2 DEF SlotsTypeOK
  <2>3. CASE PromoteLoad
    <3>1. /\ lastFull' = loading.start /\ loading' = NotLoading /\ loading # NotLoading
          /\ UNCHANGED <<now, ran, decision, entries, logged, pass, looped, waiting, changed,
                         skips, since, sending, sends, mailPaused, pauses>>
      BY <2>3 DEF PromoteLoad
    <3>2. lastFull' \in 0 .. now
      BY <1>0, <3>1 DEF SlotsTypeOK, SlotsInv
    <3>3. loading' \in [start : {Never} \cup 0 .. now, asked : {Never} \cup 0 .. now]
      BY <3>1 DEF NotLoading
    <3> QED
      BY <1>0, <1>4, <3>1, <3>2, <3>3 DEF SlotsTypeOK
  <2>4. CASE SwitchSkips
    BY <1>0, <1>4, <2>4 DEF SlotsTypeOK, SwitchSkips
  <2>5. CASE Send
    <3>1. sending' \in BOOLEAN /\ sends' \in 0 .. MaxSends
      <4>1. MaxSends \in Nat /\ sends \in 0 .. MaxSends
        BY <1>0, SlotBounds DEF SlotsTypeOK
      <4>2. CASE sends < MaxSends /\ sending' = TRUE /\ sends' = sends + 1
        BY <4>1, <4>2
      <4>3. CASE sending' = FALSE /\ sends' = sends
        BY <4>1, <4>3
      <4> QED
        BY <2>5, <4>2, <4>3 DEF Send
    <3>2. UNCHANGED <<now, ran, decision, entries, logged, pass, looped, waiting, loading,
                      lastFull, changed, skips, since, mailPaused, pauses>>
      BY <2>5 DEF Send
    <3> QED
      BY <1>0, <1>4, <3>1, <3>2 DEF SlotsTypeOK
  <2>6. CASE PauseMail
    BY <1>0, <1>4, <2>6, SlotBounds DEF SlotsTypeOK, PauseMail
  <2>7. CASE SlotTick
    <3>1. /\ now' = now + 1 /\ now < MaxTime /\ looped' = FALSE
          /\ UNCHANGED <<ran, decision, entries, logged, pass, waiting, loading, lastFull,
                         changed, skips, since, sending, sends, mailPaused, pauses>>
      BY <2>7 DEF SlotTick
    <3>2. now' \in Times /\ 0 .. now \subseteq 0 .. now'
      BY <1>0, <3>1, SlotsAre DEF Times
    <3>3. loading' \in [start : {Never} \cup 0 .. now', asked : {Never} \cup 0 .. now']
      BY <1>0, <3>1, <3>2 DEF SlotsTypeOK
    <3>4. \A s \in Slots : /\ ran'[s] \in {Never} \cup DueAt(s)' .. now'
                           /\ decision'[s] \in {"none", "held", "skipped"}
                           /\ decision'[s] # "none" => DueAt(s)' <= now'
      <4> TAKE s \in Slots
      <4>1. DueAt(s) \in Int
        BY <1>0, SlotsAre DEF DueAt, SlotsTypeOK, Never
      <4> QED
        BY <1>0, <1>4, <3>1, <4>1 DEF SlotsTypeOK
    <3>5. /\ lastFull' \in 0 .. now' /\ changed' \in {Never} \cup 0 .. now'
          /\ entries' \subseteq 0 .. now' /\ waiting' \in {Never} \cup 0 .. now'
          /\ since' \in 0 .. now'
      BY <1>0, <3>1, <3>2 DEF SlotsTypeOK
    <3> QED
      BY <1>0, <3>1, <3>2, <3>3, <3>4, <3>5 DEF SlotsTypeOK
  <2>8. CASE Finished \/ UNCHANGED refreshVars
    BY <1>0, <1>4, <2>8 DEF SlotsTypeOK, Finished, refreshVars
  <2> QED
    BY <2>1, <2>2, <2>3, <2>4, <2>5, <2>6, <2>7, <2>8
<1>6. loading' = loading \/ loading' = NotLoading \/ loading'.start # Never
  <2>1. CASE StartLoad
    BY <1>0, <2>1 DEF StartLoad, Never
  <2> QED
    BY <2>1 DEF RestartScheduler, StartLoad, PromoteLoad, SwitchSkips, Send, PauseMail, SlotTick, Finished,
                refreshVars
<1> QED
  BY <1>1, <1>3, <1>5, <1>6, SlotsAlone

\* SlotsInv is inductive.
LEMMA SlotsStep ==
  ASSUME SlotsInv, [SlotsNext]_refreshVars
  PROVE  SlotsInv'
  BY ReadKeeps, WriteKeeps, ChangeKeeps, OtherSlotStepsKeep, Zenon DEF SlotsNext

-----------------------------------------------------------------------------
(* The shortcut and the alarm.                                             *)

\* With the latest slot and the catch-up ticked, and nothing to decide, a pass
\* creates and decides nothing.
LEMMA ShortcutMisses ==
  ASSUME SlotsInv, NEW w \in SUBSET {s \in Listed : WaitsForSend(s)}, IdlePass(Reading(w))
  PROVE  RanAfter(Reading(w)) = ran /\ DecisionAfter(Reading(w)) = decision
<1> DEFINE p == Reading(w)
<1>0. /\ ran \in [Slots -> Int] /\ decision \in [Slots -> {"none", "held", "skipped"}]
      /\ SkippedNeverRan
  BY DEF SlotsInv
<1>1. p.skips = skips /\ p.paused = mailPaused
  BY DEF Reading
<1>2. /\ \A s \in LatestSlot \cup (IF p.catchUp THEN {CatchUp} ELSE {}) : ran[s] # Never
      /\ skips => ~ MayDecide(p)
  BY DEF IdlePass
<1> HIDE DEF p
<1>3. Deciding(p) => \A s \in Undecided(p) : s \notin p.windows /\ ~ p.held
  BY <1>1, <1>2 DEF Deciding, MayDecide
<1>4. \A s \in Slots : Decided(p)[s] = decision[s]
  BY <1>3 DEF Decided
<1>5. \A s \in LatestSlot : s \in Slots
  BY ListedAre DEF SlotsInv
<1>6. Extra(p) = {}
  BY <1>0, <1>2, <1>4, <1>5 DEF Extra, SkippedNeverRan
<1>7. Eligible(p) = {}
  BY <1>2, <1>6 DEF Eligible, Candidates
<1>8. Created(p) = {} /\ Held(p) = {}
  BY <1>7 DEF Created, Held
<1>9. RanAfter(p) = ran
  BY <1>0, <1>8 DEF RanAfter
<1>10. DecisionAfter(p) = decision
  BY <1>0, <1>4, <1>8 DEF DecisionAfter
<1> QED
  BY <1>9, <1>10 DEF p

\* The overdue slot is a slot that fell due.
LEMMA OverdueIs ==
  ASSUME SlotsInv, Overdue # Never
  PROVE  /\ Overdue \in Slots /\ Overdue \in Nat /\ Overdue <= now /\ lastFull < Overdue
         /\ decision[Overdue] # "skipped"
<1> DEFINE due == CountedSlots(lastFull, now)
<1>1. \A s \in due : /\ s \in Slots /\ s \in Nat /\ s <= now /\ lastFull < s
                     /\ decision[s] # "skipped"
  BY SlotsAre DEF CountedSlots, Skipped
<1>2. due # {} /\ Overdue = Min(due)
  BY DEF Overdue
<1> HIDE DEF due
<1>3. due \in SUBSET Nat
  BY <1>1
<1>4. Overdue \in due
  BY <1>2, <1>3, MinIs
<1> QED
  BY <1>1, <1>4

\* A request at the overdue instant rules out both grounds of the allowance.
LEMMA HungIsHeard ==
  ASSUME SlotsInv
  PROVE  HungAlarms
<1> SUFFICES ASSUME Overdue # Never, now - Overdue >= Margin, ran[Overdue] = Overdue,
                    Overdue \notin entries,
                    \A s \in Slots : decision[s] # "none" => DueAt(s) # Overdue,
                    AllowanceApplies(Overdue)
             PROVE  FALSE
  BY DEF HungAlarms, Alarm
<1>1. PICK o : o = Overdue
  OBVIOUS
<1>2. o \in Slots /\ o \in Nat /\ ran[o] = o /\ o \notin entries
  BY <1>1, OverdueIs
<1>3. \A t \in Int : o < t => Requested(o, t)
  BY <1>2 DEF Requested
<1>4. o < ResumeAt(o) /\ ResumeAt(o) \in Int
  BY <1>2, SlotBounds DEF ResumeAt
<1>5. ~ RefreshesSkipped(o)
  BY <1>3, <1>4 DEF RefreshesSkipped
<1>6. ~ CatchUpHeld(o)
  <2>1. \A t \in entries : t \in Nat
    BY DEF SlotsInv, SlotsTypeOK
  <2>2. ASSUME NEW t \in entries, t >= o
        PROVE  Requested(o, t)
    BY <1>2, <1>3, <2>1, <2>2
  <2>3. ASSUME NEW s \in Slots, decision[s] = "held", DueAt(s) >= o
        PROVE  Requested(o, DueAt(s))
    <3>1. DueAt(s) \in Int
      BY SlotsAre DEF DueAt, SlotsInv, SlotsTypeOK, Never
    <3> QED
      BY <1>1, <1>2, <1>3, <2>3, <3>1
  <2> QED
    BY <2>2, <2>3 DEF CatchUpHeld
<1> QED
  BY <1>1, <1>5, <1>6 DEF AllowanceApplies

\* SlotsSafe holds in every state: the rows of slots, ticks and decisions are
\* what their columns admit; the producer's idle shortcut (_ticked,
\* _may_decide in source/production.py) skips no pass that would have changed
\* a row; and a refresh that was requested when due and hangs sounds the
\* data-age alarm (source/data_age.py), whatever send holds a later one.
THEOREM SlotsAreSafe == SlotsSpec => []SlotsSafe
<1>1. SlotsInit => SlotsInv
  BY SlotsStart
<1>2. SlotsInv /\ [SlotsNext]_refreshVars => SlotsInv'
  BY SlotsStep
<1>3. SlotsInv => SlotsSafe
  BY ShortcutMisses, HungIsHeard DEF SlotsSafe, SlotsInv, ShortcutAgrees
<1> QED
  BY <1>1, <1>2, <1>3, PTL DEF SlotsSpec

-----------------------------------------------------------------------------
(* Decisions are kept, and held slots made up for.                         *)

\* A held slot: the pass creates the latest slot, or the newest held one in its
\* place when the latest is skipped, or the catch-up when the new schedule
\* dropped the slot; otherwise one of them already ran.
LEMMA HeldIsMadeUp ==
  ASSUME SlotsInv, Write, ~ pass.held, SettledPass(pass), skips,
         NEW s \in Slots \ {CatchUp}, decision'[s] = "held"
  PROVE  CaughtUp(s)'
<1>0. SlotsTypeOK /\ CatchUpOK /\ SkippedNeverRan /\ DroppedWereDue
  BY DEF SlotsInv
<1>1. /\ ran' = RanAfter(pass) /\ decision' = DecisionAfter(pass)
      /\ lastFull' = lastFull /\ changed' = changed /\ now \in Nat
  BY <1>0, ListedAre DEF Write, settingVars
<1>2. pass.catchUp => changed # Never
  BY <1>0 DEF CatchUpOK
<1>3. decision[s] = "held"
  BY <1>1, <1>2, PassIs
<1>4. s \in Nat /\ DueAt(s) = s /\ DueAt(s)' = s /\ s <= now
  BY <1>0, <1>1, <1>3, SlotsAre DEF DueAt, SlotsTypeOK
<1>5. ASSUME NEW t \in Slots, ran[t] # Never, s <= ran[t]
      PROVE  CaughtUp(s)'
  <2>1. t \notin Created(pass)
    BY <1>2, <1>5, CreatedAre
  <2>2. ran'[t] = ran[t]
    BY <1>1, <1>2, <2>1, PassIs
  <2>3. ran[t] \in Int
    BY DEF SlotsInv
  <2> QED
    BY <1>4, <1>5, <2>2, <2>3 DEF CaughtUp
<1>6. ASSUME NEW t \in Created(pass)
      PROVE  CaughtUp(s)'
  <2>1. t \in Slots
    BY <1>2, CreatedAre
  <2>2. ran'[t] = now
    BY <1>1, <1>2, <2>1, PassIs
  <2> QED
    BY <1>1, <1>4, <2>1, <2>2 DEF CaughtUp
<1>7. \A t \in Slots : ran[t] # Never => ran[t] >= DueAt(t) /\ ran[t] \in Int
  BY <1>0 DEF SlotsTypeOK, SlotsInv
<1>8. \A t \in Candidates(pass) :
          ran[t] = Never /\ Decided(pass)[t] # "skipped" => t \in Created(pass)
  BY DEF Created, Eligible, Held
<1>9. Deciding(pass)
  BY DEF Deciding, SettledPass
<1>10. CASE s \in Listed
  <2>1. \A q \in Listed : /\ q \in Slots /\ q \in Nat /\ q <= now /\ DueAt(q) = q
    BY <1>0, ListedAre
  <2>2. PICK l \in LatestSlot : \A q \in Listed : q <= l
    BY <1>0, <1>10, ListedAre
  <2>3. l \in Listed /\ l \in Nat /\ s <= l /\ l \in Candidates(pass)
    BY <1>0, <1>10, <2>1, <2>2, ListedAre DEF Candidates
  <2>4. CASE ran[l] # Never
    BY <1>4, <1>5, <1>7, <2>1, <2>3, <2>4
  <2>5. CASE ran[l] = Never /\ Decided(pass)[l] # "skipped"
    BY <1>6, <1>8, <2>3, <2>5
  <2>6. CASE Decided(pass)[l] = "skipped" /\ ran[s] = Never
    <3> DEFINE open == {c \in Listed : Decided(pass)[c] = "held" /\ ran[c] = Never}
    <3>1. Decided(pass)[s] = "held"
      BY <1>3, DecidedIs
    <3>2. s \in open /\ open \subseteq 0 .. now
      BY <1>10, <2>1, <2>6, <3>1
    <3>3. PICK c \in open : \A d \in open : d <= c
      BY <1>1, <3>2, MaxIs
    <3>4. /\ c \in Listed /\ Decided(pass)[c] = "held" /\ ran[c] = Never /\ s <= c
          /\ c \in Nat
      BY <2>1, <3>2, <3>3
    <3>5. c < l
      <4>1. c # l
        BY <2>6, <3>4
      <4> QED
        BY <2>2, <2>3, <3>4, <4>1
    <3>6. CASE \A d \in Listed : ran[d] # Never => d <= c
      <4>1. c \in Extra(pass)
        BY <1>9, <2>2, <2>6, <3>3, <3>4, <3>5, <3>6 DEF Extra
      <4>2. c \in Created(pass)
        BY <1>8, <3>4, <4>1 DEF Candidates
      <4> QED
        BY <1>6, <4>2
    <3>7. CASE \E d \in Listed : ran[d] # Never /\ ~ (d <= c)
      <4>1. PICK d \in Listed : ran[d] # Never /\ ~ (d <= c)
        BY <3>7
      <4>2. s <= ran[d]
        BY <1>4, <1>7, <2>1, <3>4, <4>1
      <4> QED
        BY <1>5, <2>1, <4>1, <4>2
    <3> QED
      BY <3>6, <3>7
  <2>7. CASE ran[s] # Never
    BY <1>4, <1>5, <1>7, <2>7
  <2> QED
    BY <2>4, <2>5, <2>6, <2>7
<1>11. CASE s \notin Listed
  <2>1. changed # Never /\ s \in OldSlots /\ s \notin NewSlots
    BY <1>0, <1>3, <1>4, <1>11 DEF DroppedWereDue, Listed, CurrentSlots, Slots
  <2>2. s <= changed /\ changed \in Nat /\ lastFull \in Nat
    BY <1>0, <1>3, <2>1 DEF DroppedWereDue, SlotsTypeOK, Never
  <2>3. CASE lastFull >= s
    BY <1>1, <1>4, <2>3 DEF CaughtUp
  <2>4. CASE lastFull < s
    <3>1. CatchUpDue
      BY <1>3, <1>4, <2>1, <2>2, <2>4 DEF CatchUpDue, Skipped
    <3>2. CatchUp \in Candidates(pass)
      BY <3>1 DEF SettledPass, Candidates
    <3>3. Decided(pass)[CatchUp] # "skipped"
      <4>1. CatchUp \in Slots /\ CatchUp \notin Listed
        BY <1>0, SlotsAre, ListedAre
      <4>2. Decided(pass)[CatchUp] = decision[CatchUp]
        BY <4>1, DecidedIs
      <4> QED
        BY <1>0, <4>2 DEF CatchUpOK
    <3>4. CASE ran[CatchUp] = Never
      BY <1>6, <1>8, <3>2, <3>3, <3>4
    <3>5. CASE ran[CatchUp] # Never
      <4>1. CatchUp \in Slots /\ DueAt(CatchUp) = changed
        BY SlotsAre DEF DueAt
      <4>2. s <= ran[CatchUp]
        BY <1>4, <1>7, <2>2, <3>5, <4>1
      <4> QED
        BY <1>5, <3>5, <4>1, <4>2
    <3> QED
      BY <3>4, <3>5
  <2> QED
    BY <1>4, <2>2, <2>3, <2>4
<1> QED
  BY <1>10, <1>11

\* SlotsKept holds of every step: a slot's decision is made once, a slot
\* recorded as skipped never runs, and once a pass reads that no send holds
\* refreshes, every slot that was held has had a refresh requested since it
\* fell due (_decide and _undecided in source/production.py).
THEOREM SlotsAreKept == SlotsSpec => SlotsKept
<1>1. ASSUME SlotsInv, [SlotsNext]_refreshVars, NEW s \in Slots
      PROVE  /\ decision[s] # "none" => decision'[s] = decision[s]
             /\ decision'[s] = "skipped" => ran'[s] = Never
  <2>1. CASE Write
    <3>1. pass.catchUp => changed # Never
      BY <1>1 DEF SlotsInv, CatchUpOK
    <3> QED
      BY <1>1, <2>1, <3>1, PassIs DEF Write
  <2>2. CASE ~ Write
    <3>1. ran' = ran /\ decision' = decision
      BY <1>1, <2>2 DEF SlotsNext, Read, RestartScheduler, StartLoad, PromoteLoad, ChangeSchedule,
                        SwitchSkips, Send, PauseMail, SlotTick, Finished, refreshVars, slotVars
    <3> QED
      BY <1>1, <3>1 DEF SlotsInv, SkippedNeverRan
  <2> QED
    BY <2>1, <2>2
<1>2. SlotsInv /\ [SlotsNext]_refreshVars =>
         [\A s \in Slots : /\ decision[s] # "none" => decision'[s] = decision[s]
                           /\ decision'[s] = "skipped" => ran'[s] = Never]_refreshVars
  BY <1>1
<1>3. SlotsInv /\ [SlotsNext]_refreshVars =>
         [Write /\ ~pass.held /\ SettledPass(pass) /\ skips =>
             \A s \in Slots \ {CatchUp} : decision'[s] = "held" => CaughtUp(s)']_refreshVars
  BY HeldIsMadeUp
<1>4. SlotsInit => SlotsInv
  BY SlotsStart
<1>5. SlotsInv /\ [SlotsNext]_refreshVars => SlotsInv'
  BY SlotsStep
<1> QED
  BY <1>2, <1>3, <1>4, <1>5, PTL DEF SlotsSpec, SlotsKept, DecisionsKept, HeldCaughtUp

=============================================================================
