---------------------------- MODULE GoLiveProofs ----------------------------
(***************************************************************************)
(* Proofs about one go-live request, for any number of rows, Families,     *)
(* claims, preparations, attempts and source generations.                  *)
(*                                                                         *)
(* The safety properties speak of single columns; what carries them is     *)
(* what the rows say together: a ready generation is complete and its task *)
(* has ended (RowOK), so that no worker can scrub it after it is           *)
(* confirmed; and a recorded stop already left every unsealed link to a    *)
(* discard, before the cleanup worker notices it (LinksInv), so that the   *)
(* request may be cancelled in any later transaction.                      *)
(***************************************************************************)
EXTENDS GoLive, FiniteSetTheorems, SequenceTheorems, TLAPS

-----------------------------------------------------------------------------
(* The inductive invariant.                                                *)

\* A task that waits has a claim left.
HasClaim(task) == task.state = "waiting" => task.tries < MaxTries

\* One preparation: what its generation says of its links and of its tasks.
RowOK(p) ==
    /\ p \in PreparationRows
    /\ HasClaim(p.task) /\ HasClaim(p.discard)
    /\ p.staging = "none" => p.sealed = 0
    /\ p.staging = "building" => p.sealed < Families
    /\ p.staging \in {"ready", "active"} =>
           p.sealed = Families /\ p.task.state = "succeeded"
    /\ p.staging = "active" => ~Discarded(p)

MadeBy(n) == {i \in DOMAIN links : links[i].attempt = n}

LinksInv ==
    /\ links \in Seq(PreparationRows)
    /\ reviewed \in 0..Len(links)
    /\ \A i \in DOMAIN links : RowOK(links[i])
    /\ \A i, j \in DOMAIN links : Live(links[i]) /\ Live(links[j]) => i = j
    /\ \A n \in 1..MaxAttempts : Cardinality(MadeBy(n)) <= MaxPreparations
    /\ stop => \A i \in DOMAIN links : Disposed(links[i]) \/ Discarded(links[i])
    /\ (\E i \in DOMAIN links : links[i].staging = "active") => request = "activated"
    /\ request = "activated" => \E i \in DOMAIN links : links[i].staging = "active"
    /\ \A i \in DOMAIN links :
           links[i].staging = "active" => links[i].inputs = generation

\* A request is cancelled by a stop only, and never once it is activated.
CleanupInv ==
    /\ request \in OpenCleanup \cup {"activated", "cancelled"}
    /\ stop \in BOOLEAN /\ left \in 0..TestRows
    /\ cleaner \in [state : TaskStates, tries : 0..MaxTries, bound : BOOLEAN]
    /\ HasClaim(cleaner)
    /\ request = "activated" => ~stop
    /\ request = "cancelled" => stop /\ cleaner.state \notin Nonterminal

WorldInv ==
    /\ generation \in 1..MaxGeneration
    /\ attempt \in [number : 1..MaxAttempts, refresh : {"active", "done", "failed"},
                    held : BOOLEAN]
    /\ authority \in BOOLEAN /\ retries \in 0..MaxRetries

GoLiveInv == LinksInv /\ CleanupInv /\ WorldInv

-----------------------------------------------------------------------------
(* What a transaction may do to one preparation.                           *)

\* A step of the workers, of their recovery or of a discard.
Follows(p, q) ==
    /\ RowOK(q)
    /\ q.attempt = p.attempt /\ q.inputs = p.inputs
    /\ Disposed(p) \/ Discarded(p) => Disposed(q) \/ Discarded(q)
    /\ q.staging = "active" => p.staging = "active"
    /\ p.staging = "active" => q.staging = "active"

LEMMA FailedTask ==
  ASSUME NEW task \in Tasks, task.state \in {"running", "abandoned"}
  PROVE  /\ Failed(task) \in Tasks /\ HasClaim(Failed(task))
         /\ Failed(task).state \in {"failed", "waiting"}
  BY GoLiveBounds DEF Tasks, Failed, HasClaim, TaskStates, Nonterminal

LEMMA ClaimedTask ==
  ASSUME NEW task \in Tasks, HasClaim(task), task.state = "waiting"
  PROVE  /\ Claimed(task) \in Tasks /\ HasClaim(Claimed(task))
         /\ Claimed(task).state = "running"
  BY GoLiveBounds DEF Tasks, Claimed, HasClaim, TaskStates, Nonterminal

LEMMA NewTaskOK == NewTask \in Tasks /\ HasClaim(NewTask) /\ NewTask.state = "waiting"
  BY GoLiveBounds DEF Tasks, NewTask, HasClaim, TaskStates, Nonterminal

\* A change of the preparation task only, on a row whose links are not live.
LEMMA TaskChanges ==
  ASSUME NEW p, RowOK(p), NEW t \in Tasks, HasClaim(t),
         p.staging \in {"ready", "active"} => t.state = "succeeded",
         NEW q, q = [p EXCEPT !.task = t]
  PROVE  Follows(p, q) /\ (Live(q) => Live(p) \/ t.state \in Nonterminal)
<1>1. /\ q \in PreparationRows /\ q.task = t /\ q.discard = p.discard
      /\ q.staging = p.staging /\ q.sealed = p.sealed
      /\ q.attempt = p.attempt /\ q.inputs = p.inputs
  BY DEF RowOK, PreparationRows
<1> QED
  BY <1>1 DEF Follows, RowOK, Live, Disposed, Discarded

\* A change of the discard task only, on a row whose links are not live.
LEMMA DiscardChanges ==
  ASSUME NEW p, RowOK(p), NEW t \in Tasks, HasClaim(t), p.staging # "active",
         NEW q, q = [p EXCEPT !.discard = t]
  PROVE  Follows(p, q) /\ (Live(q) => Live(p)) /\ Discarded(q)
<1>1. /\ q \in PreparationRows /\ q.task = p.task /\ q.discard = t
      /\ q.staging = p.staging /\ q.sealed = p.sealed
      /\ q.attempt = p.attempt /\ q.inputs = p.inputs
  BY DEF RowOK, PreparationRows
<1>2. t.state # "none"
  BY DEF Tasks, TaskStates, Nonterminal
<1> QED
  BY <1>1, <1>2 DEF Follows, RowOK, Live, Disposed, Discarded

\* scrub_batch only takes links away.
LEMMA ScrubFollows ==
  ASSUME NEW p, RowOK(p), p.staging # "active",
         p.task.state \notin {"succeeded"} \/ Discarded(p)
  PROVE  /\ Follows(p, Scrubbed(p)) /\ (Live(Scrubbed(p)) => Live(p))
         /\ Scrubbed(p).task = p.task /\ Scrubbed(p).discard = p.discard
         /\ Scrubbed(p).staging \in {"none", "cancelled"}
<1>1. CASE p.staging = "none"
  BY <1>1 DEF Scrubbed, Follows
<1>2. CASE p.staging # "none"
  <2> DEFINE n == IF p.sealed = 0 THEN 0 ELSE p.sealed - 1
             q == [p EXCEPT !.staging = "cancelled", !.sealed = n]
  <2>1. Scrubbed(p) = q
    BY <1>2 DEF Scrubbed, RowOK, PreparationRows
  <2>0. n \in 0..Families /\ p \in PreparationRows
    BY GoLiveBounds DEF RowOK, PreparationRows
  <2>2. /\ q \in PreparationRows /\ q.task = p.task /\ q.discard = p.discard
        /\ q.staging = "cancelled"
        /\ q.sealed = IF p.sealed = 0 THEN 0 ELSE p.sealed - 1
        /\ q.attempt = p.attempt /\ q.inputs = p.inputs
    BY <2>0 DEF PreparationRows
  <2>3. p.sealed \in 0..Families /\ Families \in Nat
    BY GoLiveBounds DEF RowOK, PreparationRows
  <2> HIDE DEF q
  <2> QED
    BY <1>2, <2>1, <2>2, <2>3 DEF Follows, RowOK, Live, Disposed, Discarded
<1> QED
  BY <1>1, <1>2

\* A step after a step.
LEMMA FollowsChain ==
  ASSUME NEW p, NEW s, NEW q, Follows(p, s), Follows(s, q)
  PROVE  Follows(p, q)
  BY DEF Follows

\* prepare_batch: the links are complete exactly when the row is ready.
LEMMA SealFollows ==
  ASSUME NEW p, RowOK(p), p.staging \in {"none", "building"},
         ~Discarded(p)
  PROVE  /\ RowOK(Sealed(p)) /\ Sealed(p).attempt = p.attempt
         /\ Sealed(p).inputs = p.inputs /\ Sealed(p).staging # "active"
<1>0. /\ p \in PreparationRows /\ p.sealed \in Nat /\ p.sealed < Families
      /\ Families \in Nat
  BY GoLiveBounds DEF RowOK, PreparationRows
<1>1. CASE p.sealed + 1 = Families
  <2> DEFINE t == [p.task EXCEPT !.state = "succeeded"]
             q == [p EXCEPT !.staging = "ready", !.sealed = Families, !.task = t]
  <2>0. p.task \in Tasks /\ t \in Tasks /\ t.state = "succeeded"
    BY <1>0 DEF PreparationRows, Tasks, TaskStates
  <2>1. Sealed(p) = q
    BY <1>0, <1>1, <2>0 DEF Sealed, PreparationRows
  <2>a. Families \in 0..Families
    BY <1>0
  <2>2. /\ q \in PreparationRows /\ q.discard = p.discard /\ q.staging = "ready"
        /\ q.sealed = Families /\ q.task.state = "succeeded"
        /\ q.attempt = p.attempt /\ q.inputs = p.inputs
    BY <1>0, <2>0, <2>a DEF PreparationRows
  <2> HIDE DEF q
  <2> QED
    BY <2>1, <2>2 DEF RowOK, HasClaim
<1>2. CASE p.sealed + 1 # Families
  <2> DEFINE q == [p EXCEPT !.staging = "building", !.sealed = p.sealed + 1]
  <2>1. Sealed(p) = q
    BY <1>2 DEF Sealed
  <2>2. /\ q \in PreparationRows /\ q.discard = p.discard
        /\ q.staging = "building" /\ q.task = p.task
        /\ q.sealed = p.sealed + 1 /\ q.sealed < Families
        /\ q.attempt = p.attempt /\ q.inputs = p.inputs
    <3>1. p.sealed + 1 \in 0..Families /\ p.sealed + 1 < Families
      BY <1>0, <1>2
    <3> QED
      BY <1>0, <3>1 DEF PreparationRows
  <2> HIDE DEF q
  <2> QED
    BY <2>1, <2>2 DEF RowOK
<1> QED
  BY <1>1, <1>2

-----------------------------------------------------------------------------
(* The rows together.                                                      *)

LEMMA RowsAre ==
  ASSUME LinksInv
  PROVE  /\ Len(links) \in Nat /\ DOMAIN links = 1..Len(links)
         /\ \A i \in DOMAIN links : links[i] \in PreparationRows
  BY LenProperties DEF LinksInv

\* Rows that change in place, each as its own rules allow, with at most one
\* live afterwards.
LEMMA RowsMove ==
  ASSUME LinksInv, links' \in Seq(PreparationRows), DOMAIN links' = DOMAIN links,
         Len(links') = Len(links), UNCHANGED <<request, generation, reviewed>>,
         \A i \in DOMAIN links :
             /\ RowOK(links'[i])
             /\ links'[i].attempt = links[i].attempt
             /\ links'[i].inputs = links[i].inputs
             /\ links'[i].staging = "active" => links[i].staging = "active"
             /\ links[i].staging = "active" => links'[i].staging = "active",
         stop' => \A i \in DOMAIN links : Disposed(links'[i]) \/ Discarded(links'[i]),
         \A i, j \in DOMAIN links : Live(links'[i]) /\ Live(links'[j]) => i = j
  PROVE  LinksInv'
<1>1. ASSUME NEW n \in 1..MaxAttempts
      PROVE  Cardinality(MadeBy(n))' <= MaxPreparations
  <2>1. MadeBy(n)' = MadeBy(n)
    BY DEF MadeBy
  <2> QED
    BY <2>1 DEF LinksInv
<1>2. /\ links' \in Seq(PreparationRows)
      /\ reviewed' \in 0..Len(links')
      /\ \A i \in DOMAIN links' : RowOK(links'[i])
      /\ \A i, j \in DOMAIN links' : Live(links'[i]) /\ Live(links'[j]) => i = j
      /\ stop' => \A i \in DOMAIN links' : Disposed(links'[i]) \/ Discarded(links'[i])
  BY DEF LinksInv
<1>3. (\E i \in DOMAIN links' : links'[i].staging = "active") => request' = "activated"
  BY DEF LinksInv
<1>4. request' = "activated" => \E i \in DOMAIN links' : links'[i].staging = "active"
  BY DEF LinksInv
<1>5. \A i \in DOMAIN links' :
          links'[i].staging = "active" => links'[i].inputs = generation'
  BY DEF LinksInv
<1> QED
  BY <1>1, <1>2, <1>3, <1>4, <1>5 DEF LinksInv

LEMMA SetRow ==
  ASSUME LinksInv, NEW i \in DOMAIN links, NEW q \in PreparationRows, Set(i, q)
  PROVE  /\ links' \in Seq(PreparationRows)
         /\ DOMAIN links' = DOMAIN links /\ Len(links') = Len(links)
         /\ links'[i] = q
         /\ \A j \in DOMAIN links : j # i => links'[j] = links[j]
<1>1. links' = [links EXCEPT ![i] = q] /\ i \in 1..Len(links)
      /\ DOMAIN links = 1..Len(links)
  BY RowsAre DEF Set
<1>2. links \in Seq(PreparationRows)
  BY DEF LinksInv
<1>3. /\ links' \in Seq(PreparationRows) /\ Len(links') = Len(links)
  BY <1>1, <1>2, ExceptSeq
<1> QED
  BY <1>1, <1>2, <1>3, LenProperties

\* One row changes in place.
LEMMA SetMoves ==
  ASSUME LinksInv, NEW i \in DOMAIN links, NEW q, Set(i, q),
         UNCHANGED <<request, stop, generation, reviewed>>,
         RowOK(q), q.attempt = links[i].attempt, q.inputs = links[i].inputs,
         q.staging = "active" => links[i].staging = "active",
         links[i].staging = "active" => q.staging = "active",
         stop => Disposed(q) \/ Discarded(q),
         Live(q) => Live(links[i]) \/ \A j \in DOMAIN links \ {i} : ~Live(links[j])
  PROVE  LinksInv'
<1>0. q \in PreparationRows
  BY DEF RowOK
<1>1. /\ links' \in Seq(PreparationRows)
      /\ DOMAIN links' = DOMAIN links /\ Len(links') = Len(links)
      /\ links'[i] = q
      /\ \A j \in DOMAIN links : j # i => links'[j] = links[j]
  BY <1>0, SetRow
<1>2. \A j \in DOMAIN links :
             /\ RowOK(links'[j])
             /\ links'[j].attempt = links[j].attempt
             /\ links'[j].inputs = links[j].inputs
             /\ links'[j].staging = "active" => links[j].staging = "active"
             /\ links[j].staging = "active" => links'[j].staging = "active"
  <2> TAKE j \in DOMAIN links
  <2>1. CASE j = i
    BY <1>1, <2>1
  <2>2. CASE j # i
    BY <1>1, <2>2 DEF LinksInv
  <2> QED
    BY <2>1, <2>2
<1>3. stop' => \A j \in DOMAIN links : Disposed(links'[j]) \/ Discarded(links'[j])
  BY <1>1 DEF LinksInv
<1>4. ASSUME NEW j \in DOMAIN links, NEW k \in DOMAIN links,
             Live(links'[j]), Live(links'[k])
      PROVE  j = k
  BY <1>1, <1>4 DEF LinksInv
<1> QED
  BY <1>1, <1>2, <1>3, <1>4, RowsMove

\* A row that follows from itself.
LEMMA FollowMoves ==
  ASSUME LinksInv, NEW i \in DOMAIN links, NEW q, Set(i, q),
         UNCHANGED <<request, stop, generation, reviewed>>,
         Follows(links[i], q),
         Live(q) => Live(links[i]) \/ \A j \in DOMAIN links \ {i} : ~Live(links[j])
  PROVE  LinksInv'
<1>1. stop => Disposed(q) \/ Discarded(q)
  BY DEF LinksInv, Follows
<1> QED
  BY <1>1, SetMoves DEF Follows

\* request_cancellation for any of the rows, none of them confirmed.
LEMMA DiscardMoves ==
  ASSUME LinksInv, request # "activated", NEW I, links' = Discard(links, I),
         UNCHANGED <<generation, reviewed>>,
         request' # "activated",
         stop' => stop \/ \A i \in DOMAIN links :
                              i \in I \/ Disposed(links[i]) \/ Discarded(links[i])
  PROVE  LinksInv'
<1>0. /\ Len(links) \in Nat /\ DOMAIN links = 1..Len(links)
      /\ \A i \in DOMAIN links : links[i] \in PreparationRows
  BY RowsAre
<1>1. \A i \in DOMAIN links : links[i].staging # "active"
  BY DEF LinksInv
<1>2. /\ DOMAIN links' = DOMAIN links
      /\ \A i \in DOMAIN links : links'[i] =
            IF i \in I THEN [links[i] EXCEPT !.discard = NewTask] ELSE links[i]
  BY DEF Discard
<1>3. ASSUME NEW i \in DOMAIN links
      PROVE  /\ Follows(links[i], links'[i]) /\ (Live(links'[i]) => Live(links[i]))
             /\ (i \in I => Discarded(links'[i]))
             /\ (i \notin I => links'[i] = links[i])
  <2>0. RowOK(links[i])
    BY DEF LinksInv
  <2>1. CASE i \in I
    BY <1>1, <1>2, <2>0, <2>1, DiscardChanges, NewTaskOK
  <2>2. CASE i \notin I
    BY <1>2, <2>0, <2>2 DEF Follows
  <2> QED
    BY <2>1, <2>2
<1>4. links' \in Seq(PreparationRows) /\ Len(links') = Len(links)
  <2>1. \A i \in 1..Len(links) : links'[i] \in PreparationRows
    BY <1>0, <1>3 DEF Follows, RowOK
  <2>2. links' \in [1..Len(links) -> PreparationRows]
    <3>1. links' = [i \in 1..Len(links) |-> links'[i]]
      BY <1>0 DEF Discard
    <3> QED
      BY <2>1, <3>1
  <2>3. links' \in Seq(PreparationRows)
    BY <1>0, <2>2, SeqDef
  <2> QED
    BY <1>0, <1>2, <2>3, LenProperties
<1>5. \A i, j \in DOMAIN links : Live(links'[i]) /\ Live(links'[j]) => i = j
  BY <1>3 DEF LinksInv
<1>6. stop' => \A i \in DOMAIN links : Disposed(links'[i]) \/ Discarded(links'[i])
  BY <1>3 DEF LinksInv, Follows
<1>7. ASSUME NEW n \in 1..MaxAttempts
      PROVE  Cardinality(MadeBy(n))' <= MaxPreparations
  <2>1. MadeBy(n)' = MadeBy(n)
    BY <1>2, <1>3 DEF MadeBy, Follows
  <2> QED
    BY <2>1 DEF LinksInv
<1>8. \A i \in DOMAIN links : links'[i].staging # "active" /\ RowOK(links'[i])
  BY <1>1, <1>3 DEF Follows
<1> QED
  BY <1>2, <1>4, <1>5, <1>6, <1>7, <1>8 DEF LinksInv

-----------------------------------------------------------------------------
(* The cleanup.                                                            *)

\* What the rows need of a step that leaves them alone.
LEMMA LinksStay ==
  ASSUME LinksInv, UNCHANGED <<links, generation, reviewed>>, stop' => stop,
         request' = "activated" <=> request = "activated"
  PROVE  LinksInv'
<1>1. \A n \in 1..MaxAttempts : MadeBy(n)' = MadeBy(n)
  BY DEF MadeBy
<1> QED
  BY <1>1 DEF LinksInv

\* A new value of the cleanup task and of the request, as the types allow.
LEMMA CleanerMoves ==
  ASSUME CleanupInv, NEW s \in TaskStates, NEW n \in 0..MaxTries, NEW b \in BOOLEAN,
         cleaner' = [state |-> s, tries |-> n, bound |-> b],
         s = "waiting" => n < MaxTries,
         request' \in OpenCleanup \cup {"cancelled"},
         request' = "cancelled" => stop /\ s \notin Nonterminal,
         left' \in 0..TestRows, stop' = stop
  PROVE  CleanupInv'
<1>1. /\ cleaner' \in [state : TaskStates, tries : 0..MaxTries, bound : BOOLEAN]
      /\ cleaner'.state = s /\ cleaner'.tries = n
  OBVIOUS
<1> QED
  BY <1>1 DEF CleanupInv, HasClaim, OpenCleanup

LEMMA CleanupStepKeeps ==
  ASSUME CleanupInv,
         \/ ClaimCleanup \/ BindCleanup \/ CleanupBatch \/ AcknowledgeCleanup
         \/ StopCleanup \/ CleanupFails \/ CleanupLapses \/ RecoverCleanup
  PROVE  /\ CleanupInv' /\ stop' = stop
         /\ request' = "activated" <=> request = "activated"
<1>0. /\ cleaner \in [state : TaskStates, tries : 0..MaxTries, bound : BOOLEAN]
      /\ cleaner.tries \in 0..MaxTries /\ MaxTries \in Nat /\ TestRows \in Nat
      /\ request \in OpenCleanup \cup {"activated", "cancelled"} /\ left \in 0..TestRows
      /\ stop \in BOOLEAN
  BY GoLiveBounds DEF CleanupInv
<1>s. /\ {"waiting", "running", "abandoned", "succeeded", "failed", "cancelled"}
             \subseteq TaskStates
      /\ {"cleanup_queued", "cleanup_running", "cleanup_retry_wait",
          "cleanup_failed", "cleanup_complete"} = OpenCleanup
      /\ {"waiting", "running", "abandoned"} = Nonterminal
  BY DEF TaskStates, Nonterminal, OpenCleanup
<1>t. /\ "waiting" \in TaskStates /\ "running" \in TaskStates
      /\ "abandoned" \in TaskStates /\ "succeeded" \in TaskStates
      /\ "failed" \in TaskStates /\ "cancelled" \in TaskStates
  BY DEF TaskStates, Nonterminal
<1>c. ASSUME CancelCleaner, request # "activated" \/ ~stop
      PROVE  /\ CleanupInv' /\ stop' = stop
             /\ request' = "activated" <=> request = "activated"
  <2>1. cleaner' = [state |-> "cancelled", tries |-> cleaner.tries, bound |-> FALSE]
    BY <1>0, <1>c DEF CancelCleaner
  <2>2. cleaner' \in [state : TaskStates, tries : 0..MaxTries, bound : BOOLEAN]
        /\ cleaner'.state = "cancelled"
    BY <1>0, <1>t, <2>1
  <2> QED
    BY <1>0, <1>c, <2>2 DEF CancelCleaner, CleanupInv, HasClaim, Nonterminal
<1>1. CASE ClaimCleanup
  <2>1. cleaner' = [state |-> "running", tries |-> cleaner.tries + 1, bound |-> FALSE]
        /\ cleaner.tries + 1 \in 0..MaxTries
    BY <1>0, <1>1 DEF ClaimCleanup, CleanupInv, HasClaim
  <2> QED
    BY <1>0, <1>1, <1>t, <2>1, CleanerMoves DEF ClaimCleanup, OpenCleanup
<1>2. CASE BindCleanup
  <2>1. cleaner' = [state |-> "running", tries |-> cleaner.tries, bound |-> TRUE]
    BY <1>0, <1>2 DEF BindCleanup
  <2> QED
    BY <1>0, <1>2, <1>t, <2>1, CleanerMoves DEF BindCleanup, OpenCleanup, Eligible
<1>3. CASE CleanupBatch
  <2>1. left' \in 0..TestRows
    BY <1>0, <1>3 DEF CleanupBatch
  <2> QED
    BY <1>0, <1>3, <2>1 DEF CleanupBatch, CleanupInv, OpenCleanup
<1>4. CASE AcknowledgeCleanup
  <2>1. cleaner' = [state |-> "succeeded", tries |-> cleaner.tries, bound |-> FALSE]
    BY <1>0, <1>4 DEF AcknowledgeCleanup
  <2> QED
    BY <1>0, <1>4, <1>t, <2>1, CleanerMoves DEF AcknowledgeCleanup, OpenCleanup
<1>5. CASE StopCleanup
  BY <1>5, <1>c DEF StopCleanup, CleanupInv
<1>6. CASE CleanupFails
  <2>0. request' \in OpenCleanup /\ stop' = stop /\ left' = left /\ request # "activated"
    BY <1>6 DEF CleanupFails, OpenCleanup
  <2>1. CASE cleaner.tries >= MaxTries
    <3>1. cleaner' = [state |-> "failed", tries |-> cleaner.tries, bound |-> FALSE]
      BY <1>0, <1>6, <2>1 DEF CleanupFails
    <3> QED
      BY <1>0, <1>t, <2>0, <3>1, CleanerMoves DEF OpenCleanup
  <2>2. CASE ~(cleaner.tries >= MaxTries)
    <3>0. cleaner' = [cleaner EXCEPT !.state = "waiting", !.bound = FALSE]
      BY <1>6, <2>2 DEF CleanupFails
    <3>1. cleaner' = [state |-> "waiting", tries |-> cleaner.tries, bound |-> FALSE]
      BY <1>0, <3>0
    <3>2. cleaner.tries < MaxTries
      BY <1>0, <2>2
    <3> QED
      BY <1>0, <1>t, <2>0, <3>1, <3>2, CleanerMoves DEF OpenCleanup
  <2> QED
    BY <2>1, <2>2
<1>7. CASE CleanupLapses
  <2>1. cleaner' = [state |-> "abandoned", tries |-> cleaner.tries, bound |-> FALSE]
    BY <1>0, <1>7 DEF CleanupLapses
  <2>2. cleaner' \in [state : TaskStates, tries : 0..MaxTries, bound : BOOLEAN]
        /\ cleaner'.state = "abandoned"
    BY <1>0, <1>t, <2>1
  <2> QED
    BY <1>0, <1>7, <2>2 DEF CleanupLapses, CleanupInv, HasClaim, Nonterminal
<1>8. CASE RecoverCleanup
  <2>0. cleaner.state = "abandoned"
    BY <1>8 DEF RecoverCleanup
  <2>1. CASE stop /\ CancelCleaner
    BY <1>c, <2>1 DEF CleanupInv
  <2>2. CASE /\ ~stop /\ request = "cleanup_complete"
             /\ cleaner' = [cleaner EXCEPT !.state = "succeeded"]
             /\ UNCHANGED <<request, stop, left>>
    <3>1. cleaner' = [state |-> "succeeded", tries |-> cleaner.tries,
                      bound |-> cleaner.bound] /\ cleaner.bound \in BOOLEAN
      BY <1>0, <2>2
    <3> QED
      BY <1>0, <1>t, <2>2, <3>1, CleanerMoves DEF OpenCleanup
  <2>3. CASE ~stop /\ request # "cleanup_complete" /\ Eligible
    <3>0. request' \in OpenCleanup /\ stop' = stop /\ left' = left /\ request # "activated"
      BY <1>8, <2>3 DEF RecoverCleanup, Eligible, OpenCleanup
    <3>1. CASE request = "cleanup_failed" \/ cleaner.tries >= MaxTries
      <4>1. cleaner' = [state |-> "failed", tries |-> cleaner.tries,
                        bound |-> cleaner.bound] /\ cleaner.bound \in BOOLEAN
        BY <1>0, <1>8, <2>3, <3>1 DEF RecoverCleanup
      <4> QED
        BY <1>0, <1>t, <3>0, <4>1, CleanerMoves DEF OpenCleanup
    <3>2. CASE ~(request = "cleanup_failed" \/ cleaner.tries >= MaxTries)
      <4>1. /\ cleaner' = [state |-> "waiting", tries |-> cleaner.tries,
                           bound |-> cleaner.bound]
            /\ cleaner.bound \in BOOLEAN /\ cleaner.tries < MaxTries
        BY <1>0, <1>8, <2>3, <3>2 DEF RecoverCleanup
      <4> QED
        BY <1>0, <1>t, <3>0, <4>1, CleanerMoves DEF OpenCleanup
    <3> QED
      BY <3>1, <3>2
  <2> QED
    BY <1>8, <2>1, <2>2, <2>3 DEF RecoverCleanup
<1> QED
  BY <1>1, <1>2, <1>3, <1>4, <1>5, <1>6, <1>7, <1>8

LEMMA CleanupKeeps ==
  ASSUME GoLiveInv, CleanupWorks \/ CleanupBreaks \/ CleanupRecovers
  PROVE  GoLiveInv'
<1>1. /\ CleanupInv' /\ stop' = stop
      /\ request' = "activated" <=> request = "activated"
  BY CleanupStepKeeps DEF GoLiveInv, CleanupWorks, CleanupBreaks, CleanupRecovers
<1>2. UNCHANGED <<generation, attempt, links, refused, authority, retries, reviewed>>
  BY DEF CleanupWorks, CleanupBreaks, CleanupRecovers
<1>3. LinksInv'
  BY <1>1, <1>2, LinksStay DEF GoLiveInv
<1> QED
  BY <1>1, <1>2, <1>3 DEF GoLiveInv, WorldInv

-----------------------------------------------------------------------------
(* The link tasks.                                                         *)

LEMMA LinkWorkKeeps ==
  ASSUME GoLiveInv, NEW i \in DOMAIN links, LinksOnly,
         ClaimLinks(i) \/ PrepareBatch(i) \/ DiscardBatch(i) \/ LinksFail(i)
             \/ RecoverPrepare(i) \/ RecoverDiscard(i)
  PROVE  LinksInv'
<1> DEFINE p == links[i]
<1>0. /\ LinksInv /\ RowOK(p) /\ p.task \in Tasks
      /\ p.discard \in Tasks \cup {NoTask}
      /\ UNCHANGED <<request, stop, generation, reviewed>>
  BY DEF GoLiveInv, LinksInv, RowOK, PreparationRows, LinksOnly, cleanupVars
<1>d. p.discard.state # "none" => p.discard \in Tasks
  BY <1>0 DEF NoTask
<1>h. HasClaim(p.task) /\ HasClaim(p.discard)
  BY <1>0 DEF RowOK
<1>a. Discarded(p) => p.staging # "active"
  BY <1>0 DEF RowOK
<1>t. ASSUME NEW t \in Tasks, HasClaim(t), Set(i, [p EXCEPT !.task = t]),
             p.staging \notin {"ready", "active"}, p.task.state \in Nonterminal
      PROVE  LinksInv'
  <2>1. PICK q : q = [p EXCEPT !.task = t]
    OBVIOUS
  <2>2. Follows(p, q)
    BY <1>0, <1>t, <2>1, TaskChanges
  <2>3. Live(p)
    BY <1>t DEF Live
  <2>4. Set(i, q)
    BY <1>t, <2>1
  <2> HIDE DEF p
  <2> QED
    BY <1>0, <2>2, <2>3, <2>4, FollowMoves DEF p
<1>e. ASSUME NEW t \in Tasks, HasClaim(t), Set(i, [p EXCEPT !.discard = t]),
             Discarded(p)
      PROVE  LinksInv'
  <2>1. PICK q : q = [p EXCEPT !.discard = t]
    OBVIOUS
  <2>2. Follows(p, q) /\ (Live(q) => Live(p))
    BY <1>0, <1>a, <1>e, <2>1, DiscardChanges
  <2>4. Set(i, q)
    BY <1>e, <2>1
  <2> HIDE DEF p
  <2> QED
    BY <1>0, <2>2, <2>4, FollowMoves DEF p
<1>r. p.task.state \in Nonterminal => p.staging \notin {"ready", "active"}
  BY <1>0 DEF RowOK, Nonterminal
<1>1. CASE ClaimLinks(i)
  <2>1. CASE p.task.state = "waiting" /\ Set(i, [p EXCEPT !.task = Claimed(@)])
    <3>1. Set(i, [p EXCEPT !.task = Claimed(p.task)])
      BY <1>0, <2>1 DEF RowOK, PreparationRows
    <3>2. Claimed(p.task) \in Tasks /\ HasClaim(Claimed(p.task))
      BY <1>0, <1>h, <2>1, ClaimedTask
    <3> QED
      BY <1>r, <1>t, <2>1, <3>1, <3>2 DEF Nonterminal
  <2>2. CASE p.discard.state = "waiting" /\ Set(i, [p EXCEPT !.discard = Claimed(@)])
    <3>1. Set(i, [p EXCEPT !.discard = Claimed(p.discard)])
      BY <1>0, <2>2 DEF RowOK, PreparationRows
    <3>2. Claimed(p.discard) \in Tasks /\ HasClaim(Claimed(p.discard))
      BY <1>0, <1>d, <1>h, <2>2, ClaimedTask
    <3> QED
      BY <1>e, <2>2, <3>1, <3>2 DEF Discarded
  <2> QED
    BY <1>1, <2>1, <2>2 DEF ClaimLinks
<1>2. CASE PrepareBatch(i)
  <2>0. p.task.state = "running" /\ p.staging # "active" /\ Live(p)
    BY <1>2 DEF PrepareBatch, Live, Nonterminal
  <2>1. CASE Current(p)
    <3>1. p.staging \in {"none", "building"} /\ Set(i, Sealed(p))
      BY <1>2, <2>1 DEF PrepareBatch
    <3>2. ~Discarded(p) /\ ~stop
      BY <2>1 DEF Current, InputsAvailable
    <3>3. /\ RowOK(Sealed(p)) /\ Sealed(p).attempt = p.attempt
          /\ Sealed(p).inputs = p.inputs /\ Sealed(p).staging # "active"
      BY <1>0, <3>1, <3>2, SealFollows
    <3> QED
      BY <1>0, <2>0, <3>1, <3>2, <3>3, SetMoves
  <2>2. CASE ~Current(p)
    <3> DEFINE s == Scrubbed(p)
               q == IF Disposed(s) THEN [s EXCEPT !.task.state = "cancelled"] ELSE s
    <3>1. Set(i, q)
      BY <1>2, <2>2 DEF PrepareBatch
    <3>2. /\ Follows(p, s) /\ (Live(s) => Live(p)) /\ s.task = p.task
          /\ s.staging \in {"none", "cancelled"}
      BY <1>0, <2>0, ScrubFollows
    <3>3. Follows(p, q)
      <4>1. CASE Disposed(s)
        <5> DEFINE t == [s.task EXCEPT !.state = "cancelled"]
        <5>1. t \in Tasks /\ HasClaim(t)
          BY <1>0, <3>2 DEF Tasks, TaskStates, HasClaim
        <5>2. q = [s EXCEPT !.task = t]
          BY <3>2, <4>1 DEF Follows, RowOK, PreparationRows
        <5> HIDE DEF t, s, q
        <5>3. RowOK(s) /\ s.staging \notin {"ready", "active"}
          BY <3>2 DEF Follows
        <5>4. Follows(s, q)
          BY <5>1, <5>2, <5>3, TaskChanges
        <5> QED
          BY <3>2, <5>4, FollowsChain
      <4>2. CASE ~Disposed(s)
        BY <3>2, <4>2
      <4> QED
        BY <4>1, <4>2
    <3> HIDE DEF q, s
    <3> QED
      BY <1>0, <2>0, <3>1, <3>3, FollowMoves
  <2> QED
    BY <2>1, <2>2
<1>3. CASE DiscardBatch(i)
  <2>0. p.discard.state = "running" /\ p.staging # "active" /\ Discarded(p)
    BY <1>3 DEF DiscardBatch, Discarded
  <2> DEFINE s == Scrubbed(p)
             q == IF Disposed(s) THEN [s EXCEPT !.discard.state = "succeeded"] ELSE s
  <2>1. Set(i, q)
    BY <1>3 DEF DiscardBatch
  <2>2. /\ Follows(p, s) /\ (Live(s) => Live(p)) /\ s.discard = p.discard
        /\ s.staging \in {"none", "cancelled"}
    BY <1>0, <2>0, ScrubFollows
  <2>3. Follows(p, q) /\ (Live(q) => Live(p))
    <3>1. CASE Disposed(s)
      <4> DEFINE t == [s.discard EXCEPT !.state = "succeeded"]
      <4>1. t \in Tasks /\ HasClaim(t)
        BY <1>0, <1>d, <2>0, <2>2 DEF Tasks, TaskStates, HasClaim
      <4>2. q = [s EXCEPT !.discard = t]
        BY <2>2, <3>1 DEF Follows, RowOK, PreparationRows
      <4> HIDE DEF t, s, q
      <4>3. RowOK(s) /\ s.staging # "active"
        BY <2>2 DEF Follows
      <4>4. Follows(s, q) /\ (Live(q) => Live(s))
        BY <4>1, <4>2, <4>3, DiscardChanges
      <4> QED
        BY <2>2, <4>4, FollowsChain
    <3>2. CASE ~Disposed(s)
      BY <2>2, <3>2
    <3> QED
      BY <3>1, <3>2
  <2> HIDE DEF q, s
  <2> QED
    BY <1>0, <2>1, <2>3, FollowMoves
<1>4. CASE LinksFail(i)
  <2>1. CASE p.task.state = "running" /\ Set(i, [p EXCEPT !.task = Failed(@)])
    <3>1. Set(i, [p EXCEPT !.task = Failed(p.task)])
      BY <1>0, <2>1 DEF RowOK, PreparationRows
    <3>2. Failed(p.task) \in Tasks /\ HasClaim(Failed(p.task))
      BY <1>0, <2>1, FailedTask
    <3> QED
      BY <1>r, <1>t, <2>1, <3>1, <3>2 DEF Nonterminal
  <2>2. CASE p.task.state = "running" /\ Set(i, [p EXCEPT !.task.state = "abandoned"])
    <3> DEFINE t == [p.task EXCEPT !.state = "abandoned"]
    <3>1. t \in Tasks /\ HasClaim(t)
      BY <1>0 DEF Tasks, TaskStates, HasClaim, Nonterminal
    <3>2. Set(i, [p EXCEPT !.task = t])
      BY <1>0, <2>2 DEF RowOK, PreparationRows
    <3> HIDE DEF t
    <3> QED
      BY <1>r, <1>t, <2>2, <3>1, <3>2 DEF Nonterminal
  <2>3. CASE p.discard.state = "running" /\ Set(i, [p EXCEPT !.discard = Failed(@)])
    <3>1. Set(i, [p EXCEPT !.discard = Failed(p.discard)])
      BY <1>0, <2>3 DEF RowOK, PreparationRows
    <3>2. Failed(p.discard) \in Tasks /\ HasClaim(Failed(p.discard))
      BY <1>d, <2>3, FailedTask
    <3> QED
      BY <1>e, <2>3, <3>1, <3>2 DEF Discarded
  <2>4. CASE /\ p.discard.state = "running"
             /\ Set(i, [p EXCEPT !.discard.state = "abandoned"])
    <3> DEFINE t == [p.discard EXCEPT !.state = "abandoned"]
    <3>1. t \in Tasks /\ HasClaim(t)
      BY <1>d, <2>4 DEF Tasks, TaskStates, HasClaim, Nonterminal
    <3>2. Set(i, [p EXCEPT !.discard = t])
      BY <1>0, <2>4 DEF RowOK, PreparationRows
    <3> HIDE DEF t
    <3> QED
      BY <1>e, <2>4, <3>1, <3>2 DEF Discarded
  <2> QED
    BY <1>4, <2>1, <2>2, <2>3, <2>4 DEF LinksFail
<1>5. CASE RecoverPrepare(i)
  <2> DEFINE t == IF Current(p) /\ p.staging = "ready"
                  THEN [p.task EXCEPT !.state = "succeeded"]
                  ELSE IF ~Current(p) /\ Disposed(p)
                  THEN [p.task EXCEPT !.state = "cancelled"]
                  ELSE Failed(p.task)
  <2>1. p.task.state = "abandoned"
    BY <1>5 DEF RecoverPrepare
  <2>2. t \in Tasks /\ HasClaim(t)
    <3>1. Failed(p.task) \in Tasks /\ HasClaim(Failed(p.task))
      BY <1>0, <2>1, FailedTask
    <3>2. /\ [p.task EXCEPT !.state = "succeeded"] \in Tasks
          /\ HasClaim([p.task EXCEPT !.state = "succeeded"])
          /\ [p.task EXCEPT !.state = "cancelled"] \in Tasks
          /\ HasClaim([p.task EXCEPT !.state = "cancelled"])
      BY <1>0 DEF Tasks, TaskStates, HasClaim
    <3> QED
      BY <3>1, <3>2
  <2>3. Set(i, [p EXCEPT !.task = t])
    BY <1>0, <1>5 DEF RecoverPrepare, RowOK, PreparationRows
  <2> HIDE DEF t
  <2> QED
    BY <1>r, <1>t, <2>1, <2>2, <2>3 DEF Nonterminal
<1>6. CASE RecoverDiscard(i)
  <2> DEFINE t == IF Disposed(p) THEN [p.discard EXCEPT !.state = "succeeded"]
                  ELSE Failed(p.discard)
  <2>1. p.discard.state = "abandoned"
    BY <1>6 DEF RecoverDiscard
  <2>2. t \in Tasks /\ HasClaim(t)
    <3>1. Failed(p.discard) \in Tasks /\ HasClaim(Failed(p.discard))
      BY <1>d, <2>1, FailedTask
    <3>2. /\ [p.discard EXCEPT !.state = "succeeded"] \in Tasks
          /\ HasClaim([p.discard EXCEPT !.state = "succeeded"])
      BY <1>d, <2>1 DEF Tasks, TaskStates, HasClaim
    <3> QED
      BY <3>1, <3>2
  <2>3. Set(i, [p EXCEPT !.discard = t])
    BY <1>0, <1>6 DEF RecoverDiscard, RowOK, PreparationRows
  <2> HIDE DEF t
  <2> QED
    BY <1>e, <2>1, <2>2, <2>3 DEF Discarded
<1> QED
  BY <1>1, <1>2, <1>3, <1>4, <1>5, <1>6

LEMMA LinksKeep ==
  ASSUME GoLiveInv, LinksWork \/ LinksBreak \/ LinksRecover
  PROVE  GoLiveInv'
<1>1. LinksInv' /\ LinksOnly
  BY LinkWorkKeeps DEF LinksWork, LinksBreak, LinksRecover
<1> QED
  BY <1>1 DEF LinksOnly, cleanupVars, GoLiveInv, CleanupInv, WorldInv

-----------------------------------------------------------------------------
(* The producer.                                                           *)

LEMMA MadeByFinite ==
  ASSUME LinksInv, NEW n
  PROVE  IsFiniteSet(MadeBy(n)) /\ Cardinality(MadeBy(n)) \in Nat
<1>1. IsFiniteSet(1..Len(links)) /\ MadeBy(n) \subseteq 1..Len(links)
  BY RowsAre, FS_Interval DEF MadeBy
<1>2. IsFiniteSet(MadeBy(n))
  BY <1>1, FS_Subset
<1> QED
  BY <1>2, FS_CardinalityType

\* request_preparation: a new row, when no other is live.
LEMMA PrepareMade ==
  ASSUME GoLiveInv, request = "cleanup_complete", ~stop, ~AnyLive,
         Number < MaxPreparations, links' = Append(links, NewLinks(attempt.number)),
         UNCHANGED <<cleanupVars, generation, attempt, reviewed>>
  PROVE  LinksInv'
<1> DEFINE q == NewLinks(attempt.number)
           k == Len(links) + 1
<1>0. /\ LinksInv /\ Len(links) \in Nat /\ DOMAIN links = 1..Len(links)
      /\ links \in Seq(PreparationRows) /\ attempt.number \in 1..MaxAttempts
      /\ generation \in 1..MaxGeneration
      /\ request' = request /\ stop' = stop /\ generation' = generation
      /\ reviewed' = reviewed
  BY RowsAre DEF GoLiveInv, LinksInv, WorldInv, cleanupVars
<1>1. /\ RowOK(q) /\ q.staging = "none" /\ q.attempt = attempt.number
  <2>1. /\ q \in PreparationRows /\ q.staging = "none" /\ q.attempt = attempt.number
        /\ q.task = NewTask /\ q.discard = NoTask /\ q.sealed = 0
    BY <1>0, NewTaskOK, GoLiveBounds DEF NewLinks, PreparationRows
  <2> HIDE DEF q
  <2> QED
    BY <2>1, NewTaskOK DEF RowOK, HasClaim, NoTask
<1> HIDE DEF q
<1>2. /\ links' \in Seq(PreparationRows) /\ Len(links') = k
      /\ \A i \in 1..Len(links) : links'[i] = links[i]
      /\ links'[k] = q
  <2>1. q \in PreparationRows
    BY <1>1 DEF RowOK
  <2> QED
    BY <1>0, <2>1, AppendProperties DEF q
<1>3. DOMAIN links' = DOMAIN links \cup {k} /\ k \notin DOMAIN links /\ k \in Nat
  <2>1. DOMAIN links' = 1..k
    BY <1>2, LenProperties
  <2> QED
    BY <1>0, <2>1
<1>4. \A i \in DOMAIN links : links'[i] = links[i]
  BY <1>0, <1>2
<1>5. reviewed' \in 0..Len(links')
  BY <1>0, <1>2 DEF LinksInv
<1>6. \A i \in DOMAIN links' : RowOK(links'[i]) /\ links'[i].staging # "active"
  BY <1>0, <1>1, <1>2, <1>3, <1>4 DEF LinksInv
<1>7. ASSUME NEW i \in DOMAIN links', NEW j \in DOMAIN links',
             Live(links'[i]), Live(links'[j])
      PROVE  i = j
  BY <1>3, <1>4, <1>7 DEF AnyLive
<1>8. ASSUME NEW n \in 1..MaxAttempts
      PROVE  Cardinality(MadeBy(n))' <= MaxPreparations
  <2>1. CASE n = attempt.number
    <3>1. MadeBy(n)' = MadeBy(n) \cup {k} /\ k \notin MadeBy(n) /\ Made = MadeBy(n)
      BY <1>1, <1>2, <1>3, <1>4, <2>1 DEF MadeBy, Made
    <3>2. Cardinality(MadeBy(n) \cup {k}) = Cardinality(MadeBy(n)) + 1
          /\ Cardinality(MadeBy(n)) \in Nat
      BY <1>0, <3>1, MadeByFinite, FS_AddElement
    <3> QED
      BY <3>1, <3>2, GoLiveBounds DEF Number
  <2>2. CASE n # attempt.number
    <3>1. MadeBy(n)' = MadeBy(n)
      BY <1>1, <1>2, <1>3, <1>4, <2>2 DEF MadeBy
    <3> QED
      BY <1>0, <3>1 DEF LinksInv
  <2> QED
    BY <2>1, <2>2
<1> QED
  BY <1>0, <1>2, <1>5, <1>6, <1>7, <1>8 DEF LinksInv

LEMMA ProduceKeeps ==
  ASSUME GoLiveInv, Produce
  PROVE  GoLiveInv'
<1>0. /\ LinksInv
      /\ UNCHANGED <<request, stop, left, cleaner, generation, attempt, authority,
                     retries, reviewed>>
  BY DEF GoLiveInv, Produce, cleanupVars
<1>1. PICK key \in Step \ refused :
          \/ authority /\ TakeStep(key)
          \/ links' = links
  BY DEF Produce
<1>2. request = "cleanup_complete" /\ ~stop
  BY <1>1 DEF Step, ProducerMayAct, InputsAvailable
<1>3. LinksInv'
  <2>1. CASE links' = links
    BY <1>0, <2>1, LinksStay
  <2>2. CASE TakeStep(key) /\ key = Key("discard", Number)
    <3>1. links' = Discard(links, {LatestLinks})
      BY <2>2 DEF TakeStep, Key
    <3> QED
      BY <1>0, <1>2, <3>1, DiscardMoves
  <2>3. CASE TakeStep(key) /\ key = Key("discard_prior", Number)
    <3>1. links' = Discard(links, {CHOOSE i \in Pending : \A j \in Pending : i <= j})
      BY <2>3 DEF TakeStep, Key
    <3> QED
      BY <1>0, <1>2, <3>1, DiscardMoves
  <2>4. CASE /\ TakeStep(key) /\ key = Key("prepare", Number + 1)
             /\ Replaceable /\ ~AnyLive
    <3>1. links' = Append(links, NewLinks(attempt.number))
      BY <2>4 DEF TakeStep, Key
    <3> QED
      BY <1>0, <1>2, <2>4, <3>1, PrepareMade DEF Replaceable, cleanupVars
  <2> QED
    BY <1>1, <2>1, <2>2, <2>3, <2>4 DEF Step
<1> QED
  BY <1>0, <1>3 DEF GoLiveInv, CleanupInv, WorldInv

-----------------------------------------------------------------------------
(* The Administrators.                                                     *)

LEMMA StopKeeps ==
  ASSUME GoLiveInv, StopGoLive
  PROVE  GoLiveInv'
<1>0. /\ LinksInv /\ CleanupInv /\ request \in OpenCleanup /\ request # "activated"
      /\ links' = Discard(links, Pending) /\ stop' = TRUE
      /\ UNCHANGED <<left, generation, attempt, refused, authority, retries, reviewed>>
  BY DEF GoLiveInv, StopGoLive, OpenCleanup
<1>1. /\ request' \in OpenCleanup \cup {"cancelled"}
      /\ request' # "activated"
  BY <1>0 DEF StopGoLive, OpenCleanup
<1>2. ASSUME NEW i \in DOMAIN links, i \notin Pending, ~Discarded(links[i])
      PROVE  Disposed(links[i])
  <2>1. ~Live(links[i]) /\ links[i] \in PreparationRows
    BY <1>0, <1>2, RowsAre DEF Pending
  <2> QED
    BY <2>1, GoLiveBounds DEF Live, Disposed, PreparationRows
<1>3. LinksInv'
  BY <1>0, <1>1, <1>2, DiscardMoves
<1>4. CleanupInv'
  <2>1. CASE cleaner.state \in {"running", "abandoned"}
    BY <1>0, <2>1 DEF StopGoLive, CleanupInv, OpenCleanup
  <2>2. CASE cleaner.state \notin {"running", "abandoned"}
    <3>0. /\ cleaner \in [state : TaskStates, tries : 0..MaxTries, bound : BOOLEAN]
          /\ request' = "cancelled"
          /\ cleaner' = [cleaner EXCEPT !.state =
                            IF cleaner.state = "waiting" THEN "cancelled"
                            ELSE cleaner.state]
      BY <1>0, <2>2 DEF StopGoLive, CleanupInv
    <3>1. /\ cleaner' \in [state : TaskStates, tries : 0..MaxTries, bound : BOOLEAN]
          /\ cleaner'.state \notin Nonterminal
      BY <2>2, <3>0 DEF TaskStates, Nonterminal
    <3> QED
      BY <1>0, <3>0, <3>1 DEF CleanupInv, HasClaim, Nonterminal
  <2> QED
    BY <2>1, <2>2
<1> QED
  BY <1>0, <1>3, <1>4 DEF GoLiveInv, WorldInv

LEMMA RetryCleanupKeeps ==
  ASSUME GoLiveInv, RetryCleanup
  PROVE  GoLiveInv'
<1>1. CleanupInv'
  <2>1. /\ cleaner' = [state |-> "waiting", tries |-> 0, bound |-> FALSE]
        /\ 0 \in 0..MaxTries /\ 0 < MaxTries /\ "waiting" \in TaskStates
    BY GoLiveBounds DEF RetryCleanup, TaskStates, Nonterminal
  <2> QED
    BY <2>1, CleanerMoves DEF RetryCleanup, GoLiveInv, CleanupInv, OpenCleanup
<1>2. LinksInv'
  BY LinksStay DEF GoLiveInv, RetryCleanup
<1>3. WorldInv'
  BY GoLiveBounds DEF GoLiveInv, WorldInv, RetryCleanup
<1> QED
  BY <1>1, <1>2, <1>3 DEF GoLiveInv

LEMMA RetryLinksKeeps ==
  ASSUME GoLiveInv, RetryLinks
  PROVE  GoLiveInv'
<1>0. /\ LinksInv /\ retries < MaxRetries /\ retries' = retries + 1
      /\ UNCHANGED <<request, stop, left, cleaner, generation, attempt, refused,
                     authority, reviewed>>
  BY DEF GoLiveInv, RetryLinks, cleanupVars
<1>1. PICK i \in DOMAIN links :
         \/ /\ PrepareStep = "failed" /\ LinksState = "prepare_failed" /\ i = Newest
            /\ ~ \E j \in DOMAIN links \ {i} : Live(links[j])
            /\ Set(i, [links[i] EXCEPT !.task = NewTask])
         \/ /\ links[i].discard.state = "failed"
            /\ Set(i, [links[i] EXCEPT !.discard = NewTask])
  BY Zenon DEF RetryLinks
<1>2. RowOK(links[i])
  BY <1>0 DEF LinksInv
<1>3. LinksInv'
  <2>1. CASE /\ LinksState = "prepare_failed" /\ i = Newest
             /\ ~ \E j \in DOMAIN links \ {i} : Live(links[j])
             /\ Set(i, [links[i] EXCEPT !.task = NewTask])
    <3>1. links[i].task.state = "failed"
      BY <2>1 DEF LinksState
    <3>2. PICK q : q = [links[i] EXCEPT !.task = NewTask]
      OBVIOUS
    <3>3. Follows(links[i], q)
      BY <1>2, <3>1, <3>2, TaskChanges, NewTaskOK DEF RowOK
    <3>4. Set(i, q)
      BY <2>1, <3>2
    <3> QED
      BY <1>0, <2>1, <3>3, <3>4, FollowMoves
  <2>2. CASE /\ links[i].discard.state = "failed"
             /\ Set(i, [links[i] EXCEPT !.discard = NewTask])
    <3>1. links[i].staging # "active"
      BY <1>2, <2>2 DEF RowOK, Discarded
    <3>2. PICK q : q = [links[i] EXCEPT !.discard = NewTask]
      OBVIOUS
    <3>3. Follows(links[i], q) /\ (Live(q) => Live(links[i]))
      BY <1>2, <3>1, <3>2, DiscardChanges, NewTaskOK
    <3>4. Set(i, q)
      BY <2>2, <3>2
    <3> QED
      BY <1>0, <3>3, <3>4, FollowMoves
  <2> QED
    BY <1>1, <2>1, <2>2
<1>4. retries' \in 0..MaxRetries
  BY <1>0, GoLiveBounds DEF GoLiveInv, WorldInv
<1> QED
  BY <1>0, <1>3, <1>4 DEF GoLiveInv, CleanupInv, WorldInv

LEMMA ConfirmKeeps ==
  ASSUME GoLiveInv, ConfirmLinks
  PROVE  GoLiveInv'
<1> DEFINE p == links[reviewed]
           q == [p EXCEPT !.staging = "active"]
<1>0. /\ LinksInv /\ reviewed \in DOMAIN links /\ ConfirmGuard(p)
      /\ Set(reviewed, q) /\ request' = "activated"
      /\ UNCHANGED <<stop, left, cleaner, generation, attempt, refused, authority,
                     retries, reviewed>>
  BY RowsAre DEF GoLiveInv, LinksInv, ConfirmLinks
<1>1. /\ request = "cleanup_complete" /\ ~stop /\ ~Discarded(p)
      /\ p.inputs = generation /\ p.staging = "ready"
  BY <1>0 DEF ConfirmGuard, Current, InputsAvailable
<1>2. RowOK(p) /\ Live(p)
  BY <1>0, <1>1 DEF LinksInv, Live
<1>3. /\ q \in PreparationRows /\ RowOK(q) /\ q.staging = "active"
      /\ q.inputs = generation /\ q.attempt = p.attempt
  <2>1. /\ q \in PreparationRows /\ q.staging = "active" /\ q.inputs = p.inputs
        /\ q.attempt = p.attempt /\ q.task = p.task /\ q.discard = p.discard
        /\ q.sealed = p.sealed
    BY <1>2 DEF RowOK, PreparationRows
  <2> HIDE DEF q
  <2> QED
    BY <1>1, <1>2, <2>1 DEF RowOK, Discarded
<1> HIDE DEF q
<1>4. /\ links' \in Seq(PreparationRows)
      /\ DOMAIN links' = DOMAIN links /\ Len(links') = Len(links)
      /\ links'[reviewed] = q
      /\ \A j \in DOMAIN links : j # reviewed => links'[j] = links[j]
  BY <1>0, <1>3, SetRow
<1>5. \A j \in DOMAIN links : links[j].staging # "active"
  BY <1>0, <1>1 DEF LinksInv
<1>6. \A j \in DOMAIN links : links'[j].staging = "active" => j = reviewed
  BY <1>4, <1>5
<1>7. ASSUME NEW n \in 1..MaxAttempts
      PROVE  Cardinality(MadeBy(n))' <= MaxPreparations
  <2>1. MadeBy(n)' = MadeBy(n)
    BY <1>0, <1>3, <1>4 DEF MadeBy
  <2> QED
    BY <1>0, <2>1 DEF LinksInv
<1>8. \A i \in DOMAIN links' : RowOK(links'[i])
  BY <1>0, <1>3, <1>4 DEF LinksInv
<1>9. ASSUME NEW i \in DOMAIN links', NEW j \in DOMAIN links',
             Live(links'[i]), Live(links'[j])
      PROVE  i = j
  BY <1>0, <1>2, <1>4, <1>9 DEF LinksInv
<1>10. reviewed' \in 0..Len(links')
  BY <1>0, <1>4 DEF LinksInv
<1>11. /\ \A i \in DOMAIN links' :
              links'[i].staging = "active" => links'[i].inputs = generation'
       /\ \E i \in DOMAIN links' : links'[i].staging = "active"
  BY <1>0, <1>3, <1>4, <1>6
<1>12. LinksInv'
  BY <1>0, <1>1, <1>4, <1>7, <1>8, <1>9, <1>10, <1>11 DEF LinksInv
<1>13. CleanupInv'
  BY <1>0, <1>1 DEF GoLiveInv, CleanupInv
<1> QED
  BY <1>0, <1>12, <1>13 DEF GoLiveInv, WorldInv

\* The page, the refreshes, the clock and the user list.
LEMMA WorldKeeps ==
  ASSUME GoLiveInv,
         \/ RestartScheduler \/ Again \/ ReviewLinks
         \/ (\E full \in BOOLEAN : Promote(full))
         \/ RefreshFails \/ HoldEnds \/ ChangeAuthority \/ Finished
         \/ UNCHANGED goLiveVars
  PROVE  GoLiveInv'
<1>0. UNCHANGED <<request, stop, left, cleaner, links>>
  BY DEF RestartScheduler, Again, ReviewLinks, Promote, RefreshFails, HoldEnds,
         ChangeAuthority, Finished, goLiveVars, cleanupVars
<1>1. CleanupInv'
  BY <1>0 DEF GoLiveInv, CleanupInv
<1>2. CASE ReviewLinks
  <2>1. Newest \in 0..Len(links) /\ Len(links) \in Nat
    BY RowsAre DEF GoLiveInv, Newest
  <2>2. \A n \in 1..MaxAttempts : MadeBy(n)' = MadeBy(n)
    BY <1>0 DEF MadeBy
  <2>3. LinksInv'
    BY <1>0, <1>2, <2>1, <2>2 DEF ReviewLinks, GoLiveInv, LinksInv
  <2> QED
    BY <1>1, <1>2, <2>3 DEF ReviewLinks, GoLiveInv, WorldInv
<1>3. CASE \E full \in BOOLEAN : Promote(full)
  <2>1. PICK full \in BOOLEAN : Promote(full)
    BY <1>3
  <2>2. \A i \in DOMAIN links : links[i].staging # "active"
    BY <2>1 DEF Promote, GoLiveInv, LinksInv, OpenCleanup
  <2>3. \A n \in 1..MaxAttempts : MadeBy(n)' = MadeBy(n)
    BY <1>0 DEF MadeBy
  <2>4. LinksInv'
    BY <1>0, <2>1, <2>2, <2>3 DEF Promote, GoLiveInv, LinksInv
  <2>5. WorldInv'
    BY <2>1, GoLiveBounds DEF Promote, GoLiveInv, WorldInv
  <2> QED
    BY <1>1, <2>4, <2>5 DEF GoLiveInv
<1>4. CASE RestartScheduler \/ Again \/ RefreshFails \/ HoldEnds
             \/ ChangeAuthority \/ Finished \/ UNCHANGED goLiveVars
  <2>1. LinksInv'
    BY <1>0, <1>4, LinksStay
       DEF RestartScheduler, Again, RefreshFails, HoldEnds, ChangeAuthority,
           Finished, goLiveVars, GoLiveInv
  <2>2. WorldInv'
    <3>1. CASE Again
      BY <3>1, GoLiveBounds DEF Again, GoLiveInv, WorldInv
    <3>2. CASE RefreshFails \/ HoldEnds
      BY <3>2 DEF RefreshFails, HoldEnds, GoLiveInv, WorldInv
    <3>3. CASE ChangeAuthority
      <4>1. authority' \in BOOLEAN
        BY <3>3 DEF ChangeAuthority
      <4> QED
        BY <3>3, <4>1 DEF ChangeAuthority, GoLiveInv, WorldInv
    <3>4. CASE RestartScheduler \/ Finished \/ UNCHANGED goLiveVars
      BY <3>4 DEF RestartScheduler, Finished, goLiveVars, GoLiveInv, WorldInv
    <3> QED
      BY <1>4, <3>1, <3>2, <3>3, <3>4
  <2> QED
    BY <1>1, <2>1, <2>2 DEF GoLiveInv
<1> QED
  BY <1>2, <1>3, <1>4

-----------------------------------------------------------------------------
(* The theorem.                                                            *)

LEMMA GoLiveStart == GoLiveInit => GoLiveInv
<1> SUFFICES ASSUME GoLiveInit PROVE GoLiveInv
  OBVIOUS
<1>1. links = <<>> /\ DOMAIN links = {} /\ Len(links) = 0
      /\ links \in Seq(PreparationRows)
  BY DEF GoLiveInit
<1>2. ASSUME NEW n PROVE Cardinality(MadeBy(n)) = 0
  BY <1>1, FS_EmptySet DEF MadeBy
<1>3. LinksInv
  BY <1>1, <1>2, GoLiveBounds DEF GoLiveInit, LinksInv
<1>4. CleanupInv
  <2>1. /\ cleaner \in [state : TaskStates, tries : 0..MaxTries, bound : BOOLEAN]
        /\ cleaner.state = "waiting" /\ cleaner.tries = 0 /\ 0 < MaxTries
    BY GoLiveBounds DEF GoLiveInit, TaskStates, Nonterminal
  <2>2. left \in 0..TestRows
    BY GoLiveBounds DEF GoLiveInit
  <2>3. request = "cleanup_queued" /\ stop = FALSE
    BY DEF GoLiveInit
  <2> QED
    BY <2>1, <2>2, <2>3 DEF CleanupInv, OpenCleanup, HasClaim
<1>5. WorldInv
  BY GoLiveBounds DEF GoLiveInit, WorldInv
<1> QED
  BY <1>3, <1>4, <1>5 DEF GoLiveInv

LEMMA GoLiveHolds == GoLiveInv => GoLiveSafe
<1> SUFFICES ASSUME GoLiveInv PROVE GoLiveSafe
  OBVIOUS
<1>1. GoLiveTypeOK
  BY DEF GoLiveInv, LinksInv, CleanupInv, WorldInv, GoLiveTypeOK, MadeBy
<1>2. OneStaging
  <2> DEFINE L == {i \in DOMAIN links : Live(links[i])}
  <2>1. \A i, j \in L : i = j
    BY DEF GoLiveInv, LinksInv
  <2>2. CASE L = {}
    BY <2>2, FS_EmptySet DEF OneStaging
  <2>3. CASE L # {}
    <3>1. PICK x : L = {x}
      BY <2>1, <2>3
    <3>2. Cardinality(L) = 1
      BY <3>1, FS_Singleton
    <3> QED
      BY <3>2 DEF OneStaging
  <2> QED
    BY <2>2, <2>3
<1>3. LiveLinksKept
  BY DEF GoLiveInv, LinksInv, LiveLinksKept, RowOK
<1>4. ReleasedAfterWorker /\ StopLeavesOwner
  BY DEF GoLiveInv, LinksInv, CleanupInv, ReleasedAfterWorker, StopLeavesOwner
<1> QED
  BY <1>1, <1>2, <1>3, <1>4 DEF GoLiveSafe

\* Going live is safe for any number of Testing rows, Families, claims,
\* preparations, attempts and promotions: one preparation at a time is alive,
\* confirmed links are complete, current and out of every worker's reach, the
\* gate of a stopped go-live is given up only after its worker, and no sealed
\* link is left without a discard.
THEOREM GoLiveIsSafe == GoLiveSpec => []GoLiveSafe
<1>1. GoLiveInv /\ [GoLiveNext]_goLiveVars => GoLiveInv'
  BY CleanupKeeps, LinksKeep, ProduceKeeps, StopKeeps, RetryCleanupKeeps,
     RetryLinksKeeps, ConfirmKeeps, WorldKeeps DEF GoLiveNext
<1> QED
  BY GoLiveStart, GoLiveHolds, <1>1, PTL DEF GoLiveSpec

=============================================================================
