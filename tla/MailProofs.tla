----------------------------- MODULE MailProofs -----------------------------
(***************************************************************************)
(* Three proofs about what a mail consumer relies on: the outbox contract  *)
(* SendOnce that delivery implements, the lease an execution holds while   *)
(* it waits for the provider, and the halt that stops all Family mail.     *)
(***************************************************************************)
EXTENDS SendOnce, LeaseRenewal, MailCircuit, TLAPS

-----------------------------------------------------------------------------
(* The outbox contract SendOnce delivers what it is for: no Family receives *)
(* a message twice unless an Administrator answered for the earlier copy.   *)

\* The type of the four records of attempts.
SendTypeOK ==
    /\ started \in [Message -> Nat]
    /\ accepted \in [Message -> SUBSET Nat]
    /\ ruledOut \in [Message -> SUBSET Nat]
    /\ answered \in [Message -> SUBSET Nat]

\* Every attempt but the last is closed, and only started attempts are
\* accepted: what DuplicateNeedsConsent needs to be inductive.
SendInv ==
    /\ SendTypeOK
    /\ \A m \in Message :
          /\ \A a \in accepted[m] : a \in 1..started[m] /\ a \notin ruledOut[m]
          /\ \A a \in 1..started[m] :
                a < started[m] => a \in ruledOut[m] \cup answered[m]

\* The initial state: nothing has been sent.
LEMMA SendInvInit == SendInit => SendInv
BY DEF SendInit, SendInv, SendTypeOK

\* Every step of the contract keeps the invariant.
LEMMA SendInvNext == SendInv /\ [SendNext]_sendVars => SendInv'
<1> SUFFICES ASSUME SendInv, [SendNext]_sendVars PROVE SendInv'
  OBVIOUS
<1> USE DEF SendInv, SendTypeOK
<1>1. CASE UNCHANGED sendVars
  BY <1>1 DEF sendVars
<1>2. ASSUME NEW m \in Message, Start(m) PROVE SendInv'
  <2>1. SendTypeOK'
    BY <1>2 DEF Start
  <2>2. ASSUME NEW n \in Message, NEW a \in accepted'[n]
        PROVE  a \in 1..started'[n] /\ a \notin ruledOut'[n]
    BY <1>2, <2>2 DEF Start
  <2>3. ASSUME NEW n \in Message, NEW a \in 1..started'[n], a < started'[n]
        PROVE  a \in ruledOut'[n] \cup answered'[n]
    <3>1. CASE n # m
      BY <1>2, <2>3, <3>1 DEF Start
    <3>2. CASE n = m
      <4>1. a \in 1..started[m]
        BY <1>2, <2>3, <3>2 DEF Start
      <4>2. a < started[m] \/ a = started[m]
        BY <4>1
      <4>3. started[m] # 0
        BY <4>1
      <4>. QED BY <1>2, <3>2, <4>1, <4>2, <4>3 DEF Start, Closed
    <3>. QED BY <3>1, <3>2
  <2>. QED BY <2>1, <2>2, <2>3
<1>3. ASSUME NEW m \in Message, NEW a \in 1..started[m], Accept(m, a)
      PROVE  SendInv'
  BY <1>3 DEF Accept
<1>4. ASSUME NEW m \in Message, RuleOut(m) PROVE SendInv'
  BY <1>4 DEF RuleOut
<1>5. ASSUME NEW m \in Message, Answer(m) PROVE SendInv'
  BY <1>5 DEF Answer
<1>. QED BY <1>1, <1>2, <1>3, <1>4, <1>5 DEF SendNext

\* Whatever happens to workers, leases and answers, an accepted copy that is
\* followed by another attempt is one an Administrator answered for.
THEOREM DuplicatesAreConsented == SendSpec => []DuplicateNeedsConsent
<1>1. SendInv => DuplicateNeedsConsent
  BY DEF SendInv, SendTypeOK, DuplicateNeedsConsent
<1>. QED BY SendInvInit, SendInvNext, <1>1, PTL DEF SendSpec

-----------------------------------------------------------------------------
(***************************************************************************)
(* Proofs about an execution's lease and its renewal thread, for every     *)
(* length of the lease, the margin, the retry pause and the promotion's    *)
(* extension.                                                              *)
(*                                                                         *)
(* LeaseKept is not inductive: a commit writes what the transaction asked  *)
(* for when it began, so the invariant has to say that what was asked for  *)
(* still covers every lease the process was told of, counted from the      *)
(* reading of the clock that each of the two threads started with.         *)
(***************************************************************************)

-----------------------------------------------------------------------------
(* The inductive invariant.                                                *)

\* The database's lease covers what was confirmed, and that covers what the
\* process believes; no belief outlives the last renewal_started by more than
\* a lease, but for an extension.
Confirmed ==
    /\ committed <= db
    /\ lease_end <= committed
    /\ until <= committed
    /\ committed <= Later(until, Left(Lease, begun))

\* Before the claim has committed nothing is believed, and no work is done
\* before the thread is started.
Unclaimed ==
    /\ handler = "claiming" => begun = since /\ until = 0 /\ committed = 0
    /\ handler \in {"claiming", "claimed"} => renewer = "unborn"
    /\ renewer = "unborn" => handler \in {"claiming", "claimed", "gone"}

\* What the thread's first statement is about to believe, however late it
\* runs, has been confirmed.
StartAsks ==
    EndUnknown /\ handler # "claiming" => Left(Lease, begun) <= committed

\* What a renewal asks for, less the time since its renewal_started, covers
\* an extension still known; and once it has committed, the database's lease
\* covers what the loop is about to confirm.
RenewalAsks ==
    /\ renewer = "begun" => until <= Left(Longest, begun)
    /\ renewer \in {"stamped", "owned"} =>
           asked >= Lease /\ stamped <= begun /\ until <= Left(asked, begun)
    /\ renewer = "renewed" => Left(Lease, begun) <= db

\* extend_lease reads its clock under the lock, after any renewal_started.
ExtensionAsks ==
    handler = "extending" =>
        /\ Extension > Lease
        /\ since <= begun
        /\ committed <= Left(Extension, since)

\* The lock keeps a source claim attached through a renewal's transaction.
SourceSteady ==
    renewer \in {"stamped", "owned"} /\ renewing => source = "attached"

LeaseInv ==
    /\ LeaseTypeOK
    /\ Confirmed
    /\ Unclaimed
    /\ StartAsks
    /\ RenewalAsks
    /\ ExtensionAsks
    /\ SourceSteady

-----------------------------------------------------------------------------
(* Counting ticks.                                                         *)

\* The constants and the counters are natural numbers.
LEMMA Bounds ==
    /\ Longest \in Nat /\ Lease <= Longest /\ Extension <= Longest
    /\ Extension \in Nat /\ Lease \in Nat /\ Lease > 0
    /\ Margin \in Nat /\ RetryPause \in Nat
  BY LeaseAssumption DEF Longest

LEMMA Counters ==
    ASSUME LeaseTypeOK
    PROVE  /\ {db, lease_end, until, committed, since, begun, stamped, asked}
                 \subseteq Nat
           /\ db <= Longest /\ lease_end <= Lease /\ until <= Longest
           /\ committed <= Longest /\ since <= Longest /\ begun <= Longest
           /\ stamped <= Longest /\ asked <= Longest
  BY Bounds DEF LeaseTypeOK, Ticks

LEMMA LeftIs ==
    ASSUME NEW total \in Nat, NEW passed \in Nat
    PROVE  /\ Left(total, passed) \in Nat
           /\ Left(total, passed) <= total
           /\ passed >= total => Left(total, passed) = 0
           /\ passed <= total => Left(total, passed) = total - passed
  BY DEF Left

\* A longer total leaves more, and a later start leaves more.
LEMMA LeftGrows ==
    ASSUME NEW a \in Nat, NEW b \in Nat, NEW p \in Nat, NEW q \in Nat,
           a <= b, q <= p
    PROVE  Left(a, p) <= Left(b, q)
  BY DEF Left

-----------------------------------------------------------------------------
(* Steps that move a thread and leave the leases alone.                    *)

\* The numbers.
counts == <<db, lease_end, until, committed, since, begun, stamped, asked>>

\* What the invariant says of the counters survives a step that changes none
\* of them and brings neither thread to a place with a claim on them.
LEMMA CountsStand ==
    ASSUME LeaseInv, UNCHANGED counts,
           handler' \in {handler} \cup (HandlerPc \ {"claiming", "claimed", "extending"}),
           handler = "claiming" => handler' = "claiming",
           \/ renewer' \in {renewer, "ended"}
           \/ renewer # "starting" /\ renewer' \in {"waiting", "locking"}
           \/ renewer = "unborn" /\ renewer' = "starting"
           \/ renewer = "stamped" /\ renewer' = "owned",
           handler' \in {"claiming", "claimed"} => renewer' = "unborn",
           renewer' = "unborn" => handler' \in {"claiming", "claimed", "gone"}
    PROVE  Confirmed' /\ Unclaimed' /\ StartAsks' /\ RenewalAsks' /\ ExtensionAsks'
  <1>1. /\ Confirmed /\ Unclaimed /\ StartAsks /\ RenewalAsks /\ ExtensionAsks
        /\ Left(Lease, begun)' = Left(Lease, begun)
        /\ Left(Extension, since)' = Left(Extension, since)
        /\ Left(asked, begun)' = Left(asked, begun)
        /\ Left(Longest, begun)' = Left(Longest, begun)
        /\ Later(until, Left(Lease, begun))' = Later(until, Left(Lease, begun))
    BY DEF LeaseInv, counts, Left, Later, Longest
  <1>2. Confirmed'
    BY <1>1 DEF Confirmed, counts
  <1>3. Unclaimed' /\ StartAsks'
    BY <1>1 DEF Unclaimed, StartAsks, EndUnknown, counts
  <1>4. RenewalAsks' /\ ExtensionAsks'
    BY <1>1 DEF RenewalAsks, ExtensionAsks, counts
  <1> QED BY <1>2, <1>3, <1>4

\* The handler moves.
LEMMA HandlerMoves ==
    ASSUME LeaseInv,
           StartUnit \/ EndUnit \/ TakeLock \/ EnterEffect \/ EndEffect
             \/ ExtendFails \/ AcquireSource \/ AttachSource \/ DetachSource
             \/ ReleaseSource \/ FinishTask \/ LeaveTask \/ RenewalJoined
             \/ DrainFails \/ RequestStop \/ MaintainExecution
    PROVE  LeaseInv'
  <1>1. LeaseTypeOK
    BY DEF LeaseInv
  <1>0. Unclaimed
    BY DEF LeaseInv
  <1>2. UNCHANGED counts
    BY DEF counts, local, handlerVars, renewerVars, StartUnit, EndUnit,
       TakeLock, EnterEffect, EndEffect, ExtendFails, AcquireSource,
       AttachSource, DetachSource, ReleaseSource, FinishTask, LeaveTask,
       RenewalJoined, DrainFails, RequestStop, MaintainExecution
  <1>3. /\ handler' \in {handler} \cup (HandlerPc \ {"claiming", "claimed", "extending"})
        /\ handler = "claiming" => handler' = "claiming"
        /\ \/ renewer' \in {renewer, "ended"}
           \/ renewer = "unborn" /\ renewer' = "starting"
        /\ renewer' \in RenewerPc
        /\ handler' \in {"claiming", "claimed"} => renewer' = "unborn"
        /\ renewer' = "unborn" => handler' \in {"claiming", "claimed", "gone"}
    BY <1>1, <1>0 DEF LeaseTypeOK, Unclaimed, RenewerPc, HandlerPc, renewerVars, handlerVars, StartUnit, EndUnit,
       TakeLock, EnterEffect, EndEffect, ExtendFails, AcquireSource,
       AttachSource, DetachSource, ReleaseSource, FinishTask, LeaveTask,
       RenewalJoined, DrainFails, RequestStop, MaintainExecution
  <1>4. Confirmed' /\ Unclaimed' /\ StartAsks' /\ RenewalAsks' /\ ExtensionAsks'
    BY <1>2, <1>3, CountsStand
  <1>5. /\ failed' \in BOOLEAN /\ finished' \in BOOLEAN /\ stop' \in BOOLEAN
        /\ renewing' = renewing
    BY <1>1, Zenon DEF LeaseTypeOK, flags, handlerVars, renewerVars, StartUnit,
       EndUnit, TakeLock, EnterEffect, EndEffect, ExtendFails, AcquireSource,
       AttachSource, DetachSource, ReleaseSource, FinishTask, LeaveTask,
       RenewalJoined, DrainFails, RequestStop, MaintainExecution
  <1>6. source' \in {"none", "held", "attached"}
    BY <1>1 DEF LeaseTypeOK, handlerVars, StartUnit, EndUnit,
       TakeLock, EnterEffect, EndEffect, ExtendFails, AcquireSource,
       AttachSource, DetachSource, ReleaseSource, FinishTask, LeaveTask,
       RenewalJoined, DrainFails, RequestStop, MaintainExecution
  <1>7. /\ lock' \in {"free", "handler", "renewer"}
        /\ lock' = "handler" <=>
              handler' \in {"locked", "effect", "extending", "promoting"}
        /\ lock' = "renewer" <=> renewer' \in {"begun", "stamped", "owned"}
    BY <1>0, <1>1 DEF LeaseTypeOK, Unclaimed, renewerVars, handlerVars, StartUnit,
       EndUnit, TakeLock, EnterEffect, EndEffect, ExtendFails, AcquireSource,
       AttachSource, DetachSource, ReleaseSource, FinishTask, LeaveTask,
       RenewalJoined, DrainFails, RequestStop, MaintainExecution
  <1>8. LeaseTypeOK'
    BY <1>1, <1>2, <1>3, <1>5, <1>6, <1>7
       DEF LeaseTypeOK, counts, HandlerPc, RenewerPc, Ticks
  <1>9. SourceSteady'
    BY <1>0, <1>1 DEF LeaseInv, LeaseTypeOK, Unclaimed, SourceSteady, renewerVars, handlerVars,
       StartUnit, EndUnit, TakeLock, EnterEffect, EndEffect, ExtendFails,
       AcquireSource, AttachSource, DetachSource, ReleaseSource, FinishTask,
       LeaveTask, RenewalJoined, DrainFails, RequestStop, MaintainExecution
  <1> QED BY <1>4, <1>8, <1>9 DEF LeaseInv

\* The renewal thread moves without a lease changing hands.
LEMMA RenewerMoves ==
    ASSUME LeaseInv,
           Pulse \/ RenewOwned \/ RenewTimeout \/ RenewActivation \/ RenewFails
             \/ (RenewBegin /\ ~MayDrain)
    PROVE  LeaseInv'
  <1>1. LeaseTypeOK
    BY DEF LeaseInv
  <1>2. UNCHANGED counts /\ UNCHANGED <<finished, stop, renewing, source, handler>>
    BY DEF counts, local, flags, handlerVars, Pulse, RenewOwned, RenewTimeout,
       RenewActivation, RenewFails, RenewBegin
  <1>3. /\ \/ renewer' \in {"waiting", "locking", "ended"}
           \/ renewer = "stamped" /\ renewer' = "owned"
        /\ renewer \notin {"unborn", "starting"} /\ renewer' # "unborn"
        /\ handler \notin {"claiming", "claimed"}
    BY <1>1 DEF LeaseInv, Unclaimed, Pulse, RenewOwned, RenewTimeout, RenewActivation, RenewFails,
       RenewBegin
  <1>4. Confirmed' /\ Unclaimed' /\ StartAsks' /\ RenewalAsks' /\ ExtensionAsks'
    BY <1>2, <1>3, CountsStand
  <1>5. failed' \in BOOLEAN
    BY <1>1, Zenon DEF LeaseTypeOK, flags, Pulse, RenewOwned, RenewTimeout,
       RenewActivation, RenewFails, RenewBegin
  <1>6. /\ lock' \in {"free", "handler", "renewer"}
        /\ lock' = "handler" <=>
              handler' \in {"locked", "effect", "extending", "promoting"}
        /\ lock' = "renewer" <=> renewer' \in {"begun", "stamped", "owned"}
    BY <1>1, <1>2 DEF LeaseTypeOK, Pulse, RenewOwned, RenewTimeout,
       RenewActivation, RenewFails, RenewBegin
  <1>7. LeaseTypeOK'
    BY <1>1, <1>2, <1>3, <1>5, <1>6 DEF LeaseTypeOK, counts, RenewerPc, Ticks
  <1>8. SourceSteady'
    BY <1>2, <1>3 DEF LeaseInv, SourceSteady
  <1> QED BY <1>4, <1>7, <1>8 DEF LeaseInv

-----------------------------------------------------------------------------
(* The claim and the extension.                                            *)

\* The claim's lease runs from its transaction, the process counts from
\* before it.
LEMMA ClaimHolds ==
    ASSUME LeaseInv, ClaimLease
    PROVE  LeaseInv'
  <1>1. LeaseTypeOK /\ Confirmed /\ Unclaimed
    BY DEF LeaseInv
  <1>2. PICK age \in 0..since : age < Lease /\ db' = Lease - age
    BY DEF ClaimLease
  <1>3. /\ handler = "claiming" /\ handler' = "claimed"
        /\ committed' = Left(Lease, since)
        /\ UNCHANGED <<lease_end, until, lock, flags, source, since, renewer,
                       begun, stamped, asked, renewing>>
    BY DEF ClaimLease, renewerVars
  <1>4. /\ begun = since /\ until = 0 /\ renewer = "unborn" /\ since \in Nat
        /\ lease_end = 0
    BY <1>1, <1>3, Counters DEF Unclaimed, Confirmed
  <1>5. /\ Left(Lease, since) \in 0..Lease /\ db' \in 0..Lease
        /\ Left(Lease, since) <= db'
    BY <1>2, <1>4, Bounds DEF Left
  <1>6. LeaseTypeOK'
    <2>1. db' \in Ticks /\ committed' \in Ticks /\ lease_end' \in 0..Lease
      BY <1>1, <1>3, <1>5, Bounds DEF Ticks, LeaseTypeOK
    <2>2. /\ until' \in Ticks /\ since' \in Ticks /\ begun' \in Ticks
          /\ stamped' \in Ticks /\ asked' \in Ticks
      BY <1>1, <1>3 DEF LeaseTypeOK, Ticks, Longest
    <2>3. {failed, finished, stop, renewing}' \subseteq BOOLEAN
      BY <1>1, <1>3 DEF LeaseTypeOK, flags
    <2>4. /\ source' \in {"none", "held", "attached"}
          /\ handler' \in HandlerPc /\ renewer' \in RenewerPc
          /\ lock' \in {"free", "handler", "renewer"}
          /\ lock' = "handler" <=>
               handler' \in {"locked", "effect", "extending", "promoting"}
          /\ lock' = "renewer" <=> renewer' \in {"begun", "stamped", "owned"}
      BY <1>1, <1>3, <1>4 DEF LeaseTypeOK, HandlerPc, RenewerPc
    <2> QED BY <2>1, <2>2, <2>3, <2>4 DEF LeaseTypeOK
  <1>7. Confirmed'
    BY <1>3, <1>4, <1>5 DEF Confirmed, Later, Left
  <1>8. StartAsks'
    <2>1. Left(Lease, begun)' = committed' /\ committed' \in Nat
      BY <1>3, <1>4, <1>5 DEF Left
    <2> QED BY <2>1 DEF StartAsks
  <1> QED BY <1>3, <1>4, <1>6, <1>7, <1>8 DEF LeaseInv, Unclaimed, RenewalAsks,
          ExtensionAsks, SourceSteady

\* extend_lease reads its clock under the lock.
LEMMA BeginExtendHolds ==
    ASSUME LeaseInv, BeginExtend
    PROVE  LeaseInv'
  <1>1. LeaseTypeOK /\ Confirmed
    BY DEF LeaseInv
  <1>2. /\ Extension > 0 /\ handler = "locked" /\ handler' = "extending"
        /\ since' = 0
        /\ UNCHANGED <<db, local, lock, flags, source, renewerVars>>
    BY DEF BeginExtend
  <1>3. /\ db' = db /\ lease_end' = lease_end /\ until' = until
        /\ committed' = committed /\ lock' = lock /\ source' = source
        /\ renewer' = renewer /\ begun' = begun /\ stamped' = stamped
        /\ asked' = asked /\ renewing' = renewing
        /\ failed' = failed /\ finished' = finished /\ stop' = stop
    BY <1>2 DEF local, flags, renewerVars
  <1>4. Extension > Lease /\ Longest = Extension
    BY <1>2, LeaseAssumption DEF Longest
  <1>5. LeaseTypeOK'
    <2>1. since' \in Ticks
      BY <1>2, Bounds DEF Ticks
    <2> QED BY <1>1, <1>2, <1>3, <2>1 DEF LeaseTypeOK, HandlerPc, Ticks, Longest
  <1>6. Confirmed'
    BY <1>1, <1>3 DEF Confirmed, Later, Left
  <1>7. RenewalAsks'
    BY <1>3 DEF LeaseInv, RenewalAsks, Left, Longest
  <1>8. ExtensionAsks'
    <2>1. committed <= Extension /\ begun \in Nat
      BY <1>1, <1>4, Counters
    <2> QED BY <1>2, <1>3, <1>4, <2>1, Bounds DEF ExtensionAsks, Left
  <1>9. StartAsks' /\ Unclaimed'
    BY <1>2, <1>3 DEF LeaseInv, StartAsks, EndUnknown, Unclaimed, Left
  <1> QED BY <1>2, <1>3, <1>5, <1>6, <1>7, <1>8, <1>9 DEF LeaseInv, SourceSteady

\* The extension commits: it is longer than whatever was confirmed before, by
\* either thread.
LEMMA ExtendHolds ==
    ASSUME LeaseInv, Extend
    PROVE  LeaseInv'
  <1>1. LeaseTypeOK /\ Confirmed /\ RenewalAsks /\ ExtensionAsks
    BY DEF LeaseInv
  <1>2. PICK age \in 0..since : db' = Left(Extension, age)
    BY DEF Extend
  <1> DEFINE known == Left(Extension, since)
  <1>3. /\ handler = "extending" /\ handler' = "promoting"
        /\ until' = Later(until, known) /\ committed' = Later(committed, known)
        /\ UNCHANGED <<lease_end, lock, flags, source, since, renewerVars>>
    BY DEF Extend
  <1>4. /\ lease_end' = lease_end /\ lock' = lock /\ source' = source
        /\ since' = since /\ renewer' = renewer /\ begun' = begun
        /\ stamped' = stamped /\ asked' = asked /\ renewing' = renewing
        /\ failed' = failed /\ finished' = finished /\ stop' = stop
    BY <1>3 DEF flags, renewerVars
  <1>5. Extension > Lease /\ since <= begun /\ committed <= known
    BY <1>1, <1>3 DEF ExtensionAsks
  <1>6. /\ {lease_end, until, committed, since, begun, known} \subseteq Nat
        /\ until <= committed /\ lease_end <= committed
    BY <1>1, Counters, Bounds, LeftIs DEF Confirmed
  <1>7. known <= db' /\ db' \in Nat /\ db' <= Extension /\ known <= Extension
    <2>1. age \in Nat /\ age <= since
      BY <1>6
    <2> QED BY <1>2, <1>6, <2>1, Bounds, LeftIs, LeftGrows
  <1>8. Left(Lease, begun) \in Nat /\ Left(Lease, begun) <= known
    BY <1>5, <1>6, Bounds DEF Left
  <1> HIDE DEF known
  <1>9. committed' = known /\ until' = known
    BY <1>3, <1>5, <1>6 DEF Later
  <1>10. renewer \notin {"begun", "stamped", "owned"}
    BY <1>1, <1>3 DEF LeaseTypeOK
  <1>11. LeaseTypeOK'
    <2>1. db' \in Ticks /\ until' \in Ticks /\ committed' \in Ticks
      BY <1>6, <1>7, <1>9, Bounds DEF Ticks
    <2> QED BY <1>1, <1>3, <1>4, <2>1 DEF LeaseTypeOK, HandlerPc, Ticks, Longest
  <1>12. Confirmed'
    BY <1>4, <1>5, <1>6, <1>7, <1>8, <1>9 DEF Confirmed, Later, Left
  <1>13. RenewalAsks'
    <2>1. Left(Lease, begun)' = Left(Lease, begun)
      BY <1>4 DEF Left
    <2>2. Left(Lease, begun)' <= db'
      BY <1>6, <1>7, <1>8, <2>1
    <2> QED BY <1>4, <1>10, <2>2 DEF RenewalAsks
  <1>14. StartAsks'
    BY <1>4, <1>8, <1>9 DEF StartAsks, Left
  <1> QED BY <1>3, <1>4, <1>10, <1>11, <1>12, <1>13, <1>14 DEF LeaseInv, Unclaimed,
          ExtensionAsks, SourceSteady

-----------------------------------------------------------------------------
(* The renewal.                                                            *)

\* The thread starts, at whatever time: the claim's lease, counted from before
\* the claim, has been confirmed.
LEMMA RenewerStartsHolds ==
    ASSUME LeaseInv, RenewerStarts
    PROVE  LeaseInv'
  <1>1. LeaseTypeOK /\ Confirmed /\ Unclaimed /\ StartAsks
    BY DEF LeaseInv
  <1>2. /\ renewer = "starting" /\ renewer' = "waiting"
        /\ lease_end' = Left(Lease, begun)
        /\ UNCHANGED <<db, until, committed, lock, flags, handlerVars, begun,
                       stamped, asked, renewing>>
    BY DEF RenewerStarts
  <1>3. /\ db' = db /\ until' = until /\ committed' = committed /\ lock' = lock
        /\ source' = source /\ handler' = handler /\ since' = since
        /\ begun' = begun /\ stamped' = stamped /\ asked' = asked
        /\ renewing' = renewing
        /\ failed' = failed /\ finished' = finished /\ stop' = stop
    BY <1>2 DEF flags, handlerVars
  <1>4. handler \notin {"claiming", "claimed"}
    BY <1>1, <1>2 DEF Unclaimed
  <1>5. /\ Left(Lease, begun) \in 0..Lease /\ Left(Lease, begun) <= committed
        /\ committed \in Nat
    BY <1>1, <1>2, <1>4, Counters, Bounds, LeftIs DEF StartAsks, EndUnknown
  <1>6. LeaseTypeOK'
    BY <1>1, <1>2, <1>3, <1>5 DEF LeaseTypeOK, RenewerPc, Ticks, Longest
  <1>7. Later(until, Left(Lease, begun))' = Later(until, Left(Lease, begun))
        /\ Left(Extension, since)' = Left(Extension, since)
    BY <1>3 DEF Later, Left
  <1>8. Confirmed'
    BY <1>1, <1>2, <1>3, <1>5, <1>7 DEF Confirmed
  <1> QED BY <1>2, <1>3, <1>4, <1>6, <1>7, <1>8 DEF LeaseInv, Unclaimed,
          StartAsks, EndUnknown, RenewalAsks, ExtensionAsks, SourceSteady

\* renewal_started is read under the lock.
LEMMA RenewBeginHolds ==
    ASSUME LeaseInv, RenewBegin, MayDrain
    PROVE  LeaseInv'
  <1>1. LeaseTypeOK /\ Confirmed /\ Unclaimed
    BY DEF LeaseInv
  <1>2. /\ renewer = "locking" /\ lock = "free" /\ lock' = "renewer"
        /\ renewer' = "begun" /\ begun' = 0
        /\ UNCHANGED <<db, local, failed, finished, stop, handlerVars, stamped,
                       asked, renewing>>
    BY DEF RenewBegin
  <1>3. /\ db' = db /\ lease_end' = lease_end /\ until' = until
        /\ committed' = committed /\ source' = source /\ handler' = handler
        /\ since' = since /\ stamped' = stamped /\ asked' = asked
        /\ renewing' = renewing
        /\ failed' = failed /\ finished' = finished /\ stop' = stop
    BY <1>2 DEF local, handlerVars
  <1>4. handler \notin {"claiming", "claimed", "extending"}
    BY <1>1, <1>2 DEF LeaseTypeOK, Unclaimed
  <1>5. LeaseTypeOK'
    <2>1. begun' \in Ticks
      BY <1>2, Bounds DEF Ticks
    <2>2. handler \notin {"locked", "effect", "extending", "promoting"}
      BY <1>1, <1>2 DEF LeaseTypeOK
    <2> QED BY <1>1, <1>2, <1>3, <2>1, <2>2 DEF LeaseTypeOK, RenewerPc, Ticks,
            Longest
  <1>6. /\ {until, committed, begun} \subseteq Nat /\ until <= Longest
        /\ committed <= Later(until, Left(Lease, begun))
    BY <1>1, Counters DEF Confirmed
  <1>7. Confirmed'
    BY <1>1, <1>2, <1>3, <1>6, Bounds DEF Confirmed, Later, Left
  <1>8. RenewalAsks'
    BY <1>2, <1>3, <1>6, Bounds DEF RenewalAsks, Left, Longest
  <1> QED BY <1>2, <1>3, <1>4, <1>5, <1>7, <1>8 DEF LeaseInv, Unclaimed,
          StartAsks, EndUnknown, ExtensionAsks, SourceSteady

\* _renewed_seconds asks for at least a lease, and for all of an extension it
\* does not forget; one it forgets is no longer than the lease.
LEMMA RenewStampHolds ==
    ASSUME LeaseInv, RenewStamp
    PROVE  LeaseInv'
  <1>1. LeaseTypeOK /\ Confirmed /\ Unclaimed /\ RenewalAsks
    BY DEF LeaseInv
  <1> DEFINE left == IF until = 0 THEN 0 ELSE until + begun
  <1>2. /\ renewer = "begun" /\ renewer' = "stamped" /\ stamped' = 0
        /\ IF left <= Lease THEN asked' = Lease /\ until' = 0
                            ELSE asked' = left /\ until' = until
        /\ renewing' = (source = "attached")
        /\ UNCHANGED <<db, lease_end, committed, lock, flags, handlerVars, begun>>
    BY DEF RenewStamp
  <1>3. /\ db' = db /\ lease_end' = lease_end /\ committed' = committed
        /\ lock' = lock /\ source' = source /\ handler' = handler
        /\ since' = since /\ begun' = begun
        /\ failed' = failed /\ finished' = finished /\ stop' = stop
    BY <1>2 DEF flags, handlerVars
  <1>4. handler \notin {"claiming", "claimed", "extending"}
    BY <1>1, <1>2 DEF LeaseTypeOK, Unclaimed
  <1>5. /\ {db, lease_end, until, committed, begun} \subseteq Nat
        /\ until <= Left(Longest, begun) /\ begun <= Longest
        /\ committed <= Later(until, Left(Lease, begun))
        /\ committed <= db /\ lease_end <= committed /\ until <= committed
    BY <1>1, <1>2, Counters DEF RenewalAsks, Confirmed
  <1>6. until + begun <= Longest
    BY <1>5, Bounds, LeftIs
  <1>7. /\ asked' \in Nat /\ asked' <= Longest /\ asked' >= Lease
        /\ until' \in Nat /\ until' <= until /\ until' <= Left(asked', begun)
        /\ committed <= Later(until', Left(Lease, begun))
    <2>1. CASE left <= Lease
      BY <1>2, <1>5, <2>1, Bounds DEF Left, Later
    <2>2. CASE ~(left <= Lease)
      BY <1>2, <1>5, <1>6, <2>2, Bounds DEF Left, Later
    <2> QED BY <2>1, <2>2
  <1> HIDE DEF left
  <1>8. LeaseTypeOK'
    <2>1. asked' \in Ticks /\ stamped' \in Ticks /\ until' \in Ticks
      BY <1>2, <1>5, <1>7, Bounds, Counters, <1>1 DEF Ticks
    <2>2. renewing' \in BOOLEAN
      BY <1>2
    <2>3. /\ handler' \notin {"locked", "effect", "extending", "promoting"}
          /\ lock' = "renewer"
      BY <1>1, <1>2, <1>3 DEF LeaseTypeOK
    <2>4. {failed, finished, stop, renewing}' \subseteq BOOLEAN
      BY <1>1, <1>3, <2>2 DEF LeaseTypeOK
    <2> QED BY <1>1, <1>2, <1>3, <2>1, <2>3, <2>4 DEF LeaseTypeOK, RenewerPc,
            Ticks, Longest
  <1>9. Confirmed'
    <2>1. Later(until, Left(Lease, begun))' = Later(until', Left(Lease, begun))
      BY <1>3 DEF Later, Left
    <2> QED BY <1>3, <1>5, <1>7, <2>1 DEF Confirmed
  <1>10. RenewalAsks'
    <2>1. Left(asked, begun)' = Left(asked', begun)
      BY <1>3 DEF Left
    <2> QED BY <1>2, <1>3, <1>5, <1>7, <2>1 DEF RenewalAsks
  <1>11. SourceSteady'
    BY <1>2, <1>3 DEF SourceSteady
  <1> QED BY <1>2, <1>3, <1>4, <1>8, <1>9, <1>10, <1>11 DEF LeaseInv, Unclaimed,
          StartAsks, EndUnknown, ExtensionAsks

\* What the transaction asked for, counted from its later start, covers what
\* the process believes.
LEMMA RenewCommitHolds ==
    ASSUME LeaseInv, RenewCommit
    PROVE  LeaseInv'
  <1>1. LeaseTypeOK /\ Confirmed /\ Unclaimed /\ RenewalAsks
    BY DEF LeaseInv
  <1>2. /\ renewer = "owned" /\ renewer' = "renewed" /\ lock' = "free"
        /\ db' = Left(asked, stamped)
        /\ UNCHANGED <<local, flags, handlerVars, begun, stamped, asked,
                       renewing>>
    BY DEF RenewCommit
  <1>3. /\ lease_end' = lease_end /\ until' = until /\ committed' = committed
        /\ source' = source /\ handler' = handler /\ since' = since
        /\ begun' = begun /\ stamped' = stamped /\ asked' = asked
        /\ renewing' = renewing
        /\ failed' = failed /\ finished' = finished /\ stop' = stop
    BY <1>2 DEF local, flags, handlerVars
  <1>4. handler \notin {"claiming", "claimed", "locked", "effect", "extending", "promoting"}
    BY <1>1, <1>2 DEF LeaseTypeOK, Unclaimed
  <1>5. /\ {lease_end, until, committed, begun, stamped, asked} \subseteq Nat
        /\ asked >= Lease /\ stamped <= begun /\ until <= Left(asked, begun)
        /\ committed <= Later(until, Left(Lease, begun)) /\ asked <= Longest
        /\ lease_end <= committed /\ until <= committed
    BY <1>1, <1>2, Counters DEF RenewalAsks, Confirmed
  <1>6. /\ db' \in Nat /\ db' <= Longest
        /\ committed <= db' /\ Left(Lease, begun) <= db'
    BY <1>2, <1>5, Bounds DEF Left, Later
  <1>7. LeaseTypeOK'
    <2>1. db' \in Ticks
      BY <1>6, Bounds DEF Ticks
    <2> QED BY <1>1, <1>2, <1>3, <1>4, <2>1 DEF LeaseTypeOK, RenewerPc, Ticks,
            Longest
  <1>8. Later(until, Left(Lease, begun))' = Later(until, Left(Lease, begun))
        /\ Left(Lease, begun)' = Left(Lease, begun)
    BY <1>3 DEF Later, Left
  <1>9. Confirmed'
    BY <1>3, <1>5, <1>6, <1>8 DEF Confirmed
  <1>10. RenewalAsks'
    BY <1>2, <1>6, <1>8 DEF RenewalAsks
  <1> QED BY <1>2, <1>3, <1>4, <1>7, <1>9, <1>10 DEF LeaseInv, Unclaimed,
          StartAsks, EndUnknown, ExtensionAsks, SourceSteady

\* The loop confirms the lease as of renewal_started, which may be while the
\* handler already waits for an extension.
LEMMA RenewConfirmHolds ==
    ASSUME LeaseInv, RenewConfirm
    PROVE  LeaseInv'
  <1>1. LeaseTypeOK /\ Confirmed /\ Unclaimed /\ RenewalAsks /\ ExtensionAsks
    BY DEF LeaseInv
  <1> DEFINE known == Left(Lease, begun)
  <1>2. /\ renewer = "renewed" /\ renewer' \in {"ended", "waiting"}
        /\ lease_end' = known /\ committed' = Later(committed, known)
        /\ UNCHANGED <<db, until, lock, flags, handlerVars, begun, stamped,
                       asked, renewing>>
    BY DEF RenewConfirm
  <1>3. /\ db' = db /\ until' = until /\ lock' = lock
        /\ source' = source /\ handler' = handler /\ since' = since
        /\ begun' = begun /\ stamped' = stamped /\ asked' = asked
        /\ renewing' = renewing
        /\ failed' = failed /\ finished' = finished /\ stop' = stop
    BY <1>2 DEF flags, handlerVars
  <1>4. /\ {db, until, committed, begun, since} \subseteq Nat /\ db <= Longest
        /\ known \in Nat /\ known <= Lease /\ known <= db
        /\ committed <= db /\ until <= committed
        /\ committed <= Later(until, known)
    BY <1>1, <1>2, Counters, Bounds, LeftIs DEF RenewalAsks, Confirmed
  <1>5. handler = "extending" => /\ Extension > Lease /\ since <= begun
                                 /\ committed <= Left(Extension, since)
                                 /\ known <= Left(Extension, since)
    BY <1>1, <1>4, Bounds DEF ExtensionAsks, Left
  <1>6. known' = known /\ Left(Extension, since)' = Left(Extension, since)
    BY <1>3 DEF Left
  <1> HIDE DEF known
  <1>7. /\ committed' \in Nat /\ committed' <= db /\ known <= committed'
        /\ until <= committed' /\ committed' <= Later(until, known)
        /\ committed' \in {committed, known}
    BY <1>2, <1>4 DEF Later
  <1>8. LeaseTypeOK'
    <2>1. committed' \in Ticks /\ lease_end' \in 0..Lease
      BY <1>2, <1>4, <1>7, Bounds DEF Ticks
    <2> QED BY <1>1, <1>2, <1>3, <2>1 DEF LeaseTypeOK, RenewerPc, Ticks, Longest
  <1>9. Confirmed'
    <2>1. Later(until, Left(Lease, begun))' = Later(until, known)
      BY <1>3, <1>6 DEF Later, known
    <2> QED BY <1>2, <1>3, <1>7, <2>1 DEF Confirmed
  <1>10. ExtensionAsks'
    BY <1>3, <1>5, <1>6, <1>7 DEF ExtensionAsks
  <1>11. handler \notin {"claiming", "claimed"}
    BY <1>1, <1>2 DEF Unclaimed
  <1> QED BY <1>2, <1>3, <1>8, <1>9, <1>10, <1>11 DEF LeaseInv, Unclaimed,
          StartAsks, EndUnknown, RenewalAsks, SourceSteady

-----------------------------------------------------------------------------
(* Time.                                                                   *)

\* A tick takes one from every deadline, and from what is left of each since
\* its clock was read.
LEMMA LeaseTickHolds ==
    ASSUME LeaseInv, LeaseTick
    PROVE  LeaseInv'
  <1>1. /\ LeaseTypeOK /\ Confirmed /\ Unclaimed /\ StartAsks /\ RenewalAsks
        /\ ExtensionAsks
    BY DEF LeaseInv
  <1>2. /\ db' = Left(db, 1) /\ lease_end' = Left(lease_end, 1)
        /\ until' = Left(until, 1) /\ committed' = Left(committed, 1)
        /\ since' = Passed(since) /\ begun' = Passed(begun)
        /\ stamped' = Passed(stamped)
        /\ UNCHANGED <<lock, source, handler, renewer, asked, renewing>>
        /\ failed' = failed /\ finished' = finished /\ stop' = stop
    BY DEF LeaseTick, flags
  <1>3. /\ {db, lease_end, until, committed, since, begun, stamped, asked}
              \subseteq Nat
        /\ db <= Longest /\ lease_end <= Lease /\ until <= Longest
        /\ committed <= Longest /\ since <= Longest /\ begun <= Longest
        /\ stamped <= Longest /\ asked <= Longest
    BY <1>1, Counters
  <1>4. Longest' = Longest
    BY DEF Longest
  <1>5. LeaseTypeOK'
    <2>1. /\ db' \in Ticks /\ until' \in Ticks /\ committed' \in Ticks
          /\ lease_end' \in 0..Lease
      BY <1>2, <1>3, Bounds DEF Ticks, Left
    <2>2. since' \in Ticks /\ begun' \in Ticks /\ stamped' \in Ticks
      BY <1>2, <1>3, Bounds DEF Ticks, Passed
    <2> QED BY <1>1, <1>2, <2>1, <2>2 DEF LeaseTypeOK, Ticks, Longest
  <1>6. Confirmed'
    <2>1. committed' <= db' /\ lease_end' <= committed' /\ until' <= committed'
      BY <1>1, <1>2, <1>3 DEF Confirmed, Left
    <2>2. committed' <= Later(until', Left(Lease, begun'))
      BY <1>1, <1>2, <1>3, Bounds DEF Confirmed, Left, Later, Passed
    <2> QED BY <2>1, <2>2 DEF Confirmed, Later, Left
  <1>7. Unclaimed' /\ StartAsks'
    <2>1. Unclaimed'
      BY <1>1, <1>2, <1>3 DEF Unclaimed, Left
    <2>2. ASSUME EndUnknown, handler # "claiming"
          PROVE  Left(Lease, begun') <= committed'
      BY <1>1, <1>2, <1>3, <2>2, Bounds DEF StartAsks, Left, Passed
    <2> QED BY <1>2, <2>1, <2>2 DEF StartAsks, EndUnknown, Left
  <1>8. RenewalAsks'
    <2>1. ASSUME renewer = "begun"
          PROVE  until' <= Left(Longest, begun')
      BY <1>1, <1>2, <1>3, <2>1, Bounds DEF RenewalAsks, Left, Passed
    <2>2. ASSUME renewer \in {"stamped", "owned"}
          PROVE  /\ asked >= Lease /\ stamped' <= begun'
                 /\ until' <= Left(asked, begun')
      BY <1>1, <1>2, <1>3, <2>2, Bounds DEF RenewalAsks, Left, Passed
    <2>3. ASSUME renewer = "renewed"
          PROVE  Left(Lease, begun') <= db'
      BY <1>1, <1>2, <1>3, <2>3, Bounds DEF RenewalAsks, Left, Passed
    <2> QED BY <1>2, <1>4, <2>1, <2>2, <2>3 DEF RenewalAsks, Left
  <1>9. ExtensionAsks'
    <2>1. ASSUME handler = "extending"
          PROVE  /\ Extension > Lease /\ since' <= begun'
                 /\ committed' <= Left(Extension, since')
      BY <1>1, <1>2, <1>3, <2>1, Bounds DEF ExtensionAsks, Left, Passed
    <2> QED BY <1>2, <2>1 DEF ExtensionAsks, Left
  <1>10. SourceSteady'
    BY <1>2 DEF LeaseInv, SourceSteady
  <1> QED BY <1>5, <1>6, <1>7, <1>8, <1>9, <1>10 DEF LeaseInv

-----------------------------------------------------------------------------
(* The invariant, and what it gives.                                       *)

LEMMA LeaseInitHolds ==
    ASSUME LeaseInit
    PROVE  LeaseInv
  <1>1. LeaseTypeOK
    <2>1. 0 \in Ticks /\ 0 \in 0..Lease
      BY Bounds DEF Ticks
    <2> QED BY <2>1 DEF LeaseInit, LeaseTypeOK, HandlerPc, RenewerPc
  <1>2. Confirmed
    BY Bounds DEF LeaseInit, Confirmed, Later, Left
  <1> QED BY <1>1, <1>2 DEF LeaseInit, LeaseInv, Unclaimed, StartAsks,
          RenewalAsks, ExtensionAsks, SourceSteady

LEMMA LeaseNextHolds ==
    ASSUME LeaseInv, [LeaseNext]_leaseVars
    PROVE  LeaseInv'
  <1>1. CASE HandlerStep
    BY <1>1, HandlerMoves, ClaimHolds, BeginExtendHolds, ExtendHolds
       DEF HandlerStep
  <1>2. CASE RenewerStep
    BY <1>2, RenewerMoves, RenewerStartsHolds, RenewBeginHolds, RenewStampHolds, RenewCommitHolds,
       RenewConfirmHolds DEF RenewerStep
  <1>3. CASE RequestStop \/ LeaseTick
    BY <1>3, HandlerMoves, LeaseTickHolds
  <1>4. CASE UNCHANGED leaseVars
    <2>1. /\ UNCHANGED counts /\ handler' = handler /\ renewer' = renewer
          /\ source' = source /\ renewing' = renewing /\ lock' = lock
          /\ failed' = failed /\ finished' = finished /\ stop' = stop
      BY <1>4 DEF leaseVars, counts, local, flags, handlerVars, renewerVars
    <2>2. Confirmed' /\ Unclaimed' /\ StartAsks' /\ RenewalAsks' /\ ExtensionAsks'
      BY <2>1, CountsStand DEF LeaseInv, Unclaimed
    <2>3. LeaseTypeOK' /\ SourceSteady'
      BY <2>1 DEF LeaseInv, LeaseTypeOK, SourceSteady, counts, Ticks, Longest
    <2> QED BY <2>2, <2>3 DEF LeaseInv
  <1> QED BY <1>1, <1>2, <1>3, <1>4 DEF LeaseNext

LEMMA LeaseInvIsSafe ==
    ASSUME LeaseInv
    PROVE  LeaseSafe
  <1>1. /\ {db, lease_end, until, committed} \subseteq Nat
        /\ committed <= db /\ lease_end <= committed /\ until <= committed
    BY Counters DEF LeaseInv, Confirmed
  <1>2. WorkCovered
    BY <1>1 DEF WorkCovered, Executing, MayStart, LeaseExpired, EndUnknown, Later
  <1>3. LeaseKept /\ SourceNotRevived
    BY <1>1 DEF LeaseInv, LeaseKept, SourceSteady, SourceNotRevived
  <1> QED BY <1>2, <1>3 DEF LeaseInv, LeaseSafe

\* The inductive invariant of the lease holds in every reachable state.
THEOREM LeaseInvariant == LeaseSpec => []LeaseInv
  <1>1. LeaseInit => LeaseInv
    BY LeaseInitHolds
  <1>2. LeaseInv /\ [LeaseNext]_leaseVars => LeaseInv'
    BY LeaseNextHolds
  <1> QED BY <1>1, <1>2, PTL DEF LeaseSpec

\* ExecutionControl.check and the renewal loop, for every length of lease,
\* margin, pause and extension, however late the thread starts and whatever it
\* waits for: once it has run its first statements nothing new starts that the
\* committed lease no longer covers (before them check() knows of no lease:
\* HardLocalBound), no renewal shortens a lease the process was told it has,
\* and no renewal finds its source claim released under it.
THEOREM LeaseIsSafe == LeaseSpec => []LeaseSafe
  <1>1. LeaseInv => LeaseSafe
    BY LeaseInvIsSafe
  <1> QED BY <1>1, LeaseInvariant, PTL

-----------------------------------------------------------------------------
(***************************************************************************)
(* A stop of Family mail is shared by the container's two processes and    *)
(* lifted only by its own clear, for any number of halts, clears, restarts *)
(* and failed file operations.                                             *)
(***************************************************************************)

-----------------------------------------------------------------------------
(* The inductive invariant.                                                *)

Made == 1..made \cup {NoHalt}

\* Identities are made one after another, and every one in use was made.
Numbered ==
    /\ made \in 0..MaxHalts /\ markerFaults \in Nat /\ restarts \in Nat
    /\ marker \in Made /\ written \subseteq 1..made
    /\ \A c \in Consumer :
           mine[c] \in Made /\ aside[c] \in Made /\ circuit[c].halt \in Made

Lifting == {"rename", "inspect", "putback"}

\* A process that shares a stop has no halt yet; one that lifts a halt has
\* read its clear.
PlaceOK(c) ==
    /\ pc[c] \in {"claim", "held", "write"} =>
           circuit[c].stopped /\ circuit[c].halt = NoHalt
    /\ pc[c] \in Lifting => ~circuit[c].stopped /\ mine[c] \in cleared

\* An identity that is being written is nobody's halt yet, and no file's.
WritingOK(c) ==
    pc[c] = "write" =>
        /\ mine[c] # NoHalt
        /\ mine[c] \notin written \cup recorded
        /\ \A d \in Consumer :
               /\ circuit[d].halt # mine[c]
               /\ d # c /\ pc[d] = "write" => mine[d] # mine[c]

\* A halt that c is held by, or is sharing, and that nobody has cleared.
Holds(c, h) ==
    \/ circuit[c].halt = h /\ h \notin cleared
    \/ pc[c] = "write" /\ mine[c] = h

\* Its marker is in place, or the other process has it aside and nothing has
\* taken its place.
InPlace(c, h) ==
    \/ marker = h
    \/ marker = NoHalt /\ \E d \in Consumer \ {c} : aside[d] = h

MarkersKept ==
    markerFaults = 0 => \A c \in Consumer, h \in Halt : Holds(c, h) => InPlace(c, h)

CircuitInv ==
    /\ CircuitTypeOK
    /\ Numbered
    /\ \A c \in Consumer : PlaceOK(c) /\ WritingOK(c)
    /\ MarkersKept

-----------------------------------------------------------------------------
(* One process's own fields.                                               *)

Circuits ==
    [stopped : BOOLEAN, halted : BOOLEAN, failures : 0..3, cooling : BOOLEAN,
     paused : BOOLEAN, limited : BOOLEAN, halt : MaybeHalt]

\* The part of CircuitTypeOK about one process.
OwnOK(c) ==
    /\ circuit[c].stopped => circuit[c].halted /\ pc[c] # "sending"
    /\ circuit[c].halt # NoHalt => circuit[c].stopped
    /\ (aside[c] # NoHalt) <=> (pc[c] \in {"inspect", "putback"})

LEMMA TypeParts ==
    CircuitTypeOK <=> /\ circuit \in [Consumer -> Circuits]
                      /\ pc \in [Consumer -> Pc]
                      /\ mine \in [Consumer -> MaybeHalt]
                      /\ marker \in MaybeHalt
                      /\ aside \in [Consumer -> MaybeHalt]
                      /\ written \subseteq Halt
                      /\ recorded \subseteq 1..made
                      /\ cleared \subseteq recorded
                      /\ \A c \in Consumer : OwnOK(c)
    BY Zenon DEF CircuitTypeOK, Circuits, OwnOK

LEMMA TypePartsNext ==
    CircuitTypeOK' <=> /\ circuit' \in [Consumer -> Circuits]
                       /\ pc' \in [Consumer -> Pc]
                       /\ mine' \in [Consumer -> MaybeHalt]
                       /\ marker' \in MaybeHalt
                       /\ aside' \in [Consumer -> MaybeHalt]
                       /\ written' \subseteq Halt
                       /\ recorded' \subseteq 1..made'
                       /\ cleared' \subseteq recorded'
                       /\ \A c \in Consumer : OwnOK(c)'
    BY Zenon DEF CircuitTypeOK, Circuits, OwnOK

LEMMA Becoming ==
    ASSUME CircuitTypeOK, NEW c \in Consumer, NEW s \in Circuits, Become(c, s)
    PROVE  /\ circuit' \in [Consumer -> Circuits] /\ circuit'[c] = s
           /\ \A d \in Consumer \ {c} : circuit'[d] = circuit[d]
    BY TypeParts DEF Become

LEMMA Going ==
    ASSUME CircuitTypeOK, NEW c \in Consumer, NEW place \in Pc, Goto(c, place)
    PROVE  /\ pc' \in [Consumer -> Pc] /\ pc'[c] = place
           /\ \A d \in Consumer \ {c} : pc'[d] = pc[d]
    BY TypeParts DEF Goto

\* A process moves between places where it shares nothing.
LEMMA OwnKeeps ==
    ASSUME CircuitInv, NEW c \in Consumer,
           circuit' \in [Consumer -> Circuits], pc' \in [Consumer -> Pc],
           \A d \in Consumer \ {c} : circuit'[d] = circuit[d] /\ pc'[d] = pc[d],
           UNCHANGED <<mine, files, made, tables, restarts, markerFaults>>,
           circuit'[c].halt = circuit[c].halt,
           circuit[c].stopped => circuit'[c].stopped,
           circuit'[c].stopped => circuit'[c].halted /\ pc'[c] # "sending",
           pc'[c] \in {"claim", "held"} =>
               circuit'[c].stopped /\ circuit'[c].halt = NoHalt,
           pc[c] \in {"write"} \cup Lifting \/ pc'[c] \in {"write"} \cup Lifting =>
               pc'[c] = pc[c] /\ circuit'[c].stopped = circuit[c].stopped
    PROVE  CircuitInv'
    <1>1. CircuitTypeOK /\ Numbered BY DEF CircuitInv
    <1>2. CircuitTypeOK'
        <2>1. \A d \in Consumer : OwnOK(d)
            BY <1>1, TypeParts
        <2>2. \A d \in Consumer : OwnOK(d)'
            BY <2>1 DEF OwnOK, Lifting, files
        <2> QED BY <1>1, <2>2, TypeParts, TypePartsNext DEF files, tables
    <1>3. Numbered' BY <1>1 DEF Numbered, Made, files
    <1>4. ASSUME NEW d \in Consumer PROVE PlaceOK(d)' /\ WritingOK(d)'
        <2>1. PlaceOK(d) /\ WritingOK(d) BY DEF CircuitInv
        <2>2. \A e \in Consumer : circuit'[e].halt = circuit[e].halt
            OBVIOUS
        <2>3. \A e \in Consumer : pc'[e] = "write" <=> pc[e] = "write"
            OBVIOUS
        <2>4. PlaceOK(d)' BY <2>1, <2>2 DEF PlaceOK, Lifting, tables
        <2>5. WritingOK(d)' BY <2>1, <2>2, <2>3 DEF WritingOK, files, tables
        <2> QED BY <2>4, <2>5
    <1>5. MarkersKept'
        <2>1. \A d \in Consumer, h \in Halt : Holds(d, h)' => Holds(d, h)
            BY DEF Holds, tables
        <2>2. \A d \in Consumer, h \in Halt : InPlace(d, h) => InPlace(d, h)'
            BY DEF InPlace, files
        <2> QED BY <2>1, <2>2 DEF CircuitInv, MarkersKept
    <1> QED BY <1>2, <1>3, <1>4, <1>5 DEF CircuitInv

-----------------------------------------------------------------------------
(* Steps of one process alone.                                             *)

LEMMA MinTyped ==
    ASSUME NEW n \in 0..3 PROVE Min({3, n + 1}) \in 0..3
    <1>1. CASE n = 3
        <2>1. \E x \in {3, n + 1} : \A y \in {3, n + 1} : x <= y BY <1>1
        <2>2. \A x \in {3, n + 1} : (\A y \in {3, n + 1} : x <= y) => x = 3 BY <1>1
        <2> QED BY <2>1, <2>2 DEF Min
    <1>2. CASE n # 3
        <2>1. n + 1 \in 0..3 BY <1>2
        <2>2. Min({3, n + 1}) \in {3, n + 1}
            <3>1. \E x \in {3, n + 1} : \A y \in {3, n + 1} : x <= y BY <2>1
            <3> QED BY <3>1 DEF Min
        <2> QED BY <2>1, <2>2
    <1> QED BY <1>1, <1>2

LEMMA AdmitKeeps ==
    ASSUME CircuitInv, NEW c \in Consumer, Admit(c) PROVE CircuitInv'
    <1>1. CircuitTypeOK BY DEF CircuitInv
    <1>2. circuit[c] \in Circuits /\ pc[c] = "idle" /\ OwnOK(c)
        BY <1>1, TypeParts DEF Admit
    <1>3. PICK s \in {Recovered(circuit[c])} :
              /\ Become(c, s)
              /\ \/ UNCHANGED pc
                 \/ Goto(c, "sending") /\ ~s.halted
        BY DEF Admit
    <1>4. /\ s \in Circuits /\ s.halt = circuit[c].halt /\ s.stopped = circuit[c].stopped
          /\ circuit[c].stopped => s.halted
        <2>1. CASE s = circuit[c] BY <1>2, <2>1 DEF OwnOK
        <2>2. CASE /\ s = [circuit[c] EXCEPT !.halted = FALSE, !.failures = 2,
                                             !.cooling = FALSE]
                   /\ ~circuit[c].stopped
            <3>1. 2 \in 0..3 /\ FALSE \in BOOLEAN OBVIOUS
            <3>2. s \in Circuits BY <1>2, <2>2, <3>1 DEF Circuits
            <3>3. s.halt = circuit[c].halt /\ s.stopped = circuit[c].stopped
                BY <1>2, <2>2 DEF Circuits
            <3> QED BY <2>2, <3>2, <3>3
        <2> QED BY <1>3, <2>1, <2>2 DEF Recovered
    <1>5. /\ circuit' \in [Consumer -> Circuits] /\ circuit'[c] = s
          /\ \A d \in Consumer \ {c} : circuit'[d] = circuit[d]
        BY <1>1, <1>3, <1>4, Becoming
    <1>6. /\ pc' \in [Consumer -> Pc]
          /\ pc'[c] = "idle" \/ (pc'[c] = "sending" /\ ~s.halted)
          /\ \A d \in Consumer \ {c} : pc'[d] = pc[d]
        <2>1. CASE UNCHANGED pc BY <1>1, <1>2, <2>1, TypeParts
        <2>2. CASE Goto(c, "sending") /\ ~s.halted
            <3>1. "sending" \in Pc BY DEF Pc
            <3> QED BY <1>1, <2>2, <3>1, Going
        <2> QED BY <1>3, <2>1, <2>2
    <1>7. UNCHANGED <<mine, files, made, tables, restarts, markerFaults>> BY DEF Admit
    <1> QED BY <1>2, <1>4, <1>5, <1>6, <1>7, OwnKeeps DEF Lifting

LEMMA ObserveKeeps ==
    ASSUME CircuitInv, NEW c \in Consumer, NEW health \in Health, NEW limit \in BOOLEAN,
           Observe(c, health, limit)
    PROVE  CircuitInv'
    <1>1. CircuitTypeOK BY DEF CircuitInv
    <1>2. circuit[c] \in Circuits /\ pc[c] = "sending" /\ OwnOK(c)
        BY <1>1, TypeParts DEF Observe
    <1>3. ~circuit[c].stopped /\ circuit[c].halt = NoHalt BY <1>2 DEF OwnOK
    <1> DEFINE s == Counted(circuit[c], health)
               t == Reacted(s, health)
               u == [t EXCEPT !.limited = t.limited \/ limit]
    <1>4. s \in Circuits /\ s.halt = NoHalt /\ ~s.stopped
        <2>1. Min({3, circuit[c].failures + 1}) \in 0..3
            BY <1>2, MinTyped DEF Circuits
        <2>2. \A n \in 0..3, b \in BOOLEAN :
                  /\ [circuit[c] EXCEPT !.failures = n, !.cooling = b] \in Circuits
                  /\ [circuit[c] EXCEPT !.failures = n, !.cooling = b].halt = NoHalt
                  /\ ~[circuit[c] EXCEPT !.failures = n, !.cooling = b].stopped
            BY <1>2, <1>3 DEF Circuits
        <2>3. CASE health = "unobserved"
            <3>1. s = circuit[c] BY <2>3 DEF Counted
            <3> HIDE DEF s
            <3> QED BY <1>2, <1>3, <3>1
        <2>4. CASE health = "unavailable"
            <3>1. s = [circuit[c] EXCEPT !.failures = Min({3, circuit[c].failures + 1}),
                                         !.cooling = TRUE]
                BY <2>4 DEF Counted
            <3> HIDE DEF s
            <3> QED BY <2>1, <2>2, <3>1, Zenon
        <2>5. CASE health \notin {"unobserved", "unavailable"}
            <3>1. s = [circuit[c] EXCEPT !.failures = 0, !.cooling = FALSE]
                BY <2>5 DEF Counted
            <3>2. 0 \in 0..3 OBVIOUS
            <3> HIDE DEF s
            <3> QED BY <2>2, <3>1, <3>2, Zenon
        <2> QED BY <2>3, <2>4, <2>5
    <1> HIDE DEF s
    <1>5. /\ t \in Circuits /\ t.halt = NoHalt
          /\ t.stopped => t.halted
          /\ health = "systemic" => t.stopped
          /\ health # "systemic" => ~t.stopped
        <2>1. \A b \in BOOLEAN :
                  LET x == [s EXCEPT !.halted = TRUE, !.paused = b, !.stopped = TRUE]
                  IN x \in Circuits /\ x.halt = NoHalt /\ x.halted /\ x.stopped
            BY <1>4 DEF Circuits
        <2>2. \A b \in BOOLEAN :
                  LET x == [s EXCEPT !.halted = TRUE, !.paused = b, !.stopped = FALSE]
                  IN x \in Circuits /\ x.halt = NoHalt /\ x.halted /\ ~x.stopped
            BY <1>4 DEF Circuits
        <2>3. CASE Tripped(s, health)
            <3>1. s.stopped = FALSE BY <1>4 DEF Circuits
            <3>2. PICK b \in BOOLEAN : b = (s.paused \/ ~s.halted) OBVIOUS
            <3>3. t = [s EXCEPT !.halted = TRUE, !.paused = b,
                                !.stopped = s.stopped \/ health = "systemic"]
                BY <2>3, <3>2, Zenon DEF Reacted
            <3>4. CASE health = "systemic"
                <4>1. (s.stopped \/ health = "systemic") = TRUE BY <3>4
                <4>2. t = [s EXCEPT !.halted = TRUE, !.paused = b, !.stopped = TRUE]
                    BY <3>3, <4>1, Zenon
                <4> HIDE DEF t
                <4> QED BY <2>1, <3>4, <4>2, Zenon
            <3>5. CASE health # "systemic"
                <4>1. (s.stopped \/ health = "systemic") = FALSE BY <3>1, <3>5
                <4>2. t = [s EXCEPT !.halted = TRUE, !.paused = b, !.stopped = FALSE]
                    BY <3>3, <4>1, Zenon
                <4> HIDE DEF t
                <4> QED BY <2>2, <3>5, <4>2, Zenon
            <3> QED BY <3>4, <3>5
        <2>4. CASE ~Tripped(s, health)
            <3>1. t = s BY <2>4 DEF Reacted
            <3> HIDE DEF t
            <3> QED BY <1>4, <2>4, <3>1 DEF Tripped
        <2> QED BY <2>3, <2>4
    <1> HIDE DEF t
    <1>6. /\ u \in Circuits /\ u.halt = NoHalt /\ u.stopped = t.stopped
          /\ u.halted = t.halted
        BY <1>5 DEF Circuits
    <1>7. Become(c, u) BY DEF Observe, s, t
    <1> HIDE DEF u
    <1>8. /\ circuit' \in [Consumer -> Circuits] /\ circuit'[c] = u
          /\ \A d \in Consumer \ {c} : circuit'[d] = circuit[d]
        BY <1>1, <1>6, <1>7, Becoming
    <1>9. PICK place \in {"claim", "idle"} :
              Goto(c, place) /\ (place = "claim" <=> health = "systemic")
        BY DEF Observe
    <1>10. /\ pc' \in [Consumer -> Pc] /\ pc'[c] = place
           /\ \A d \in Consumer \ {c} : pc'[d] = pc[d]
        BY <1>1, <1>9, Going DEF Pc
    <1>11. UNCHANGED <<mine, files, made, tables, restarts, markerFaults>> BY DEF Observe
    <1> QED BY <1>2, <1>3, <1>5, <1>6, <1>8, <1>9, <1>10, <1>11, OwnKeeps DEF Lifting

\* A clock runs out.
LEMMA TimerKeeps ==
    ASSUME CircuitInv, NEW c \in Consumer, Timer(c) PROVE CircuitInv'
    <1>1. CircuitTypeOK BY DEF CircuitInv
    <1>2. circuit[c] \in Circuits /\ pc \in [Consumer -> Pc] /\ OwnOK(c)
        BY <1>1, TypeParts
    <1>3. PICK s \in {[circuit[c] EXCEPT !.cooling = FALSE],
                      [circuit[c] EXCEPT !.paused = FALSE],
                      [circuit[c] EXCEPT !.limited = FALSE]} : Become(c, s)
        BY DEF Timer, CoolingEnds, PauseEnds, LimitEnds
    <1>4. UNCHANGED <<pc, mine, files, made, tables, restarts, markerFaults>>
        BY DEF Timer, CoolingEnds, PauseEnds, LimitEnds
    <1>5. /\ s \in Circuits /\ s.halt = circuit[c].halt
          /\ s.stopped = circuit[c].stopped /\ s.halted = circuit[c].halted
        BY <1>2, <1>3 DEF Circuits
    <1>6. /\ circuit' \in [Consumer -> Circuits] /\ circuit'[c] = s
          /\ \A d \in Consumer \ {c} : circuit'[d] = circuit[d]
        BY <1>1, <1>3, <1>5, Becoming
    <1>7. PlaceOK(c) BY DEF CircuitInv
    <1> QED BY <1>2, <1>4, <1>5, <1>6, <1>7, OwnKeeps DEF OwnOK, PlaceOK

\* A process notices a marker.
LEMMA NoticeKeeps ==
    ASSUME CircuitInv, NEW c \in Consumer, SeeMarker(c) \/ MarkerHeld(c)
    PROVE  CircuitInv'
    <1>1. CircuitTypeOK BY DEF CircuitInv
    <1>2. circuit \in [Consumer -> Circuits] /\ OwnOK(c) /\ PlaceOK(c)
        BY <1>1, TypeParts DEF CircuitInv
    <1>3. PICK place \in {"seen", "held"} :
              /\ Goto(c, place)
              /\ place = "held" => pc[c] = "claim"
        BY DEF SeeMarker, MarkerHeld
    <1>4. /\ UNCHANGED <<circuit, mine, files, made, tables, restarts, markerFaults>>
          /\ pc[c] \in {"idle", "claim"}
        BY DEF SeeMarker, MarkerHeld
    <1>5. /\ pc' \in [Consumer -> Pc] /\ pc'[c] = place
          /\ \A d \in Consumer \ {c} : pc'[d] = pc[d]
        BY <1>1, <1>3, Going DEF Pc
    <1> QED BY <1>2, <1>3, <1>4, <1>5, OwnKeeps DEF OwnOK, PlaceOK, Lifting

-----------------------------------------------------------------------------
(* Steps that learn or make an identity.                                   *)

\* A stopped process takes the halt that the marker names.
LEMMA NamedKeeps ==
    ASSUME CircuitInv, NEW c \in Consumer, Follow(c) \/ TakeHeld(c) \/ Identify(c)
    PROVE  CircuitInv'
    <1>1. CircuitTypeOK /\ Numbered /\ PlaceOK(c) BY DEF CircuitInv
    <1>2. /\ circuit[c] \in Circuits /\ OwnOK(c) /\ marker \in MaybeHalt
          /\ written \subseteq Halt /\ pc \in [Consumer -> Pc]
        BY <1>1, TypeParts
    <1> DEFINE h == Named(marker)
    <1>3. h \in MaybeHalt /\ h \in Made /\ (h # NoHalt => h = marker /\ h \in written)
        BY <1>1, <1>2 DEF Named, Numbered, Made, MaybeHalt, Halt
    <1>4. PICK s \in Circuits :
              /\ Become(c, s)
              /\ s.stopped /\ s.halted /\ s.halt = h
        <2>1. CASE Follow(c)
            <3>1. Stuck(c) \in Circuits /\ Stuck(c).stopped /\ Stuck(c).halted
                BY <1>2 DEF Stuck, Circuits
            <3>2. LET s == [Stuck(c) EXCEPT !.halt = h]
                  IN s \in Circuits /\ s.stopped /\ s.halted /\ s.halt = h
                BY <1>3, <3>1 DEF Circuits
            <3> QED BY <2>1, <3>2, Zenon DEF Follow
        <2>2. CASE TakeHeld(c) \/ Identify(c)
            <3>1. circuit[c].stopped /\ circuit[c].halted
                BY <1>1, <1>2, <2>2 DEF TakeHeld, Identify, OwnOK, PlaceOK
            <3>2. LET s == [circuit[c] EXCEPT !.halt = h]
                  IN s \in Circuits /\ s.stopped /\ s.halted /\ s.halt = h
                BY <1>2, <1>3, <3>1 DEF Circuits
            <3> QED BY <2>2, <3>2, Zenon DEF TakeHeld, Identify
        <2> QED BY <2>1, <2>2
    <1> HIDE DEF h
    <1>5. /\ circuit' \in [Consumer -> Circuits] /\ circuit'[c] = s
          /\ \A d \in Consumer \ {c} : circuit'[d] = circuit[d]
        BY <1>1, <1>4, Becoming
    <1>6. /\ pc[c] \in {"idle", "seen", "held"}
          /\ UNCHANGED <<mine, files, made, tables, restarts, markerFaults>>
        BY DEF Follow, TakeHeld, Identify
    <1>7. /\ pc' \in [Consumer -> Pc] /\ pc'[c] = "idle"
          /\ \A d \in Consumer \ {c} : pc'[d] = pc[d]
        <2>1. "idle" \in Pc BY DEF Pc
        <2>2. CASE Identify(c) BY <1>2, <2>2 DEF Identify
        <2>3. CASE Follow(c) \/ TakeHeld(c)
            BY <1>1, <2>1, <2>3, Going DEF Follow, TakeHeld
        <2> QED BY <2>2, <2>3
    <1>8. CircuitTypeOK'
        <2>1. \A d \in Consumer : OwnOK(d) BY <1>1, TypeParts
        <2>2. \A d \in Consumer : OwnOK(d)'
            BY <1>4, <1>5, <1>6, <1>7, <2>1 DEF OwnOK, files
        <2> QED BY <1>1, <1>5, <1>6, <1>7, <2>2, TypeParts, TypePartsNext DEF files, tables
    <1>9. Numbered' BY <1>1, <1>3, <1>4, <1>5, <1>6 DEF Numbered, Made, files
    <1>10. ASSUME NEW d \in Consumer PROVE PlaceOK(d)' /\ WritingOK(d)'
        <2>1. PlaceOK(d) /\ WritingOK(d) BY DEF CircuitInv
        <2>2. PlaceOK(d)' BY <1>5, <1>6, <1>7, <2>1 DEF PlaceOK, Lifting, tables
        <2>3. \A e \in Consumer : pc'[e] = "write" <=> pc[e] = "write"
            BY <1>6, <1>7
        <2>4. pc[d] = "write" => h # mine[d]
            BY <1>3, <2>1 DEF WritingOK
        <2>5. WritingOK(d)'
            BY <1>4, <1>5, <1>6, <2>1, <2>3, <2>4 DEF WritingOK, files, tables
        <2> QED BY <2>2, <2>5
    <1>11. MarkersKept'
        <2> SUFFICES ASSUME markerFaults = 0, NEW d \in Consumer, NEW g \in Halt, Holds(d, g)'
                     PROVE  InPlace(d, g)'
            BY <1>6 DEF MarkersKept
        <2>1. InPlace(d, g) => InPlace(d, g)' BY <1>6 DEF InPlace, files
        <2>2. CASE d = c
            <3>1. g = h /\ h # NoHalt
                BY <1>4, <1>5, <1>7, <2>2, CircuitAssumption DEF Holds, Halt
            <3> QED BY <1>3, <1>6, <3>1 DEF InPlace, files
        <2>3. CASE d # c
            <3>1. Holds(d, g) BY <1>5, <1>6, <1>7, <2>3 DEF Holds, tables
            <3> QED BY <2>1, <3>1 DEF CircuitInv, MarkersKept
        <2> QED BY <2>2, <2>3
    <1> QED BY <1>8, <1>9, <1>10, <1>11 DEF CircuitInv

LEMMA ClaimMarkerKeeps ==
    ASSUME CircuitInv, NEW c \in Consumer, ClaimMarker(c) PROVE CircuitInv'
    <1>1. CircuitTypeOK /\ Numbered /\ PlaceOK(c) BY DEF CircuitInv
    <1> DEFINE h == made + 1
    <1>2. /\ pc[c] = "claim" /\ marker = NoHalt /\ made < MaxHalts
          /\ made' = h /\ marker' = h /\ mine' = [mine EXCEPT ![c] = h]
          /\ Goto(c, "write")
          /\ UNCHANGED <<circuit, aside, written, tables, restarts, markerFaults>>
        BY DEF ClaimMarker
    <1>3. /\ made \in Nat /\ MaxHalts \in Nat /\ h \in Halt /\ h \notin 1..made
          /\ 1..made \subseteq 1..h /\ h \in 1..h
        BY <1>1, <1>2, CircuitAssumption DEF Numbered, Halt
    <1>4. h # NoHalt /\ h \notin Made BY <1>3, CircuitAssumption DEF Halt, Made
    <1> HIDE DEF h
    <1>5. /\ pc' \in [Consumer -> Pc] /\ pc'[c] = "write"
          /\ \A d \in Consumer \ {c} : pc'[d] = pc[d]
        <2>1. "write" \in Pc BY DEF Pc
        <2> QED BY <1>1, <1>2, <2>1, Going
    <1>6. /\ mine' \in [Consumer -> MaybeHalt] /\ mine'[c] = h
          /\ \A d \in Consumer \ {c} : mine'[d] = mine[d]
        BY <1>1, <1>2, <1>3, TypeParts DEF MaybeHalt
    <1>7. circuit[c].stopped /\ circuit[c].halt = NoHalt BY <1>1, <1>2 DEF PlaceOK
    <1>8. CircuitTypeOK'
        <2>1. \A d \in Consumer : OwnOK(d) BY <1>1, TypeParts
        <2>2. \A d \in Consumer : OwnOK(d)' BY <1>2, <1>5, <2>1 DEF OwnOK
        <2>3. marker' \in MaybeHalt BY <1>2, <1>3 DEF MaybeHalt
        <2> QED BY <1>1, <1>2, <1>3, <1>5, <1>6, <2>2, <2>3, TypeParts, TypePartsNext
                DEF tables
    <1>9. Numbered'
        <2>1. h \in 0..MaxHalts BY <1>3 DEF Halt
        <2>2. Made' = 1..h \cup {NoHalt} /\ Made \subseteq Made' /\ h \in Made'
            BY <1>2, <1>3 DEF Made
        <2>3. \A d \in Consumer : mine'[d] \in Made'
            BY <1>1, <1>6, <2>2 DEF Numbered
        <2> QED BY <1>1, <1>2, <1>3, <2>1, <2>2, <2>3 DEF Numbered
    <1>10. ASSUME NEW d \in Consumer PROVE PlaceOK(d)' /\ WritingOK(d)'
        <2>1. PlaceOK(d) /\ WritingOK(d) BY DEF CircuitInv
        <2>2. PlaceOK(d)'
            BY <1>2, <1>5, <1>6, <1>7, <2>1 DEF PlaceOK, Lifting, tables
        <2>3. \A e \in Consumer : circuit[e].halt # h /\ mine[e] # h
            BY <1>1, <1>4 DEF Numbered
        <2>4. h \notin written \cup recorded
            BY <1>1, <1>3, TypeParts DEF Numbered
        <2>5. CASE d = c
            <3>1. mine'[d] = h /\ h # NoHalt /\ h \notin written' \cup recorded'
                BY <1>2, <1>4, <1>6, <2>4, <2>5 DEF tables
            <3>2. \A e \in Consumer : circuit'[e].halt # h BY <1>2, <2>3
            <3>3. \A e \in Consumer : e # d => mine'[e] # h BY <1>6, <2>3, <2>5
            <3>4. \A e \in Consumer :
                      /\ circuit'[e].halt # mine'[d]
                      /\ e # d /\ pc'[e] = "write" => mine'[e] # mine'[d]
                BY <3>1, <3>2, <3>3
            <3>5. mine'[d] # NoHalt /\ mine'[d] \notin written' \cup recorded' BY <3>1
            <3> QED BY <2>2, <3>4, <3>5, Zenon DEF WritingOK
        <2>6. CASE d # c
            <3>1. /\ mine'[d] = mine[d] /\ pc'[d] = pc[d] /\ mine[d] # h
                  /\ written' = written /\ recorded' = recorded /\ circuit' = circuit
                BY <1>2, <1>5, <1>6, <2>3, <2>6 DEF tables
            <3> SUFFICES ASSUME pc[d] = "write" PROVE WritingOK(d)'
                BY <2>2, <3>1, Zenon DEF WritingOK
            <3>2. mine'[d] # NoHalt /\ mine'[d] \notin written' \cup recorded'
                BY <2>1, <3>1 DEF WritingOK
            <3>3. \A e \in Consumer : circuit'[e].halt # mine'[d]
                BY <2>1, <3>1 DEF WritingOK
            <3>4. \A e \in Consumer : e # d /\ pc'[e] = "write" => mine'[e] # mine'[d]
                BY <1>5, <1>6, <2>1, <3>1 DEF WritingOK
            <3> QED BY <3>2, <3>3, <3>4, Zenon DEF WritingOK
        <2> QED BY <2>2, <2>5, <2>6
    <1>11. MarkersKept'
        <2> SUFFICES ASSUME markerFaults = 0, NEW d \in Consumer, NEW g \in Halt, Holds(d, g)'
                     PROVE  InPlace(d, g)'
            BY <1>2 DEF MarkersKept
        <2>1. CASE d = c
            <3>1. g = h
                BY <1>2, <1>5, <1>6, <1>7, <2>1, CircuitAssumption DEF Holds, Halt
            <3> QED BY <1>2, <3>1 DEF InPlace
        <2>2. CASE d # c
            <3>1. Holds(d, g) BY <1>2, <1>5, <1>6, <2>2 DEF Holds, tables
            <3>2. InPlace(d, g) BY <3>1 DEF CircuitInv, MarkersKept
            <3>3. PICK e \in Consumer \ {d} : aside[e] = g
                BY <1>2, <3>2, CircuitAssumption DEF InPlace, Halt
            <3>4. e # c
                <4>1. OwnOK(c) BY <1>1, TypeParts
                <4>2. aside[c] = NoHalt BY <1>2, <4>1 DEF OwnOK
                <4> QED BY <3>3, <4>2, CircuitAssumption DEF Halt
            <3> QED BY <2>2, <3>3, <3>4, TwoProcesses
        <2> QED BY <2>1, <2>2
    <1> QED BY <1>8, <1>9, <1>10, <1>11 DEF CircuitInv

LEMMA WriteEndsKeeps ==
    ASSUME CircuitInv, NEW c \in Consumer, WriteMarker(c) \/ WriteFails(c)
    PROVE  CircuitInv'
    <1>1. CircuitTypeOK /\ Numbered /\ PlaceOK(c) /\ WritingOK(c) BY DEF CircuitInv
    <1> DEFINE h == mine[c]
    <1>2. /\ pc[c] = "write" /\ Goto(c, "idle")
          /\ Become(c, [circuit[c] EXCEPT !.halt = h])
          /\ mine' = [mine EXCEPT ![c] = NoHalt]
          /\ written' \subseteq written \cup {h}
          /\ markerFaults' = markerFaults \/ markerFaults' = markerFaults + 1
          /\ UNCHANGED <<marker, aside, made, tables, restarts>>
        BY DEF WriteMarker, WriteFails, files
    <1>3. /\ circuit[c] \in Circuits /\ OwnOK(c) /\ mine \in [Consumer -> MaybeHalt]
          /\ h \in MaybeHalt
        BY <1>1, TypeParts
    <1>4. h # NoHalt /\ h \in 1..made /\ h \in Halt
        BY <1>1, <1>2, <1>3 DEF WritingOK, Numbered, Made, MaybeHalt
    <1>5. circuit[c].stopped /\ circuit[c].halted
        BY <1>1, <1>2, <1>3 DEF PlaceOK, OwnOK
    <1>6. LET s == [circuit[c] EXCEPT !.halt = h]
          IN s \in Circuits /\ s.stopped /\ s.halted /\ s.halt = h
        BY <1>3, <1>5 DEF Circuits
    <1>7. /\ circuit' \in [Consumer -> Circuits]
          /\ circuit'[c].stopped /\ circuit'[c].halted /\ circuit'[c].halt = h
          /\ \A d \in Consumer \ {c} : circuit'[d] = circuit[d]
        BY <1>1, <1>2, <1>6, Becoming
    <1>8. /\ pc' \in [Consumer -> Pc] /\ pc'[c] = "idle"
          /\ \A d \in Consumer \ {c} : pc'[d] = pc[d]
        <2>1. "idle" \in Pc BY DEF Pc
        <2> QED BY <1>1, <1>2, <2>1, Going
    <1>9. /\ mine' \in [Consumer -> MaybeHalt] /\ mine'[c] = NoHalt
          /\ \A d \in Consumer \ {c} : mine'[d] = mine[d]
        BY <1>2, <1>3 DEF MaybeHalt
    <1> HIDE DEF h
    <1>10. CircuitTypeOK'
        <2>1. \A d \in Consumer : OwnOK(d) BY <1>1, TypeParts
        <2>2. \A d \in Consumer : OwnOK(d)'
            BY <1>2, <1>7, <1>8, <2>1 DEF OwnOK
        <2>3. written' \subseteq Halt BY <1>1, <1>2, <1>4, TypeParts
        <2> QED BY <1>1, <1>2, <1>7, <1>8, <1>9, <2>2, <2>3, TypeParts, TypePartsNext
                DEF tables
    <1>11. Numbered'
        <2>1. Made' = Made /\ h \in Made /\ NoHalt \in Made BY <1>2, <1>4 DEF Made
        <2>2. \A d \in Consumer : mine'[d] \in Made /\ circuit'[d].halt \in Made
            BY <1>1, <1>7, <1>9, <2>1 DEF Numbered
        <2>3. written' \subseteq 1..made BY <1>1, <1>2, <1>4 DEF Numbered
        <2>4. markerFaults' \in Nat BY <1>1, <1>2 DEF Numbered
        <2> QED BY <1>1, <1>2, <2>1, <2>2, <2>3, <2>4 DEF Numbered
    <1>12. ASSUME NEW d \in Consumer PROVE PlaceOK(d)' /\ WritingOK(d)'
        <2>1. PlaceOK(d) /\ WritingOK(d) BY DEF CircuitInv
        <2>2. CASE d = c
            BY <1>8, <2>2 DEF PlaceOK, WritingOK, Lifting
        <2>3. CASE d # c
            <3>1. PlaceOK(d)'
                BY <1>2, <1>7, <1>8, <1>9, <2>1, <2>3 DEF PlaceOK, tables
            <3> SUFFICES ASSUME pc[d] = "write"
                         PROVE  WritingOK(d)'
                BY <1>8, <2>3, <3>1 DEF WritingOK
            <3>2. mine[d] # h BY <1>1, <1>2, <2>3 DEF WritingOK, h
            <3>3. /\ mine'[d] = mine[d] /\ mine[d] # NoHalt
                  /\ mine[d] \notin written' \cup recorded'
                BY <1>2, <1>9, <2>1, <2>3, <3>2 DEF WritingOK, tables
            <3>4. \A e \in Consumer : circuit'[e].halt # mine[d]
                BY <1>7, <2>1, <3>2 DEF WritingOK
            <3>5. \A e \in Consumer : e # d /\ pc'[e] = "write" => mine'[e] # mine[d]
                BY <1>8, <1>9, <2>1 DEF WritingOK
            <3> QED BY <3>1, <3>3, <3>4, <3>5 DEF WritingOK
        <2> QED BY <2>2, <2>3
    <1>13. MarkersKept'
        <2> SUFFICES ASSUME markerFaults' = 0, NEW d \in Consumer, NEW g \in Halt, Holds(d, g)'
                     PROVE  InPlace(d, g)'
            BY DEF MarkersKept
        <2>1. markerFaults = 0 BY <1>1, <1>2 DEF Numbered
        <2>2. Holds(d, g)
            <3>1. CASE d = c
                BY <1>2, <1>7, <1>8, <3>1 DEF Holds, h
            <3>2. CASE d # c
                BY <1>2, <1>7, <1>8, <1>9, <3>2 DEF Holds, tables
            <3> QED BY <3>1, <3>2
        <2>3. InPlace(d, g) BY <2>1, <2>2 DEF CircuitInv, MarkersKept
        <2> QED BY <1>2, <2>3 DEF InPlace
    <1> QED BY <1>10, <1>11, <1>12, <1>13 DEF CircuitInv

\* The identity of a stop that could not be shared is the process's own.
LEMMA ClaimFailsKeeps ==
    ASSUME CircuitInv, NEW c \in Consumer, ClaimFails(c) PROVE CircuitInv'
    <1>1. CircuitTypeOK /\ Numbered /\ PlaceOK(c) BY DEF CircuitInv
    <1> DEFINE h == made + 1
    <1>2. /\ pc[c] = "claim" /\ made < MaxHalts /\ made' = h
          /\ Become(c, [circuit[c] EXCEPT !.halt = h])
          /\ markerFaults' = markerFaults + 1 /\ Goto(c, "idle")
          /\ UNCHANGED <<mine, files, tables, restarts>>
        BY DEF ClaimFails
    <1>3. /\ made \in Nat /\ MaxHalts \in Nat /\ h \in Halt /\ h \notin 1..made
          /\ 1..made \subseteq 1..h /\ h \in 1..h
        BY <1>1, <1>2, CircuitAssumption DEF Numbered, Halt
    <1>4. h # NoHalt /\ h \notin Made BY <1>3, CircuitAssumption DEF Halt, Made
    <1> HIDE DEF h
    <1>5. circuit[c] \in Circuits /\ circuit[c].stopped /\ circuit[c].halted
        <2>1. OwnOK(c) /\ circuit[c] \in Circuits BY <1>1, TypeParts
        <2> QED BY <1>1, <1>2, <2>1 DEF PlaceOK, OwnOK
    <1>6. LET s == [circuit[c] EXCEPT !.halt = h]
          IN s \in Circuits /\ s.stopped /\ s.halted /\ s.halt = h
        BY <1>3, <1>5 DEF Circuits, MaybeHalt
    <1>7. /\ circuit' \in [Consumer -> Circuits]
          /\ circuit'[c].stopped /\ circuit'[c].halted /\ circuit'[c].halt = h
          /\ \A d \in Consumer \ {c} : circuit'[d] = circuit[d]
        BY <1>1, <1>2, <1>6, Becoming
    <1>8. /\ pc' \in [Consumer -> Pc] /\ pc'[c] = "idle"
          /\ \A d \in Consumer \ {c} : pc'[d] = pc[d]
        <2>1. "idle" \in Pc BY DEF Pc
        <2> QED BY <1>1, <1>2, <2>1, Going
    <1>9. CircuitTypeOK'
        <2>1. \A d \in Consumer : OwnOK(d) BY <1>1, TypeParts
        <2>2. \A d \in Consumer : OwnOK(d)'
            BY <1>2, <1>7, <1>8, <2>1 DEF OwnOK, files
        <2> QED BY <1>1, <1>2, <1>3, <1>7, <1>8, <2>2, TypeParts, TypePartsNext
                DEF tables, files
    <1>10. Numbered'
        <2>1. h \in 0..MaxHalts BY <1>3 DEF Halt
        <2>2. Made' = 1..h \cup {NoHalt} /\ Made \subseteq Made' /\ h \in Made'
            BY <1>2, <1>3 DEF Made
        <2>3. \A d \in Consumer : circuit'[d].halt \in Made'
            BY <1>1, <1>7, <2>2 DEF Numbered
        <2>4. markerFaults' \in Nat BY <1>1, <1>2 DEF Numbered
        <2> QED BY <1>1, <1>2, <1>3, <2>1, <2>2, <2>3, <2>4 DEF Numbered, files
    <1>11. ASSUME NEW d \in Consumer PROVE PlaceOK(d)' /\ WritingOK(d)'
        <2>1. PlaceOK(d) /\ WritingOK(d) BY DEF CircuitInv
        <2>2. PlaceOK(d)'
            BY <1>2, <1>7, <1>8, <2>1 DEF PlaceOK, Lifting, tables
        <2> SUFFICES ASSUME pc[d] = "write" PROVE WritingOK(d)'
            BY <1>2, <1>8, <2>2 DEF WritingOK
        <2>3. mine[d] # h BY <1>1, <1>4 DEF Numbered
        <2>4. \A e \in Consumer : circuit'[e].halt # mine[d]
            BY <1>7, <2>1, <2>3 DEF WritingOK
        <2>5. \A e \in Consumer : pc'[e] = "write" => pc[e] = "write" BY <1>8
        <2> QED BY <1>2, <2>1, <2>2, <2>4, <2>5 DEF WritingOK, files, tables
    <1>12. MarkersKept'
        <2>1. markerFaults' # 0 BY <1>1, <1>2 DEF Numbered
        <2> QED BY <2>1 DEF MarkersKept
    <1> QED BY <1>9, <1>10, <1>11, <1>12 DEF CircuitInv

\* A consumer records its halt, and follows a clear of it.
LEMMA SyncKeeps ==
    ASSUME CircuitInv, NEW c \in Consumer, Sync(c) PROVE CircuitInv'
    <1>1. CircuitTypeOK /\ Numbered BY DEF CircuitInv
    <1> DEFINE h == circuit[c].halt
    <1>2. /\ pc[c] = "idle" /\ circuit[c].stopped /\ h # NoHalt
          /\ recorded' = recorded \cup {h}
          /\ \/ /\ h \in cleared /\ Become(c, Lifted(circuit[c]))
                /\ mine' = [mine EXCEPT ![c] = h] /\ Goto(c, "rename")
             \/ UNCHANGED <<circuit, mine, pc>>
          /\ UNCHANGED <<files, made, cleared, restarts, markerFaults>>
        BY DEF Sync
    <1>3. circuit[c] \in Circuits /\ OwnOK(c) /\ h \in 1..made /\ h \in MaybeHalt
        <2>1. circuit[c] \in Circuits /\ OwnOK(c) BY <1>1, TypeParts
        <2>2. h \in MaybeHalt BY <2>1 DEF Circuits
        <2> QED BY <1>1, <1>2, <2>1, <2>2 DEF Numbered, Made
    <1>4. LET s == Lifted(circuit[c])
          IN s \in Circuits /\ ~s.stopped /\ s.halt = NoHalt
        <2>1. NoHalt \in MaybeHalt /\ 2 \in 0..3 BY DEF MaybeHalt
        <2> QED BY <1>3, <2>1 DEF Lifted, Circuits
    <1> HIDE DEF h
    <1>5. /\ circuit' \in [Consumer -> Circuits] /\ pc' \in [Consumer -> Pc]
          /\ mine' \in [Consumer -> MaybeHalt]
          /\ \A d \in Consumer \ {c} :
                 circuit'[d] = circuit[d] /\ pc'[d] = pc[d] /\ mine'[d] = mine[d]
          /\ \/ /\ h \in cleared /\ ~circuit'[c].stopped /\ circuit'[c].halt = NoHalt
                /\ pc'[c] = "rename" /\ mine'[c] = h
             \/ circuit'[c] = circuit[c] /\ pc'[c] = "idle" /\ mine'[c] = mine[c]
        <2>1. /\ circuit \in [Consumer -> Circuits] /\ pc \in [Consumer -> Pc]
              /\ mine \in [Consumer -> MaybeHalt]
            BY <1>1, TypeParts
        <2>2. CASE /\ h \in cleared /\ Become(c, Lifted(circuit[c]))
                   /\ mine' = [mine EXCEPT ![c] = h] /\ Goto(c, "rename")
            <3>1. "rename" \in Pc BY DEF Pc
            <3>2. /\ circuit' \in [Consumer -> Circuits]
                  /\ circuit'[c] = Lifted(circuit[c])
                  /\ \A d \in Consumer \ {c} : circuit'[d] = circuit[d]
                BY <1>1, <1>4, <2>2, Becoming
            <3>3. /\ pc' \in [Consumer -> Pc] /\ pc'[c] = "rename"
                  /\ \A d \in Consumer \ {c} : pc'[d] = pc[d]
                BY <1>1, <2>2, <3>1, Going
            <3>4. /\ mine' \in [Consumer -> MaybeHalt] /\ mine'[c] = h
                  /\ \A d \in Consumer \ {c} : mine'[d] = mine[d]
                BY <1>3, <2>1, <2>2
            <3> QED BY <1>4, <2>2, <3>2, <3>3, <3>4
        <2>3. CASE UNCHANGED <<circuit, mine, pc>>
            BY <1>2, <2>1, <2>3
        <2> QED BY <1>2, <2>2, <2>3
    <1>6. CircuitTypeOK'
        <2>1. \A d \in Consumer : OwnOK(d) BY <1>1, TypeParts
        <2>2. OwnOK(c)' BY <1>2, <1>3, <1>5 DEF OwnOK, files
        <2>3. \A d \in Consumer \ {c} : OwnOK(d)' BY <1>2, <1>5, <2>1 DEF OwnOK, files
        <2>4. \A d \in Consumer : OwnOK(d)' BY <2>2, <2>3
        <2>5. recorded' \subseteq 1..made' /\ cleared' \subseteq recorded'
            BY <1>1, <1>2, <1>3, TypeParts
        <2> QED BY <1>1, <1>2, <1>5, <2>4, <2>5, TypeParts, TypePartsNext DEF files
    <1>7. Numbered'
        <2>1. Made' = Made /\ h \in Made /\ NoHalt \in Made BY <1>2, <1>3 DEF Made
        <2>2. \A d \in Consumer : mine'[d] \in Made /\ circuit'[d].halt \in Made
            BY <1>1, <1>5, <2>1 DEF Numbered
        <2> QED BY <1>1, <1>2, <2>1, <2>2 DEF Numbered, files
    <1>8. ASSUME NEW d \in Consumer PROVE PlaceOK(d)' /\ WritingOK(d)'
        <2>1. PlaceOK(d) /\ WritingOK(d) BY DEF CircuitInv
        <2>2. CASE d = c
            BY <1>2, <1>5, <2>2 DEF PlaceOK, WritingOK, Lifting
        <2>3. CASE d # c
            <3>1. PlaceOK(d)' BY <1>2, <1>5, <2>1, <2>3 DEF PlaceOK
            <3> SUFFICES ASSUME pc[d] = "write" PROVE WritingOK(d)'
                BY <1>5, <2>3, <3>1, Zenon DEF WritingOK
            <3>2. /\ mine'[d] = mine[d] /\ mine'[d] # NoHalt
                  /\ mine'[d] \notin written' \cup recorded'
                BY <1>2, <1>5, <2>1, <2>3 DEF WritingOK, files, h
            <3>3. \A e \in Consumer : circuit'[e].halt # mine'[d]
                BY <1>5, <2>1, <3>2 DEF WritingOK
            <3>4. \A e \in Consumer : e # d /\ pc'[e] = "write" => mine'[e] # mine'[d]
                BY <1>5, <2>1, <3>2 DEF WritingOK
            <3> QED BY <3>1, <3>2, <3>3, <3>4, Zenon DEF WritingOK
        <2> QED BY <2>2, <2>3
    <1>9. MarkersKept'
        <2> SUFFICES ASSUME markerFaults = 0, NEW d \in Consumer, NEW g \in Halt, Holds(d, g)'
                     PROVE  InPlace(d, g)'
            BY <1>2 DEF MarkersKept
        <2>1. Holds(d, g)
            <3>1. g # NoHalt BY CircuitAssumption DEF Halt
            <3>2. CASE d = c BY <1>2, <1>5, <3>1, <3>2 DEF Holds
            <3>3. CASE d # c BY <1>2, <1>5, <3>3 DEF Holds
            <3> QED BY <3>2, <3>3
        <2>2. InPlace(d, g) BY <2>1 DEF CircuitInv, MarkersKept
        <2> QED BY <1>2, <2>2 DEF InPlace, files
    <1> QED BY <1>6, <1>7, <1>8, <1>9 DEF CircuitInv

-----------------------------------------------------------------------------
(* release_stop, step by step.                                             *)

\* What every step of release_stop does, but for the markers others need.
LEMMA LiftingKeeps ==
    ASSUME CircuitInv, NEW c \in Consumer, NEW place \in {"idle", "inspect", "putback"},
           pc[c] \in Lifting, Goto(c, place),
           \/ mine' = mine /\ place # "idle"
           \/ mine' = [mine EXCEPT ![c] = NoHalt] /\ place = "idle",
           NEW file \in Made, aside' = [aside EXCEPT ![c] = file],
           file # NoHalt <=> place # "idle",
           marker' \in Made,
           UNCHANGED <<circuit, written, made, tables, restarts, markerFaults>>,
           \A d \in Consumer \ {c}, h \in Halt :
               markerFaults = 0 /\ Holds(d, h) /\ InPlace(d, h) => InPlace(d, h)'
    PROVE  CircuitInv'
    <1>1. CircuitTypeOK /\ Numbered /\ PlaceOK(c) BY DEF CircuitInv
    <1>2. /\ pc' \in [Consumer -> Pc] /\ pc'[c] = place
          /\ \A d \in Consumer \ {c} : pc'[d] = pc[d]
        BY <1>1, Going DEF Pc
    <1>3. Made \subseteq MaybeHalt
        BY <1>1, CircuitAssumption DEF Numbered, Made, MaybeHalt, Halt
    <1>4. /\ mine' \in [Consumer -> MaybeHalt]
          /\ \/ mine'[c] = mine[c] /\ place # "idle"
             \/ mine'[c] = NoHalt /\ place = "idle"
          /\ \A d \in Consumer \ {c} : mine'[d] = mine[d]
        BY <1>1, TypeParts DEF MaybeHalt
    <1>5. /\ aside' \in [Consumer -> MaybeHalt] /\ aside'[c] = file
          /\ \A d \in Consumer \ {c} : aside'[d] = aside[d]
        BY <1>1, <1>3, TypeParts
    <1>6. ~circuit[c].stopped /\ mine[c] \in cleared /\ circuit[c].halt = NoHalt
        <2>1. OwnOK(c) BY <1>1, TypeParts
        <2> QED BY <1>1, <2>1 DEF PlaceOK, OwnOK
    <1>7. CircuitTypeOK'
        <2>1. \A d \in Consumer : OwnOK(d) BY <1>1, TypeParts
        <2>2. OwnOK(c)' BY <1>2, <1>5, <1>6 DEF OwnOK
        <2>3. \A d \in Consumer \ {c} : OwnOK(d)' BY <1>2, <1>5, <2>1 DEF OwnOK
        <2>4. \A d \in Consumer : OwnOK(d)' BY <2>2, <2>3
        <2> QED BY <1>1, <1>2, <1>3, <1>4, <1>5, <2>4, TypeParts, TypePartsNext DEF tables
    <1>8. Numbered'
        <2>1. Made' = Made /\ NoHalt \in Made BY DEF Made
        <2>2. \A d \in Consumer : mine'[d] \in Made /\ aside'[d] \in Made
            BY <1>1, <1>4, <1>5, <2>1 DEF Numbered
        <2> QED BY <1>1, <2>1, <2>2 DEF Numbered
    <1>9. ASSUME NEW d \in Consumer PROVE PlaceOK(d)' /\ WritingOK(d)'
        <2>1. PlaceOK(d) /\ WritingOK(d) BY DEF CircuitInv
        <2>2. CASE d = c
            BY <1>2, <1>4, <1>6, <2>2 DEF PlaceOK, WritingOK, Lifting, tables
        <2>3. CASE d # c
            <3>1. PlaceOK(d)' BY <1>2, <1>4, <2>1, <2>3 DEF PlaceOK, tables
            <3> SUFFICES ASSUME pc[d] = "write" PROVE WritingOK(d)'
                BY <1>2, <2>3, <3>1, Zenon DEF WritingOK
            <3>2. /\ mine'[d] = mine[d] /\ mine'[d] # NoHalt
                  /\ mine'[d] \notin written' \cup recorded'
                BY <1>4, <2>1, <2>3 DEF WritingOK, tables
            <3>3. \A e \in Consumer : circuit'[e].halt # mine'[d]
                BY <2>1, <3>2 DEF WritingOK
            <3>4. \A e \in Consumer : e # d /\ pc'[e] = "write" => mine'[e] # mine'[d]
                BY <1>2, <1>4, <2>1, <3>2 DEF WritingOK
            <3> QED BY <3>1, <3>2, <3>3, <3>4, Zenon DEF WritingOK
        <2> QED BY <2>2, <2>3
    <1>10. MarkersKept'
        <2> SUFFICES ASSUME markerFaults = 0, NEW d \in Consumer, NEW g \in Halt, Holds(d, g)'
                     PROVE  InPlace(d, g)'
            BY DEF MarkersKept
        <2>1. d # c
            BY <1>2, <1>6, CircuitAssumption DEF Holds, Halt
        <2>2. Holds(d, g) BY <1>2, <1>4, <2>1 DEF Holds, tables
        <2>3. InPlace(d, g) BY <2>2 DEF CircuitInv, MarkersKept
        <2> QED BY <2>1, <2>2, <2>3
    <1> QED BY <1>7, <1>8, <1>9, <1>10 DEF CircuitInv

LEMMA RenameAsideKeeps ==
    ASSUME CircuitInv, NEW c \in Consumer, RenameAside(c) PROVE CircuitInv'
    <1>1. CircuitTypeOK /\ Numbered BY DEF CircuitInv
    <1>2. pc[c] \in Lifting /\ marker \in Made /\ marker' = NoHalt /\ NoHalt \in Made
        BY <1>1 DEF RenameAside, Lifting, Numbered, Made
    <1>3. aside' = [aside EXCEPT ![c] = marker] BY DEF RenameAside
    <1>4. UNCHANGED <<circuit, written, made, tables, restarts, markerFaults>> BY DEF RenameAside
    <1>5. aside \in [Consumer -> MaybeHalt] BY <1>1, TypeParts
    <1>6. ASSUME NEW d \in Consumer \ {c}, NEW h \in Halt, InPlace(d, h)
          PROVE  InPlace(d, h)'
        <2>1. aside'[c] = marker /\ \A e \in Consumer \ {c} : aside'[e] = aside[e]
            BY <1>3, <1>5
        <2>2. CASE marker = h BY <1>2, <2>1, <2>2 DEF InPlace
        <2>3. CASE marker = NoHalt
            <3>1. PICK e \in Consumer \ {d} : aside[e] = h
                BY <1>6, <2>3, CircuitAssumption DEF InPlace, Halt
            <3>2. OwnOK(c) /\ pc[c] = "rename" BY <1>1, TypeParts DEF RenameAside
            <3>3. aside[c] = NoHalt BY <3>2 DEF OwnOK
            <3>4. e # c BY <3>1, <3>3, CircuitAssumption DEF Halt
            <3>5. aside'[e] = h BY <2>1, <3>1, <3>4
            <3> QED BY <1>2, <3>5 DEF InPlace
        <2> QED BY <1>6, <2>2, <2>3 DEF InPlace
    <1>7. CASE marker = NoHalt
        <2>1. Goto(c, "idle") /\ mine' = [mine EXCEPT ![c] = NoHalt]
            BY <1>7 DEF RenameAside
        <2>2. "idle" \in {"idle", "inspect", "putback"} OBVIOUS
        <2> QED BY <1>2, <1>3, <1>4, <1>6, <1>7, <2>1, <2>2, LiftingKeeps
    <1>8. CASE marker # NoHalt
        <2>1. PICK place \in {"idle", "inspect", "putback"} :
                  place # "idle" /\ Goto(c, place) /\ mine' = mine
            BY <1>8 DEF RenameAside
        <2> QED BY <1>2, <1>3, <1>4, <1>6, <1>8, <2>1, LiftingKeeps
    <1> QED BY <1>7, <1>8

\* Only the marker of a cleared halt is deleted, and nobody is held by it.
LEMMA InspectKeeps ==
    ASSUME CircuitInv, NEW c \in Consumer, Inspect(c) PROVE CircuitInv'
    <1>1. CircuitTypeOK /\ Numbered /\ PlaceOK(c) BY DEF CircuitInv
    <1>2. /\ pc[c] = "inspect" /\ pc[c] \in Lifting /\ marker' = marker
          /\ marker' \in Made /\ NoHalt \in Made /\ aside[c] \in Made
          /\ UNCHANGED <<circuit, written, made, tables, restarts, markerFaults>>
        BY <1>1 DEF Inspect, Lifting, Numbered, Made
    <1>3. /\ aside \in [Consumer -> MaybeHalt] /\ aside[c] # NoHalt
          /\ mine[c] \in cleared /\ mine[c] # NoHalt
        <2>1. OwnOK(c) /\ cleared \subseteq 1..made /\ aside \in [Consumer -> MaybeHalt]
            BY <1>1, TypeParts
        <2>2. NoHalt \notin 1..made BY <1>1, CircuitAssumption DEF Numbered
        <2> QED BY <1>1, <1>2, <2>1, <2>2 DEF OwnOK, PlaceOK
    <1>4. CASE Named(aside[c]) = mine[c]
        <2>1. /\ aside' = [aside EXCEPT ![c] = NoHalt] /\ Goto(c, "idle")
              /\ mine' = [mine EXCEPT ![c] = NoHalt]
            BY <1>4 DEF Inspect
        <2>2. aside[c] \in cleared BY <1>3, <1>4 DEF Named
        <2>3. ASSUME NEW d \in Consumer \ {c}, NEW h \in Halt,
                     Holds(d, h), InPlace(d, h)
              PROVE  InPlace(d, h)'
            <3>1. WritingOK(d) /\ cleared \subseteq recorded
                BY <1>1, TypeParts DEF CircuitInv
            <3>2. h \notin cleared BY <2>3, <3>1 DEF Holds, WritingOK
            <3>3. \A e \in Consumer : aside[e] = h => aside'[e] = h
                BY <1>3, <2>1, <2>2, <3>2
            <3> QED BY <1>2, <2>3, <3>3 DEF InPlace
        <2>4. "idle" \in {"idle", "inspect", "putback"} OBVIOUS
        <2> QED BY <1>2, <2>1, <2>3, <2>4, LiftingKeeps
    <1>5. CASE Named(aside[c]) # mine[c]
        <2>1. PICK place \in {"idle", "inspect", "putback"} :
                  place # "idle" /\ Goto(c, place) /\ aside' = aside /\ mine' = mine
            BY <1>5 DEF Inspect
        <2>2. aside' = [aside EXCEPT ![c] = aside[c]] BY <1>3, <2>1
        <2>3. ASSUME NEW d \in Consumer \ {c}, NEW h \in Halt, InPlace(d, h)
              PROVE  InPlace(d, h)'
            BY <1>2, <2>1, <2>3 DEF InPlace
        <2> QED BY <1>2, <1>3, <2>1, <2>2, <2>3, LiftingKeeps
    <1> QED BY <1>4, <1>5

\* With two processes nobody else can have a marker aside.
LEMMA PutBackKeeps ==
    ASSUME CircuitInv, NEW c \in Consumer, PutBack(c) PROVE CircuitInv'
    <1>1. CircuitTypeOK /\ Numbered BY DEF CircuitInv
    <1>2. /\ pc[c] = "putback" /\ pc[c] \in Lifting /\ NoHalt \in Made
          /\ marker' = IF marker = NoHalt THEN aside[c] ELSE marker
          /\ aside' = [aside EXCEPT ![c] = NoHalt] /\ Goto(c, "idle")
          /\ mine' = [mine EXCEPT ![c] = NoHalt]
          /\ UNCHANGED <<circuit, written, made, tables, restarts, markerFaults>>
        BY DEF PutBack, Lifting, Made
    <1>3. marker' \in Made BY <1>1, <1>2 DEF Numbered
    <1>4. ASSUME NEW d \in Consumer \ {c}, NEW h \in Halt, InPlace(d, h)
          PROVE  InPlace(d, h)'
        <2>1. h # NoHalt BY CircuitAssumption DEF Halt
        <2>2. CASE marker = h BY <1>2, <2>1, <2>2 DEF InPlace
        <2>3. CASE marker = NoHalt
            <3>1. PICK e \in Consumer \ {d} : aside[e] = h
                BY <1>4, <2>1, <2>3 DEF InPlace
            <3>2. e = c BY TwoProcesses
            <3> QED BY <1>2, <2>3, <3>1, <3>2 DEF InPlace
        <2> QED BY <1>4, <2>2, <2>3 DEF InPlace
    <1>5. "idle" \in {"idle", "inspect", "putback"} OBVIOUS
    <1> QED BY <1>2, <1>3, <1>4, <1>5, LiftingKeeps

-----------------------------------------------------------------------------
(* The Administrator, the container, and the whole step.                   *)

LEMMA ClearHaltKeeps ==
    ASSUME CircuitInv, NEW h \in Halt, ClearHalt(h) PROVE CircuitInv'
    <1>1. /\ CircuitTypeOK /\ Numbered /\ MarkersKept
          /\ \A c \in Consumer : PlaceOK(c) /\ WritingOK(c)
        BY DEF CircuitInv
    <1>2. /\ h \in recorded /\ cleared' = cleared \cup {h}
          /\ UNCHANGED <<circuit, pc, mine, files, made, recorded, restarts, markerFaults>>
        BY DEF ClearHalt, Current
    <1>3. CircuitTypeOK'
        <2>1. \A d \in Consumer : OwnOK(d) BY <1>1, TypeParts
        <2>2. \A d \in Consumer : OwnOK(d)' BY <1>2, <2>1 DEF OwnOK, files
        <2> QED BY <1>1, <1>2, <2>2, TypeParts, TypePartsNext DEF files
    <1>4. Numbered' BY <1>1, <1>2 DEF Numbered, Made, files
    <1>5. \A c \in Consumer : PlaceOK(c)' BY <1>1, <1>2 DEF PlaceOK
    <1>6. \A c \in Consumer : WritingOK(c)' BY <1>1, <1>2 DEF WritingOK, files
    <1>7. MarkersKept' BY <1>1, <1>2 DEF MarkersKept, Holds, InPlace, files
    <1> QED BY <1>3, <1>4, <1>5, <1>6, <1>7 DEF CircuitInv

LEMMA FreshTyped == Fresh \in Circuits /\ ~Fresh.stopped /\ Fresh.halt = NoHalt
    <1>1. NoHalt \in MaybeHalt /\ 0 \in 0..3 BY DEF MaybeHalt
    <1> QED BY <1>1 DEF Fresh, Circuits

LEMMA RestartKeeps ==
    ASSUME CircuitInv, Restart PROVE CircuitInv'
    <1>1. CircuitTypeOK /\ Numbered BY DEF CircuitInv
    <1>2. /\ restarts' = restarts + 1 /\ marker' = NoHalt
          /\ circuit' = [c \in Consumer |-> Fresh] /\ pc' = [c \in Consumer |-> "idle"]
          /\ mine' = [c \in Consumer |-> NoHalt] /\ aside' = [c \in Consumer |-> NoHalt]
          /\ UNCHANGED <<written, made, tables, markerFaults>>
        BY DEF Restart
    <1>3. \A c \in Consumer :
              /\ circuit'[c] = Fresh /\ pc'[c] = "idle" /\ mine'[c] = NoHalt
              /\ aside'[c] = NoHalt
        BY <1>2
    <1>4. CircuitTypeOK'
        <2>1. NoHalt \in MaybeHalt /\ "idle" \in Pc BY DEF MaybeHalt, Pc
        <2>2. \A c \in Consumer : OwnOK(c)' BY <1>3, FreshTyped DEF OwnOK
        <2> QED BY <1>1, <1>2, <2>1, <2>2, FreshTyped, TypeParts, TypePartsNext DEF tables
    <1>5. Numbered' BY <1>1, <1>2, <1>3, FreshTyped DEF Numbered, Made
    <1>6. \A c \in Consumer : PlaceOK(c)' /\ WritingOK(c)'
        BY <1>3 DEF PlaceOK, WritingOK, Lifting
    <1>7. MarkersKept'
        BY <1>3, FreshTyped, CircuitAssumption DEF MarkersKept, Holds, Halt
    <1> QED BY <1>4, <1>5, <1>6, <1>7 DEF CircuitInv

LEMMA CircuitInitOK ==
    ASSUME CircuitInit PROVE CircuitInv
    <1>1. \A c \in Consumer :
              /\ circuit[c] = Fresh /\ pc[c] = "idle" /\ mine[c] = NoHalt
              /\ aside[c] = NoHalt
        BY DEF CircuitInit
    <1>2. CircuitTypeOK
        <2>1. NoHalt \in MaybeHalt /\ "idle" \in Pc BY DEF MaybeHalt, Pc
        <2>2. \A c \in Consumer : OwnOK(c) BY <1>1, FreshTyped DEF OwnOK
        <2> QED BY <2>1, <2>2, FreshTyped, TypeParts DEF CircuitInit
    <1>3. Numbered BY <1>1, FreshTyped, CircuitAssumption DEF CircuitInit, Numbered, Made
    <1>4. \A c \in Consumer : PlaceOK(c) /\ WritingOK(c)
        BY <1>1 DEF PlaceOK, WritingOK, Lifting
    <1>5. MarkersKept
        BY <1>1, FreshTyped, CircuitAssumption DEF MarkersKept, Holds, Halt
    <1> QED BY <1>2, <1>3, <1>4, <1>5 DEF CircuitInv

LEMMA CircuitStutters ==
    ASSUME CircuitInv, UNCHANGED circuitVars PROVE CircuitInv'
    BY DEF CircuitInv, CircuitTypeOK, Numbered, Made, PlaceOK, WritingOK, MarkersKept,
           Holds, InPlace, circuitVars, files, tables

LEMMA CircuitStepKeeps ==
    ASSUME CircuitInv, [CircuitNext]_circuitVars PROVE CircuitInv'
    <1>1. CASE UNCHANGED circuitVars BY <1>1, CircuitStutters
    <1>2. ASSUME NEW c \in Consumer, Step(c) PROVE CircuitInv'
        <2>1. CASE Admit(c) BY <2>1, AdmitKeeps
        <2>2. CASE SeeMarker(c) \/ MarkerHeld(c) BY <2>2, NoticeKeeps
        <2>3. CASE Follow(c) \/ TakeHeld(c) \/ Identify(c) BY <2>3, NamedKeeps
        <2>4. CASE \E health \in Health, limit \in BOOLEAN : Observe(c, health, limit)
            BY <2>4, ObserveKeeps
        <2>5. CASE ClaimMarker(c) BY <2>5, ClaimMarkerKeeps
        <2>6. CASE WriteMarker(c) \/ WriteFails(c) BY <2>6, WriteEndsKeeps
        <2>7. CASE ClaimFails(c) BY <2>7, ClaimFailsKeeps
        <2>8. CASE Sync(c) BY <2>8, SyncKeeps
        <2>9. CASE RenameAside(c) BY <2>9, RenameAsideKeeps
        <2>10. CASE Inspect(c) BY <2>10, InspectKeeps
        <2>11. CASE PutBack(c) BY <2>11, PutBackKeeps
        <2> QED BY <1>2, <2>1, <2>2, <2>3, <2>4, <2>5, <2>6, <2>7, <2>8, <2>9, <2>10,
                   <2>11 DEF Step
    <1>3. ASSUME NEW c \in Consumer, Timer(c) PROVE CircuitInv'
        BY <1>3, TimerKeeps
    <1>4. ASSUME NEW h \in Halt, ClearHalt(h) PROVE CircuitInv'
        BY <1>4, ClearHaltKeeps
    <1>5. CASE Restart BY <1>5, RestartKeeps
    <1> QED BY <1>1, <1>2, <1>3, <1>4, <1>5 DEF CircuitNext

\* Every halt that still holds a consumer has its marker where the other
\* process will find it, through every interleaving of the two.
THEOREM CircuitInvariant == CircuitSpec => []CircuitInv
    <1>1. CircuitInit => CircuitInv BY CircuitInitOK
    <1>2. CircuitInv /\ [CircuitNext]_circuitVars => CircuitInv' BY CircuitStepKeeps
    <1> QED BY <1>1, <1>2, PTL DEF CircuitSpec

\* While the other process is idle it has nothing aside, so the marker of a
\* standing halt is in place.
LEMMA StandingMarker ==
    ASSUME CircuitInv, markerFaults = 0, NEW c \in Consumer, Standing(c),
           NEW d \in Consumer, pc[d] = "idle", d # c
    PROVE  marker = circuit[c].halt /\ marker # NoHalt
    <1>1. Holds(c, circuit[c].halt) /\ circuit[c].halt \in Halt
        BY DEF Standing, Holds
    <1>2. InPlace(c, circuit[c].halt) BY <1>1 DEF CircuitInv, MarkersKept
    <1>3. circuit[c].halt # NoHalt BY <1>1, CircuitAssumption DEF Halt
    <1>4. \A e \in Consumer \ {c} : aside[e] # circuit[c].halt
        <2>1. SUFFICES ASSUME NEW e \in Consumer \ {c}, aside[e] = circuit[c].halt
                       PROVE  FALSE
            OBVIOUS
        <2>2. OwnOK(e) BY TypeParts DEF CircuitInv
        <2>3. pc[e] # "idle" BY <1>3, <2>1, <2>2 DEF OwnOK
        <2> QED BY <2>3, TwoProcesses
    <1> QED BY <1>2, <1>3, <1>4 DEF InPlace

\* The two consumers' circuits are consistent, and whenever both stand halted
\* under a halt nobody cleared it is the same one, unless a marker file could
\* not be written (claim_stop, release_stop).
THEOREM HaltIsSafe == CircuitSpec => []HaltSafe
    <1>1. CircuitInv => HaltSafe
        <2> SUFFICES ASSUME CircuitInv PROVE HaltSafe OBVIOUS
        <2>1. CircuitTypeOK BY DEF CircuitInv
        <2>2. OneHalt
            <3> SUFFICES ASSUME markerFaults = 0, NEW c \in Consumer, NEW d \in Consumer,
                                Standing(c), Standing(d), c # d
                         PROVE  circuit[c].halt = circuit[d].halt
                BY DEF OneHalt
            <3>1. pc[c] = "idle" /\ pc[d] = "idle" BY DEF Standing
            <3>2. marker = circuit[c].halt BY <3>1, StandingMarker
            <3>3. marker = circuit[d].halt BY <3>1, StandingMarker
            <3> QED BY <3>2, <3>3
        <2> QED BY <2>1, <2>2 DEF HaltSafe
    <1> QED BY <1>1, CircuitInvariant, PTL

-----------------------------------------------------------------------------
(* What no step may do.                                                    *)

\* Only admission starts a send, and it reads the marker first.
LEMMA OnlyAdmissionSends ==
    ASSUME CircuitInv, [CircuitNext]_circuitVars, NEW d \in Consumer,
           pc[d] = "idle", pc'[d] = "sending"
    PROVE  ~circuit[d].stopped /\ marker = NoHalt
    <1>1. CircuitTypeOK /\ pc \in [Consumer -> Pc] /\ OwnOK(d) /\ circuit[d] \in Circuits
        BY TypeParts DEF CircuitInv
    <1>2. \A c \in Consumer, place \in Pc :
              Goto(c, place) => c = d /\ place = "sending"
        <2> SUFFICES ASSUME NEW c \in Consumer, NEW place \in Pc, Goto(c, place)
                     PROVE  c = d /\ place = "sending"
            OBVIOUS
        <2> QED BY <1>1, Going
    <1>3. \A place \in {"idle", "seen", "claim", "held", "write", "rename", "inspect",
                        "putback"} :
              place \in Pc /\ place # "sending"
        BY DEF Pc
    <1>4. UNCHANGED pc => FALSE OBVIOUS
    <1>5. PICK c \in Consumer : Admit(c)
        <2>1. CASE UNCHANGED circuitVars BY <1>4, <2>1 DEF circuitVars
        <2>2. ASSUME NEW c \in Consumer, Step(c), ~Admit(c) PROVE FALSE
            <3>1. \A place \in Pc : Goto(c, place) => place = "sending" BY <1>2
            <3>2. CASE SeeMarker(c) BY <1>3, <3>1, <3>2 DEF SeeMarker
            <3>3. CASE Follow(c) BY <1>3, <3>1, <3>3 DEF Follow
            <3>4. CASE \E health \in Health, limit \in BOOLEAN : Observe(c, health, limit)
                <4>1. PICK place \in {"claim", "idle"} : Goto(c, place)
                    BY <3>4 DEF Observe
                <4> QED BY <1>3, <3>1, <4>1
            <3>5. CASE ClaimMarker(c) BY <1>3, <3>1, <3>5 DEF ClaimMarker
            <3>6. CASE WriteMarker(c) BY <1>3, <3>1, <3>6 DEF WriteMarker
            <3>7. CASE MarkerHeld(c) BY <1>3, <3>1, <3>7 DEF MarkerHeld
            <3>8. CASE TakeHeld(c) BY <1>3, <3>1, <3>8 DEF TakeHeld
            <3>9. CASE ClaimFails(c) BY <1>3, <3>1, <3>9 DEF ClaimFails
            <3>10. CASE WriteFails(c) BY <1>3, <3>1, <3>10 DEF WriteFails
            <3>11. CASE Identify(c) BY <1>4, <3>11 DEF Identify
            <3>12. CASE Sync(c)
                <4>1. Goto(c, "rename") \/ UNCHANGED pc BY <3>12 DEF Sync
                <4> QED BY <1>3, <1>4, <3>1, <4>1
            <3>13. CASE RenameAside(c)
                <4>1. PICK place \in {"inspect", "idle"} : Goto(c, place)
                    BY <3>13 DEF RenameAside
                <4> QED BY <1>3, <3>1, <4>1
            <3>14. CASE Inspect(c)
                <4>1. Goto(c, "idle") \/ Goto(c, "putback") BY <3>14 DEF Inspect
                <4> QED BY <1>3, <3>1, <4>1
            <3>15. CASE PutBack(c) BY <1>3, <3>1, <3>15 DEF PutBack
            <3> QED BY <2>2, <3>2, <3>3, <3>4, <3>5, <3>6, <3>7, <3>8, <3>9, <3>10,
                       <3>11, <3>12, <3>13, <3>14, <3>15 DEF Step
        <2>3. ASSUME NEW c \in Consumer, Timer(c) PROVE FALSE
            BY <1>4, <2>3 DEF Timer, CoolingEnds, PauseEnds, LimitEnds
        <2>4. ASSUME NEW h \in Halt, ClearHalt(h) PROVE FALSE
            BY <1>4, <2>4 DEF ClearHalt
        <2>5. CASE Restart
            <3>1. pc'[d] = "idle" BY <2>5 DEF Restart
            <3> QED BY <3>1
        <2> QED BY <2>1, <2>2, <2>3, <2>4, <2>5 DEF CircuitNext
    <1>6. Goto(c, "sending") /\ ~Recovered(circuit[c]).halted
        BY <1>4, <1>5 DEF Admit
    <1>7. c = d
        <2>1. "sending" \in Pc BY DEF Pc
        <2> QED BY <1>2, <1>6, <2>1
    <1>8. ~circuit[d].stopped BY <1>1, <1>6, <1>7 DEF Recovered, OwnOK
    <1> QED BY <1>5, <1>7, <1>8 DEF Admit

\* A process that stops being stopped has read the clear of its halt, or is
\* a new one.
LEMMA OnlyLiftingUnstops ==
    ASSUME CircuitInv, [CircuitNext]_circuitVars, NEW d \in Consumer,
           circuit[d].stopped, ~circuit'[d].stopped
    PROVE  circuit[d].halt \in cleared \/ restarts' > restarts
    <1>1. CircuitTypeOK /\ Numbered /\ OwnOK(d) /\ circuit \in [Consumer -> Circuits]
        BY TypeParts DEF CircuitInv
    <1>2. UNCHANGED circuit => FALSE OBVIOUS
    <1>3. ASSUME NEW c \in Consumer, NEW s, Become(c, s) PROVE c = d /\ ~s.stopped
        BY <1>1, <1>3 DEF Become
    <1>4. CASE UNCHANGED circuitVars BY <1>2, <1>4 DEF circuitVars
    <1>5. ASSUME NEW c \in Consumer, Step(c) PROVE circuit[d].halt \in cleared
        <2>1. CASE Admit(c)
            <3>1. Become(c, Recovered(circuit[c])) BY <2>1 DEF Admit
            <3>2. c = d /\ ~Recovered(circuit[c]).stopped BY <1>3, <3>1
            <3>3. Recovered(circuit[d]) = circuit[d] BY DEF Recovered
            <3> QED BY <3>2, <3>3
        <2>2. CASE SeeMarker(c) \/ ClaimMarker(c) \/ MarkerHeld(c) \/ RenameAside(c)
                       \/ Inspect(c) \/ PutBack(c)
            BY <1>2, <2>2
               DEF SeeMarker, ClaimMarker, MarkerHeld, RenameAside, Inspect, PutBack
        <2>3. ASSUME NEW h, Become(c, [circuit[c] EXCEPT !.halt = h]) PROVE FALSE
            <3>1. c = d /\ ~[circuit[c] EXCEPT !.halt = h].stopped BY <1>3, <2>3
            <3> QED BY <1>1, <3>1 DEF Circuits
        <2>4. CASE WriteMarker(c) \/ TakeHeld(c) \/ ClaimFails(c) \/ WriteFails(c)
                       \/ Identify(c)
            BY <2>3, <2>4 DEF WriteMarker, TakeHeld, ClaimFails, WriteFails, Identify
        <2>5. CASE Follow(c)
            <3>1. PICK h \in {Named(marker)} : Become(c, [Stuck(c) EXCEPT !.halt = h])
                BY <2>5 DEF Follow
            <3>2. c = d /\ ~[Stuck(c) EXCEPT !.halt = h].stopped BY <1>3, <3>1
            <3>3. Stuck(d).stopped /\ Stuck(d) \in Circuits
                BY <1>1 DEF Stuck, Circuits
            <3> HIDE DEF Stuck
            <3> QED BY <3>2, <3>3 DEF Circuits
        <2>6. CASE \E health \in Health, limit \in BOOLEAN : Observe(c, health, limit)
            <3>1. pc[c] = "sending" /\ \E s : Become(c, s) BY <2>6 DEF Observe
            <3>2. c = d BY <1>3, <3>1
            <3> QED BY <1>1, <3>1, <3>2 DEF OwnOK
        <2>7. CASE Sync(c)
            <3>1. circuit[c].halt \in cleared /\ Become(c, Lifted(circuit[c]))
                BY <1>2, <2>7 DEF Sync
            <3>2. c = d BY <1>3, <3>1
            <3> QED BY <3>1, <3>2
        <2> QED BY <1>5, <2>1, <2>2, <2>4, <2>5, <2>6, <2>7 DEF Step
    <1>6. ASSUME NEW c \in Consumer, Timer(c) PROVE FALSE
        <2>1. PICK s \in {[circuit[c] EXCEPT !.cooling = FALSE],
                          [circuit[c] EXCEPT !.paused = FALSE],
                          [circuit[c] EXCEPT !.limited = FALSE]} : Become(c, s)
            BY <1>6 DEF Timer, CoolingEnds, PauseEnds, LimitEnds
        <2>2. s.stopped = circuit[c].stopped BY <1>1 DEF Circuits
        <2> QED BY <1>3, <2>1, <2>2
    <1>7. ASSUME NEW h \in Halt, ClearHalt(h) PROVE FALSE BY <1>2, <1>7 DEF ClearHalt
    <1>8. CASE Restart BY <1>1, <1>8 DEF Restart, Numbered
    <1> QED BY <1>4, <1>5, <1>6, <1>7, <1>8 DEF CircuitNext

\* While a consumer stands halted nobody in the container is admitted, unless
\* a marker file could not be written, and a halt ends by its own clear or
\* with the container (blocks_new_send, lift, release_stop).
THEOREM StopsAreHeld == CircuitSpec => StopsHold
    <1>1. CircuitInv /\ [CircuitNext]_circuitVars =>
              [markerFaults = 0 => \A c, d \in Consumer :
                   Standing(c) /\ pc[d] = "idle" => pc'[d] # "sending"]_circuitVars
        <2> SUFFICES ASSUME CircuitInv, [CircuitNext]_circuitVars, markerFaults = 0,
                            NEW c \in Consumer, NEW d \in Consumer,
                            Standing(c), pc[d] = "idle", pc'[d] = "sending"
                     PROVE  FALSE
            OBVIOUS
        <2>1. ~circuit[d].stopped /\ marker = NoHalt BY OnlyAdmissionSends
        <2>2. d # c BY <2>1 DEF Standing
        <2> QED BY <2>1, <2>2, StandingMarker
    <1>2. CircuitInv /\ [CircuitNext]_circuitVars =>
              [\A c \in Consumer :
                   circuit[c].stopped /\ ~circuit'[c].stopped =>
                       circuit[c].halt \in cleared \/ restarts' > restarts]_circuitVars
        BY OnlyLiftingUnstops
    <1> QED BY <1>1, <1>2, CircuitInvariant, PTL
            DEF CircuitSpec, StopsHold, StopIsShared, OnlyItsClearLifts

=============================================================================
