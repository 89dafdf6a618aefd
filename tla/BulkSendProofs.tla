--------------------------- MODULE BulkSendProofs ---------------------------
(***************************************************************************)
(* The bulk send's safety properties hold, and it implements SendOnce, for *)
(* any number of messages and consumers, any size of batch, and any times  *)
(* that satisfy BulkTiming.                                                *)
(***************************************************************************)
EXTENDS BulkSend, SequenceTheorems, TLAPS

MailStates == {"waiting", "submitting", "delivered", "failed", "unknown"}
Mails == [state : MailStates, attempt : 0 .. MaxSend,
          lease : 0 .. SendLease, deadline : 0 .. MaxDeadline]
Results == {"none", "unsent", "unknown", "accepted", "refused"}
Items == [msg : Message, attempt : Submission, result : Results]
Stages == {"idle", "checking", "launching", "sending", "finishing"}
Wires == {"none", "launched", "accepted", "refused"}

\* The types, with the history variables and the wires.
Typed ==
  /\ mail \in [Message -> Mails]
  /\ batch \in [Consumer -> Seq(Items)]
  /\ pc \in [Consumer -> Stages]
  /\ at \in [Consumer -> Nat]
  /\ elapsed \in [Consumer -> 0 .. SendLease]
  /\ seconds \in [Consumer -> 0 .. Helper]
  /\ budget \in [Consumer -> 0 .. Max({Helper, Stall})]
  /\ paused \in BOOLEAN
  /\ wire \in [Message -> [Submission -> Wires]]
  /\ late \in [Consumer -> {0, 1}]
  /\ ruledOut \in [Message -> SUBSET Submission]
  /\ answered \in [Message -> SUBSET Submission]

\* Where a consumer stands in its batch, and how late it can be there.
StageOK(c) ==
  /\ Len(batch[c]) <= SendBatch
  /\ pc[c] = "idle" => at[c] = 0 /\ batch[c] = <<>>
  /\ pc[c] # "idle" => at[c] \in 1 .. Len(batch[c])
  /\ pc[c] = "launching" => elapsed[c] + budget[c] < Cutoff + Stall
  /\ pc[c] = "sending" => /\ elapsed[c] + budget[c] < Cutoff + Stall + Helper
                          /\ elapsed[c] + SendMargin <= SendLease

\* A launch after the pause is one whose check was made before it.
LateOK(c) ==
  /\ ~paused => late[c] = 0
  /\ pc[c] = "launching" => late[c] = 0

AtWork(c) == pc[c] \in {"checking", "launching", "sending"}

\* An item the loop has still to decide.
Ahead(c, i) ==
  \/ pc[c] = "checking" /\ i >= at[c]
  \/ pc[c] \in {"launching", "sending"} /\ i > at[c]

\* Until its lease can have run out the claim of an item is the consumer's.
ClaimKept(c, i) ==
  LET item == batch[c][i]
  IN elapsed[c] < SendLease =>
       /\ mail[item.msg].state = "submitting"
       /\ mail[item.msg].attempt = item.attempt
       /\ mail[item.msg].lease + elapsed[c] >= SendLease

\* What an item's result says of its wire, and what the ledger may not yet
\* say of its attempt.
ItemOK(c, i) ==
  LET item == batch[c][i]
      sent == wire[item.msg][item.attempt]
  IN /\ item.attempt <= mail[item.msg].attempt
     /\ item.result \in {"none", "unsent"} => sent = "none"
     /\ item.result \in {"accepted", "refused"} => sent = item.result
     /\ item.result = "none" <=> Ahead(c, i)
     /\ pc[c] = "launching" /\ i = at[c] =>
          sent = "none" /\ item.result = "unknown"
     /\ AtWork(c) \/ i >= at[c] => item.attempt \notin ruledOut[item.msg]
     /\ AtWork(c) /\ i >= at[c] => ClaimKept(c, i)

ItemsOK == \A c \in Consumer : \A i \in 1 .. Len(batch[c]) : ItemOK(c, i)

\* No attempt is in two places.
OneItemPerAttempt ==
  \A c, d \in Consumer : \A i \in 1 .. Len(batch[c]), j \in 1 .. Len(batch[d]) :
    /\ batch[c][i].msg = batch[d][j].msg
    /\ batch[c][i].attempt = batch[d][j].attempt
    => c = d /\ i = j

\* What is recorded of one message's attempts.
LedgerOK(m) ==
  /\ \A a \in Submission :
       /\ a > mail[m].attempt => wire[m][a] = "none" /\ a \notin ruledOut[m]
       /\ a < mail[m].attempt => a \in ruledOut[m] \union answered[m]
       /\ a \in ruledOut[m] => wire[m][a] \in {"none", "refused"}
  /\ mail[m].state \in {"waiting", "failed"} =>
       mail[m].attempt = 0 \/ mail[m].attempt \in ruledOut[m] \union answered[m]
  /\ mail[m].state = "delivered" => wire[m][mail[m].attempt] = "accepted"
  /\ mail[m].state \notin {"waiting", "failed"} => mail[m].attempt > 0

BulkInv ==
  /\ Typed
  /\ \A c \in Consumer : StageOK(c) /\ LateOK(c)
  /\ ItemsOK
  /\ OneItemPerAttempt
  /\ \A m \in Message : LedgerOK(m)

-----------------------------------------------------------------------------
(* Operators.                                                              *)

LEMMA MinOfTwo ==
  ASSUME NEW a \in Nat, NEW b \in Nat
  PROVE  /\ Min({a, b}) \in Nat
         /\ Min({a, b}) <= a /\ Min({a, b}) <= b
         /\ Min({a, b}) = a \/ Min({a, b}) = b
  <1>1. \E x \in {a, b} : \A y \in {a, b} : x =< y
    <2>1. CASE a <= b BY <2>1
    <2>2. CASE b <= a BY <2>2
    <2> QED BY <2>1, <2>2
  <1> QED BY <1>1 DEF Min

LEMMA MaxOfTwo ==
  ASSUME NEW a \in Nat, NEW b \in Nat
  PROVE  /\ Max({a, b}) \in Nat
         /\ a <= Max({a, b}) /\ b <= Max({a, b})
  <1>1. \E x \in {a, b} : \A y \in {a, b} : x >= y
    <2>1. CASE a <= b BY <2>1
    <2>2. CASE b <= a BY <2>2
    <2> QED BY <2>1, <2>2
  <1> QED BY <1>1 DEF Max

LEMMA TimesAreNatural ==
  /\ SendLease \in Nat /\ SendMargin \in Nat /\ Cutoff \in Nat
  /\ Helper \in Nat \ {0} /\ Stall \in Nat /\ MaxSend \in Nat
  /\ SendBatch \in Nat /\ MaxDeadline \in Nat
  /\ Max({Helper, Stall}) \in Nat
  BY BulkConstants, BulkTiming, MaxOfTwo

\* An item's deadline lies within the column's range.
LEMMA DeadlineTyped ==
  ASSUME NEW position \in Nat \ {0}
  PROVE  Deadline(position) \in 0 .. MaxDeadline
  <1>1. First \in Nat /\ Step \in Nat /\ MaxDeadline \in Nat
    BY BulkConstants, BulkTiming
  <1>2. position - 1 \in Nat
    OBVIOUS
  <1>3. Step * (position - 1) \in Nat
    BY <1>1, <1>2
  <1>4. First + Step * (position - 1) \in Nat
    BY <1>1, <1>3
  <1> QED BY <1>1, <1>4, MinOfTwo DEF Deadline

LEMMA RemainingTyped ==
  ASSUME Typed, NEW c \in Consumer, at[c] \in Nat \ {0}
  PROVE  Remaining(c) \in Nat
  <1>1. Deadline(at[c]) \in 0 .. MaxDeadline
    BY DeadlineTyped
  <1>2. elapsed[c] \in 0 .. SendLease
    BY DEF Typed
  <1>3. Deadline(at[c]) \in Nat /\ elapsed[c] \in Nat
    BY <1>1, <1>2, TimesAreNatural
  <1> QED BY <1>3 DEF Remaining

LEMMA SequenceOf ==
  ASSUME NEW S, NEW n \in Nat, NEW seq \in [1 .. n -> S]
  PROVE  seq \in Seq(S) /\ Len(seq) = n
  OBVIOUS

\* A consumer's batch is a sequence.
LEMMA BatchTyped ==
  ASSUME Typed, NEW c \in Consumer
  PROVE  /\ Len(batch[c]) \in Nat
         /\ batch[c] \in [1 .. Len(batch[c]) -> Items]
         /\ DOMAIN batch[c] = 1 .. Len(batch[c])
  <1>1. batch[c] \in Seq(Items)
    BY DEF Typed
  <1> QED BY <1>1, LenProperties

\* What recording one result makes of a batch.
LEMMA ResultChanges ==
  ASSUME Typed, NEW c \in Consumer, NEW i \in 1 .. Len(batch[c]),
         NEW result \in Results, Result(c, i, result)
  PROVE  /\ batch' \in [Consumer -> Seq(Items)]
         /\ Len(batch'[c]) = Len(batch[c])
         /\ batch'[c][i] = [batch[c][i] EXCEPT !.result = result]
         /\ \A j \in 1 .. Len(batch[c]) : j # i => batch'[c][j] = batch[c][j]
         /\ \A d \in Consumer : d # c => batch'[d] = batch[d]
  <1> DEFINE new == [batch[c][i] EXCEPT !.result = result]
  <1>1. batch[c] \in Seq(Items)
    BY DEF Typed
  <1>2. batch[c][i] \in Items
    BY <1>1, ElementOfSeq
  <1>3. new \in Items
    BY <1>2 DEF Items
  <1>4. batch' = [batch EXCEPT ![c] = [batch[c] EXCEPT ![i] = new]]
    BY DEF Result
  <1> HIDE DEF new
  <1> DEFINE seq == [batch[c] EXCEPT ![i] = new]
  <1>5. /\ seq \in Seq(Items)
        /\ Len(seq) = Len(batch[c])
        /\ \A j \in 1 .. Len(batch[c]) : seq[j] = IF j = i THEN new ELSE batch[c][j]
    BY <1>1, <1>3, ExceptSeq
  <1> HIDE DEF seq
  <1>6. batch' = [batch EXCEPT ![c] = seq]
    BY <1>4 DEF seq
  <1>7. batch \in [Consumer -> Seq(Items)]
    BY DEF Typed
  <1>8. batch'[c] = seq
    BY <1>6, <1>7
  <1> QED BY <1>5, <1>6, <1>7, <1>8 DEF new

-----------------------------------------------------------------------------
(* One consumer's steps, seen by the others.                               *)

\* Only c's own variables change.
Alone(c) ==
  /\ paused' = paused
  /\ \A d \in Consumer \ {c} :
       /\ batch'[d] = batch[d] /\ pc'[d] = pc[d] /\ at'[d] = at[d]
       /\ elapsed'[d] = elapsed[d] /\ budget'[d] = budget[d]
       /\ late'[d] = late[d]

\* The attempt is one of c's items.
Mine(c, m, a) ==
  \E i \in 1 .. Len(batch[c]) : batch[c][i].msg = m /\ batch[c][i].attempt = a

\* Only what c has claimed changes.
Touches(c) ==
  /\ \A m \in Message : mail'[m].attempt = mail[m].attempt
  /\ \A m \in Message : mail'[m] = mail[m] \/ Mine(c, m, mail[m].attempt)
  /\ \A m \in Message, a \in Submission :
       \/ Mine(c, m, a)
       \/ wire'[m][a] = wire[m][a] /\ (a \in ruledOut'[m] => a \in ruledOut[m])

\* c keeps its items, or drops them all.
KeepsItems(c) ==
  \/ batch'[c] = <<>>
  \/ /\ Len(batch'[c]) = Len(batch[c])
     /\ \A i \in 1 .. Len(batch[c]) :
          /\ batch'[c][i].msg = batch[c][i].msg
          /\ batch'[c][i].attempt = batch[c][i].attempt

\* Another consumer's items stand as they did.
LEMMA OthersItems ==
  ASSUME BulkInv, NEW c \in Consumer, Alone(c), Touches(c),
         NEW d \in Consumer, d # c, NEW i \in 1 .. Len(batch[d])
  PROVE  ItemOK(d, i)'
  <1> DEFINE m == batch[d][i].msg
             a == batch[d][i].attempt
  <1>1. ItemOK(d, i)
    BY DEF BulkInv, ItemsOK
  <1>2. batch[d][i] \in Items
    BY BatchTyped DEF BulkInv
  <1>3. m \in Message /\ a \in Submission
    BY <1>2 DEF Items
  <1>4. /\ batch'[d] = batch[d] /\ pc'[d] = pc[d] /\ at'[d] = at[d]
        /\ elapsed'[d] = elapsed[d]
    BY DEF Alone
  <1>5. ~ Mine(c, m, a)
    <2>1. SUFFICES ASSUME NEW j \in 1 .. Len(batch[c]),
                          batch[c][j].msg = m, batch[c][j].attempt = a
                   PROVE  FALSE
      BY DEF Mine
    <2> QED BY <2>1 DEF BulkInv, OneItemPerAttempt
  <1>6. /\ mail'[m].attempt = mail[m].attempt
        /\ mail[m].attempt = a => mail'[m] = mail[m]
        /\ wire'[m][a] = wire[m][a]
        /\ a \in ruledOut'[m] => a \in ruledOut[m]
    BY <1>3, <1>5 DEF Touches
  <1>7. batch'[d][i] = batch[d][i]
    BY <1>4
  <1> HIDE DEF m, a
  <1>8. AtWork(d)' <=> AtWork(d)
    BY <1>4 DEF AtWork
  <1>9. Ahead(d, i)' <=> Ahead(d, i)
    BY <1>4 DEF Ahead
  <1>10. ClaimKept(d, i) => ClaimKept(d, i)'
    BY <1>4, <1>6, <1>7 DEF ClaimKept, m, a
  <1> QED BY <1>1, <1>4, <1>6, <1>7, <1>8, <1>9, <1>10 DEF ItemOK, m, a

LEMMA ItemsStayApart ==
  ASSUME BulkInv, NEW c \in Consumer, Alone(c), KeepsItems(c)
  PROVE  OneItemPerAttempt'
  <1>1. ASSUME NEW d \in Consumer, NEW i \in 1 .. Len(batch'[d])
        PROVE  /\ i \in 1 .. Len(batch[d])
               /\ batch'[d][i].msg = batch[d][i].msg
               /\ batch'[d][i].attempt = batch[d][i].attempt
    <2>1. CASE d # c BY <2>1, <1>1 DEF Alone
    <2>2. CASE d = c /\ batch'[c] = <<>>
      <3>1. Len(<<>>) = 0
        OBVIOUS
      <3> QED BY <1>1, <2>2, <3>1
    <2>3. CASE d = c /\ batch'[c] # <<>>
      BY <1>1, <2>3 DEF KeepsItems
    <2> QED BY <2>1, <2>2, <2>3
  <1> QED BY <1>1 DEF BulkInv, OneItemPerAttempt

\* A consumer's step keeps the invariant if it keeps the consumer's own part
\* and the ledgers.
LEMMA ConsumerMoves ==
  ASSUME BulkInv, NEW c \in Consumer, Typed', Alone(c), Touches(c), KeepsItems(c),
         StageOK(c)', LateOK(c)',
         \A i \in 1 .. Len(batch'[c]) : ItemOK(c, i)',
         \A m \in Message : LedgerOK(m)'
  PROVE  BulkInv'
  <1>1. ASSUME NEW d \in Consumer PROVE StageOK(d)' /\ LateOK(d)'
    <2>1. CASE d # c
      <3>1. StageOK(d) /\ LateOK(d)
        BY DEF BulkInv
      <3>2. StageOK(d)'
        BY <2>1, <3>1 DEF Alone, StageOK
      <3>3. LateOK(d)'
        BY <2>1, <3>1 DEF Alone, LateOK
      <3> QED BY <3>2, <3>3
    <2> QED BY <2>1
  <1>2. ItemsOK'
    <2> SUFFICES ASSUME NEW d \in Consumer, NEW i \in 1 .. Len(batch'[d])
                 PROVE  ItemOK(d, i)'
      BY DEF ItemsOK
    <2>1. CASE d # c
      <3>1. batch'[d] = batch[d]
        BY <2>1 DEF Alone
      <3> QED BY <2>1, <3>1, OthersItems
    <2> QED BY <2>1
  <1>3. OneItemPerAttempt'
    BY ItemsStayApart
  <1> QED BY <1>1, <1>2, <1>3 DEF BulkInv

\* With the messages, the wires and the history left alone.
LEMMA NothingTouched ==
  ASSUME UNCHANGED <<mail, wire, history>>, BulkInv, NEW c
  PROVE  /\ Touches(c)
         /\ \A m \in Message : LedgerOK(m)'
  <1>1. Touches(c)
    BY DEF Touches, history
  <1>2. ASSUME NEW m \in Message PROVE LedgerOK(m)'
    <2>1. LedgerOK(m)
      BY DEF BulkInv
    <2> QED BY <2>1 DEF LedgerOK, history
  <1> QED BY <1>1, <1>2

-----------------------------------------------------------------------------
(* The loop of send_all.                                                   *)

\* A consumer at work has an item.
LEMMA HasItem ==
  ASSUME BulkInv, NEW c \in Consumer, pc[c] # "idle"
  PROVE  /\ at[c] \in 1 .. Len(batch[c])
         /\ Item(c) = batch[c][at[c]] /\ Item(c) \in Items
         /\ Item(c).msg \in Message /\ Item(c).attempt \in Submission
         /\ Item(c).result \in Results
         /\ ItemOK(c, at[c])
  <1>1. at[c] \in 1 .. Len(batch[c])
    BY DEF BulkInv, StageOK
  <1>2. batch[c][at[c]] \in Items
    BY <1>1, BatchTyped DEF BulkInv
  <1>3. ItemOK(c, at[c])
    BY <1>1 DEF BulkInv, ItemsOK
  <1> QED BY <1>1, <1>2, <1>3 DEF Item, Items

\* The item's result is decided and the loop goes on or ends.
LEMMA ItemDecided ==
  ASSUME BulkInv, NEW c \in Consumer, AtWork(c), Advance(c),
         NEW result \in Results \ {"none"}, Result(c, at[c], result),
         UNCHANGED <<mail, ruledOut>>,
         \A m \in Message, a \in Submission :
           wire'[m][a] = wire[m][a] \/ (m = Item(c).msg /\ a = Item(c).attempt),
         result = "unsent" => wire'[Item(c).msg][Item(c).attempt] = "none",
         result \in {"accepted", "refused"} =>
           wire'[Item(c).msg][Item(c).attempt] = result
  PROVE  /\ batch' \in [Consumer -> Seq(Items)]
         /\ pc' \in [Consumer -> Stages]
         /\ at' \in [Consumer -> Nat]
         /\ elapsed' \in [Consumer -> 0 .. SendLease]
         /\ \A d \in Consumer \ {c} :
              /\ batch'[d] = batch[d] /\ pc'[d] = pc[d] /\ at'[d] = at[d]
              /\ elapsed'[d] = elapsed[d]
         /\ KeepsItems(c)
         /\ StageOK(c)'
         /\ pc'[c] \in {"checking", "finishing"}
         /\ \A i \in 1 .. Len(batch'[c]) : ItemOK(c, i)'
  <1>0. PICK n : n = at[c]
    OBVIOUS
  <1> DEFINE m == batch[c][n].msg
             a == batch[c][n].attempt
  <1>1. pc[c] # "idle" /\ Typed /\ OneItemPerAttempt /\ StageOK(c)
    BY DEF AtWork, BulkInv
  <1>2. n \in 1 .. Len(batch[c]) /\ Item(c) = batch[c][n] /\ Item(c) \in Items
    BY <1>0, <1>1, HasItem
  <1>3. /\ batch' \in [Consumer -> Seq(Items)]
        /\ Len(batch'[c]) = Len(batch[c])
        /\ batch'[c][n] = [batch[c][n] EXCEPT !.result = result]
        /\ \A j \in 1 .. Len(batch[c]) : j # n => batch'[c][j] = batch[c][j]
        /\ \A d \in Consumer : d # c => batch'[d] = batch[d]
    BY <1>0, <1>1, <1>2, ResultChanges
  <1>4. Len(batch[c]) \in Nat /\ n \in Nat /\ SendLease \in Nat
    BY <1>1, <1>2, BatchTyped, TimesAreNatural
  <1>5. /\ pc' \in [Consumer -> Stages] /\ at' \in [Consumer -> Nat]
        /\ elapsed' \in [Consumer -> 0 .. SendLease]
    <2>1. pc' \in [Consumer -> Stages]
      BY <1>1 DEF Advance, Finishing, Typed, Stages
    <2>2. at' \in [Consumer -> Nat]
      <3>1. at \in [Consumer -> Nat] /\ at[c] + 1 \in Nat
        BY <1>0, <1>1, <1>4 DEF Typed
      <3>2. \/ at' = [at EXCEPT ![c] = at[c] + 1]
            \/ at' = [at EXCEPT ![c] = 1]
        BY <3>1 DEF Advance, Finishing
      <3> QED BY <3>1, <3>2
    <2>3. elapsed' \in [Consumer -> 0 .. SendLease]
      <3>1. elapsed \in [Consumer -> 0 .. SendLease] /\ 0 \in 0 .. SendLease
        BY <1>1, <1>4 DEF Typed
      <3>2. elapsed' = elapsed \/ elapsed' = [elapsed EXCEPT ![c] = 0]
        BY DEF Advance, Finishing
      <3> QED BY <3>1, <3>2
    <2> QED BY <2>1, <2>2, <2>3
  <1>6. \A d \in Consumer \ {c} :
          pc'[d] = pc[d] /\ at'[d] = at[d] /\ elapsed'[d] = elapsed[d]
    BY <1>1 DEF Advance, Finishing, Typed
  <1>7. \/ /\ n < Len(batch[c])
           /\ pc'[c] = "checking" /\ at'[c] = n + 1 /\ elapsed'[c] = elapsed[c]
        \/ /\ n = Len(batch[c])
           /\ pc'[c] = "finishing" /\ at'[c] = 1 /\ elapsed'[c] = 0
    BY <1>0, <1>1, <1>2, <1>4 DEF Advance, Finishing, Typed
  <1>8. /\ batch'[c][n].msg = m /\ batch'[c][n].attempt = a
        /\ batch'[c][n].result = result
    BY <1>2, <1>3 DEF Items
  <1>9. KeepsItems(c)
    BY <1>3, <1>8 DEF KeepsItems
  <1>10. StageOK(c)'
    BY <1>1, <1>2, <1>3, <1>4, <1>7 DEF StageOK
  <1>11. ASSUME NEW i \in 1 .. Len(batch[c]), i # n
         PROVE  ItemOK(c, i)'
    <2> DEFINE k == batch[c][i].msg
               b == batch[c][i].attempt
    <2>1. batch'[c][i] = batch[c][i] /\ batch[c][i] \in Items
      BY <1>1, <1>3, <1>11, BatchTyped
    <2>2. k \in Message /\ b \in Submission
      BY <2>1 DEF Items
    <2>3. ~ (k = m /\ b = a)
      BY <1>1, <1>2, <1>11 DEF OneItemPerAttempt
    <2>4. wire'[k][b] = wire[k][b]
      BY <1>2, <2>2, <2>3
    <2>5. ItemOK(c, i)
      BY <1>11 DEF BulkInv, ItemsOK
    <2>6. i \in Nat
      BY <1>4
    <2>7. Ahead(c, i)' <=> Ahead(c, i)
      <3>1. Ahead(c, i) <=> i > n
        BY <1>0, <1>4, <1>11, <2>6 DEF Ahead, AtWork
      <3>2. CASE n < Len(batch[c])
        <4>1. Ahead(c, i)' <=> i >= n + 1
          BY <1>4, <1>7, <2>6, <3>2 DEF Ahead
        <4> QED BY <1>4, <2>6, <3>1, <4>1
      <3>3. CASE n = Len(batch[c])
        <4>1. ~ Ahead(c, i)'
          BY <1>4, <1>7, <3>3 DEF Ahead
        <4> QED BY <1>4, <3>1, <3>3, <4>1
      <3> QED BY <1>7, <3>2, <3>3
    <2>8. b \notin ruledOut'[k]
      BY <1>0, <2>5 DEF ItemOK
    <2>9. AtWork(c)' /\ i >= at'[c] => ClaimKept(c, i)'
      <3>1. SUFFICES ASSUME AtWork(c)', i >= at'[c] PROVE ClaimKept(c, i)'
        OBVIOUS
      <3>2. at'[c] = n + 1 /\ elapsed'[c] = elapsed[c]
        BY <1>7, <3>1 DEF AtWork
      <3>3. i >= n
        BY <1>4, <2>6, <3>1, <3>2
      <3> QED BY <1>0, <2>1, <2>5, <3>2, <3>3 DEF ItemOK, ClaimKept
    <2>10. pc'[c] # "launching"
      BY <1>7
    <2> QED BY <2>1, <2>4, <2>5, <2>7, <2>8, <2>9, <2>10 DEF ItemOK
  <1>12. ItemOK(c, n)'
    <2>1. ItemOK(c, n)
      BY <1>2 DEF BulkInv, ItemsOK
    <2>2. ~ Ahead(c, n)' /\ ~ (AtWork(c)' /\ n >= at'[c]) /\ pc'[c] # "launching"
      BY <1>4, <1>7 DEF Ahead, AtWork
    <2>3. a \notin ruledOut'[m] /\ a <= mail'[m].attempt
      BY <2>1 DEF ItemOK
    <2>4. /\ result = "unsent" => wire'[m][a] = "none"
          /\ result \in {"accepted", "refused"} => wire'[m][a] = result
      BY <1>2
    <2> HIDE DEF m, a
    <2> QED BY <1>8, <2>2, <2>3, <2>4 DEF ItemOK
  <1>13. \A i \in 1 .. Len(batch'[c]) : ItemOK(c, i)'
    BY <1>3, <1>11, <1>12
  <1> HIDE DEF m, a
  <1> QED BY <1>3, <1>5, <1>6, <1>7, <1>9, <1>10, <1>13

LEMMA HoldKeeps ==
  ASSUME BulkInv, NEW c \in Consumer, Hold(c)
  PROVE  BulkInv'
  <1>1. /\ pc[c] = "checking" /\ Result(c, at[c], "unsent") /\ Advance(c)
        /\ UNCHANGED <<mail, seconds, budget, paused, wire, late, history>>
    BY DEF Hold
  <1>2. AtWork(c) /\ pc[c] # "idle"
    BY <1>1 DEF AtWork
  <1>3. wire[Item(c).msg][Item(c).attempt] = "none"
    <2>1. at[c] \in Nat
      BY DEF BulkInv, Typed
    <2>2. Ahead(c, at[c])
      BY <1>1, <2>1 DEF Ahead
    <2> QED BY <1>2, <2>2, HasItem DEF ItemOK
  <1>4. UNCHANGED <<mail, ruledOut>>
    BY <1>1 DEF history
  <1>5. /\ batch' \in [Consumer -> Seq(Items)]
        /\ pc' \in [Consumer -> Stages]
        /\ at' \in [Consumer -> Nat]
        /\ elapsed' \in [Consumer -> 0 .. SendLease]
        /\ \A d \in Consumer \ {c} :
             /\ batch'[d] = batch[d] /\ pc'[d] = pc[d] /\ at'[d] = at[d]
             /\ elapsed'[d] = elapsed[d]
        /\ KeepsItems(c)
        /\ StageOK(c)'
        /\ pc'[c] \in {"checking", "finishing"}
        /\ \A i \in 1 .. Len(batch'[c]) : ItemOK(c, i)'
    BY <1>1, <1>2, <1>3, <1>4, ItemDecided DEF Results
  <1>6. Typed'
    BY <1>1, <1>5 DEF BulkInv, Typed, history
  <1>7. LateOK(c)'
    BY <1>1, <1>5 DEF BulkInv, LateOK
  <1>8. Alone(c)
    BY <1>1, <1>5 DEF Alone
  <1> QED BY <1>1, <1>5, <1>6, <1>7, <1>8, NothingTouched, ConsumerMoves

\* A helper that answers, or is stopped, settles the item's wire.
LEMMA HelperEndsKeeps ==
  ASSUME BulkInv, NEW c \in Consumer,
         NEW result \in {"accepted", "refused", "unknown"}, HelperEnds(c, result)
  PROVE  BulkInv'
  <1> DEFINE m == Item(c).msg
             a == Item(c).attempt
  <1>1. /\ pc[c] = "sending" /\ Result(c, at[c], result) /\ Advance(c)
        /\ budget' = [budget EXCEPT ![c] = 0]
        /\ UNCHANGED <<mail, seconds, paused, late, history>>
    BY DEF HelperEnds
  <1>2. AtWork(c) /\ pc[c] # "idle"
    BY <1>1 DEF AtWork
  <1>3. /\ m \in Message /\ a \in Submission
        /\ ItemOK(c, at[c]) /\ Item(c) = batch[c][at[c]]
        /\ at[c] \in 1 .. Len(batch[c])
    BY <1>2, HasItem
  <1>4. Typed /\ wire \in [Message -> [Submission -> Wires]]
    BY DEF BulkInv, Typed
  <1>5. /\ result = "accepted" => wire' = wire /\ wire[m][a] = "accepted"
        /\ result = "unknown" => wire' = wire
        /\ result = "refused" => wire' = [wire EXCEPT ![m][a] = "refused"]
    BY DEF HelperEnds
  <1> HIDE DEF m, a
  <1>6. wire' \in [Message -> [Submission -> Wires]]
    BY <1>3, <1>4, <1>5 DEF Wires
  <1>7. \A k \in Message, b \in Submission :
          wire'[k][b] = wire[k][b] \/ (k = m /\ b = a)
    BY <1>3, <1>4, <1>5
  <1>8. result \in {"accepted", "refused"} => wire'[m][a] = result
    BY <1>3, <1>4, <1>5
  <1>9. UNCHANGED <<mail, ruledOut>>
    BY <1>1 DEF history
  <1>10. /\ batch' \in [Consumer -> Seq(Items)]
         /\ pc' \in [Consumer -> Stages]
         /\ at' \in [Consumer -> Nat]
         /\ elapsed' \in [Consumer -> 0 .. SendLease]
         /\ \A d \in Consumer \ {c} :
              /\ batch'[d] = batch[d] /\ pc'[d] = pc[d] /\ at'[d] = at[d]
              /\ elapsed'[d] = elapsed[d]
         /\ KeepsItems(c)
         /\ StageOK(c)'
         /\ pc'[c] \in {"checking", "finishing"}
         /\ \A i \in 1 .. Len(batch'[c]) : ItemOK(c, i)'
    BY <1>1, <1>2, <1>7, <1>8, <1>9, ItemDecided DEF Results, m, a
  <1>11. /\ budget' \in [Consumer -> 0 .. Max({Helper, Stall})]
         /\ \A d \in Consumer \ {c} : budget'[d] = budget[d]
    <2>1. 0 \in 0 .. Max({Helper, Stall})
      BY TimesAreNatural
    <2>2. budget \in [Consumer -> 0 .. Max({Helper, Stall})]
      BY <1>4 DEF Typed
    <2> QED BY <1>1, <2>1, <2>2
  <1>12. Typed'
    BY <1>1, <1>4, <1>6, <1>10, <1>11 DEF Typed, history
  <1>13. LateOK(c)'
    BY <1>1, <1>10 DEF BulkInv, LateOK
  <1>14. Alone(c)
    BY <1>1, <1>10, <1>11 DEF Alone
  <1>15. Mine(c, m, a)
    BY <1>3 DEF Mine, m, a
  <1>16. Touches(c)
    BY <1>1, <1>7, <1>15 DEF Touches, history
  <1>17. ASSUME NEW k \in Message PROVE LedgerOK(k)'
    <2>1. LedgerOK(k) /\ mail' = mail /\ UNCHANGED history
      BY <1>1 DEF BulkInv
    <2>2. ASSUME NEW b \in Submission
          PROVE  \/ wire'[k][b] = wire[k][b]
                 \/ /\ wire'[k][b] = "refused" /\ result = "refused"
                    /\ k = m /\ b = a
      BY <1>3, <1>4, <1>5
    <2>3. result = "refused" => wire[m][a] = "launched"
      BY DEF HelperEnds, m, a
    <2>4. a <= mail[m].attempt
      BY <1>3 DEF ItemOK, m, a
    <2>5. mail[k].attempt \in Nat /\ a \in Nat
      BY <1>3, <1>4, TimesAreNatural DEF Typed, Mails, Submission
    <2>6. ASSUME NEW b \in Submission
          PROVE  /\ b > mail[k].attempt => wire'[k][b] = "none"
                 /\ b \in ruledOut[k] => wire'[k][b] \in {"none", "refused"}
      BY <2>1, <2>2, <2>4, <2>5 DEF LedgerOK
    <2>7. mail[k].state = "delivered" => wire'[k][mail[k].attempt] = "accepted"
      <3>1. SUFFICES ASSUME mail[k].state = "delivered"
                     PROVE  wire'[k][mail[k].attempt] = "accepted"
        OBVIOUS
      <3>2. wire[k][mail[k].attempt] = "accepted" /\ mail[k].attempt > 0
        BY <2>1, <3>1 DEF LedgerOK
      <3>3. mail[k].attempt \in Submission
        BY <1>4, <3>2, TimesAreNatural DEF Typed, Mails, Submission
      <3> QED BY <2>2, <2>3, <3>2, <3>3
    <2> QED BY <2>1, <2>6, <2>7 DEF LedgerOK, history
  <1> QED BY <1>10, <1>12, <1>13, <1>14, <1>16, <1>17, ConsumerMoves

\* The check is made in time, which is what the claim's lease is measured by.
LEMMA CheckKeeps ==
  ASSUME BulkInv, NEW c \in Consumer, Check(c)
  PROVE  BulkInv'
  <1>0. PICK n : n = at[c]
    OBVIOUS
  <1>1. /\ pc[c] = "checking" /\ elapsed[c] < Cutoff /\ ~paused
        /\ pc' = [pc EXCEPT ![c] = "launching"]
        /\ budget' = [budget EXCEPT ![c] = Stall]
        /\ seconds' = [seconds EXCEPT ![c] = Min({Helper, Remaining(c)})]
        /\ Result(c, n, "unknown")
        /\ UNCHANGED <<mail, at, elapsed, paused, wire, late, history>>
    BY <1>0 DEF Check, MayLaunch, HeldNow
  <1>2. Typed /\ StageOK(c) /\ LateOK(c)
    BY DEF BulkInv
  <1>3. /\ n \in 1 .. Len(batch[c]) /\ batch[c][n] \in Items
        /\ ItemOK(c, n) /\ n \in Nat /\ Len(batch[c]) \in Nat
    BY <1>0, <1>1, <1>2, HasItem, BatchTyped
  <1>4. /\ batch' \in [Consumer -> Seq(Items)]
        /\ Len(batch'[c]) = Len(batch[c])
        /\ batch'[c][n] = [batch[c][n] EXCEPT !.result = "unknown"]
        /\ \A j \in 1 .. Len(batch[c]) : j # n => batch'[c][j] = batch[c][j]
        /\ \A d \in Consumer : d # c => batch'[d] = batch[d]
    BY <1>1, <1>2, <1>3, ResultChanges DEF Results
  <1>5. /\ batch'[c][n].msg = batch[c][n].msg
        /\ batch'[c][n].attempt = batch[c][n].attempt
        /\ batch'[c][n].result = "unknown"
    BY <1>3, <1>4 DEF Items
  <1>6. seconds' \in [Consumer -> 0 .. Helper]
    <2>1. Remaining(c) \in Nat
      BY <1>0, <1>2, <1>3, RemainingTyped
    <2>2. Min({Helper, Remaining(c)}) \in 0 .. Helper
      BY <2>1, TimesAreNatural, MinOfTwo
    <2> QED BY <1>1, <1>2, <2>2 DEF Typed
  <1>7. budget' \in [Consumer -> 0 .. Max({Helper, Stall})]
    <2>1. Stall \in 0 .. Max({Helper, Stall})
      BY TimesAreNatural, MaxOfTwo
    <2> QED BY <1>1, <1>2, <2>1 DEF Typed
  <1>8. pc' \in [Consumer -> Stages] /\ pc'[c] = "launching"
    BY <1>1, <1>2 DEF Typed, Stages
  <1>9. Typed'
    BY <1>1, <1>2, <1>4, <1>6, <1>7, <1>8 DEF Typed, history
  <1>10. Alone(c)
    BY <1>1, <1>2, <1>4 DEF Alone, Typed
  <1>11. KeepsItems(c)
    BY <1>4, <1>5 DEF KeepsItems
  <1>12. StageOK(c)'
    <2>1. budget'[c] = Stall /\ elapsed'[c] = elapsed[c] /\ elapsed[c] \in 0 .. SendLease
      BY <1>1, <1>2 DEF Typed
    <2>2. elapsed'[c] + budget'[c] < Cutoff + Stall
      BY <1>1, <2>1, TimesAreNatural
    <2> QED BY <1>0, <1>1, <1>2, <1>3, <1>4, <1>8, <2>2 DEF StageOK
  <1>13. LateOK(c)'
    BY <1>1, <1>2 DEF LateOK
  <1>14. ASSUME NEW i \in 1 .. Len(batch[c]) PROVE ItemOK(c, i)'
    <2>1. ItemOK(c, i) /\ i \in Nat
      BY <1>3 DEF BulkInv, ItemsOK
    <2>2. AtWork(c) /\ AtWork(c)'
      BY <1>1, <1>8 DEF AtWork
    <2>3. Ahead(c, i)' <=> i > n
      BY <1>0, <1>1, <1>8 DEF Ahead
    <2>4. Ahead(c, i) <=> i >= n
      BY <1>0, <1>1 DEF Ahead
    <2>5. /\ batch'[c][i].msg = batch[c][i].msg
          /\ batch'[c][i].attempt = batch[c][i].attempt
      BY <1>4, <1>5
    <2>6. i >= n => ClaimKept(c, i)'
      BY <1>0, <1>1, <2>1, <2>2, <2>5 DEF ItemOK, ClaimKept
    <2>7. CASE i = n
      <3>1. wire[batch[c][n].msg][batch[c][n].attempt] = "none"
        BY <2>1, <2>4, <1>3, <2>7 DEF ItemOK
      <3> QED BY <1>0, <1>1, <1>3, <1>5, <2>1, <2>2, <2>3, <2>6, <2>7, <3>1
              DEF ItemOK, history
    <2>8. CASE i # n
      <3>1. batch'[c][i] = batch[c][i]
        BY <1>4, <2>8
      <3>2. Ahead(c, i)' <=> Ahead(c, i)
        BY <1>3, <2>1, <2>3, <2>4, <2>8
      <3> QED BY <1>0, <1>1, <1>3, <2>1, <2>2, <2>6, <2>8, <3>1, <3>2
              DEF ItemOK, history
    <2> QED BY <2>7, <2>8
  <1>15. \A i \in 1 .. Len(batch'[c]) : ItemOK(c, i)'
    BY <1>4, <1>14
  <1>16. UNCHANGED <<mail, wire, history>>
    BY <1>1
  <1> QED BY <1>9, <1>10, <1>11, <1>12, <1>13, <1>15, <1>16, NothingTouched,
             ConsumerMoves

\* A launch finds the attempt on no wire and ruled out by nobody.
LEMMA LaunchKeeps ==
  ASSUME BulkInv, NEW c \in Consumer, Launch(c)
  PROVE  BulkInv'
  <1>0. PICK n, m, a : n = at[c] /\ m = Item(c).msg /\ a = Item(c).attempt
    OBVIOUS
  <1>1. /\ pc[c] = "launching"
        /\ pc' = [pc EXCEPT ![c] = "sending"]
        /\ budget' = [budget EXCEPT ![c] = seconds[c]]
        /\ seconds' = [seconds EXCEPT ![c] = 0]
        /\ wire' = [wire EXCEPT ![m][a] = "launched"]
        /\ late' = [late EXCEPT ![c] = IF paused THEN @ + 1 ELSE @]
        /\ UNCHANGED <<mail, batch, at, elapsed, paused, history>>
    BY <1>0 DEF Launch
  <1>2. Typed /\ StageOK(c) /\ LateOK(c) /\ OneItemPerAttempt
    BY DEF BulkInv
  <1>3. /\ n \in 1 .. Len(batch[c]) /\ Item(c) = batch[c][n]
        /\ m \in Message /\ a \in Submission
        /\ ItemOK(c, n) /\ n \in Nat /\ Len(batch[c]) \in Nat
    BY <1>0, <1>1, <1>2, HasItem, BatchTyped
  <1>4. /\ a \notin ruledOut[m] /\ a <= mail[m].attempt /\ wire[m][a] = "none"
        /\ ClaimKept(c, n)
    BY <1>0, <1>1, <1>3 DEF ItemOK, AtWork
  <1>5. /\ wire \in [Message -> [Submission -> Wires]]
        /\ wire' \in [Message -> [Submission -> Wires]]
        /\ \A k \in Message, b \in Submission :
             wire'[k][b] = IF k = m /\ b = a THEN "launched" ELSE wire[k][b]
    BY <1>1, <1>2, <1>3 DEF Typed, Wires
  <1>6. seconds' \in [Consumer -> 0 .. Helper]
    <2>1. 0 \in 0 .. Helper
      BY TimesAreNatural
    <2> QED BY <1>1, <1>2, <2>1 DEF Typed
  <1>7. budget' \in [Consumer -> 0 .. Max({Helper, Stall})]
    <2>1. seconds[c] \in 0 .. Helper
      BY <1>2 DEF Typed
    <2>2. seconds[c] \in 0 .. Max({Helper, Stall})
      BY <2>1, TimesAreNatural, MaxOfTwo
    <2> QED BY <1>1, <1>2, <2>2 DEF Typed
  <1>8. /\ pc' \in [Consumer -> Stages] /\ pc'[c] = "sending"
    BY <1>1, <1>2 DEF Typed, Stages
  <1>9. late' \in [Consumer -> {0, 1}] /\ (~paused => late'[c] = 0)
    <2>1. late \in [Consumer -> {0, 1}] /\ late[c] = 0
      BY <1>1, <1>2 DEF Typed, LateOK
    <2>2. late'[c] = IF paused THEN 1 ELSE 0
      BY <1>1, <2>1
    <2>3. late' = [late EXCEPT ![c] = late'[c]]
      BY <1>1, <2>1
    <2> QED BY <2>1, <2>2, <2>3
  <1>10. Typed'
    BY <1>1, <1>2, <1>5, <1>6, <1>7, <1>8, <1>9 DEF Typed, history
  <1>11. Alone(c)
    BY <1>1, <1>2 DEF Alone, Typed
  <1>12. KeepsItems(c)
    BY <1>1 DEF KeepsItems
  <1>13. StageOK(c)'
    <2>1. /\ budget'[c] = seconds[c] /\ seconds[c] \in 0 .. Helper
          /\ elapsed'[c] = elapsed[c] /\ elapsed[c] \in 0 .. SendLease
          /\ budget[c] \in 0 .. Max({Helper, Stall})
      BY <1>1, <1>2 DEF Typed
    <2>2. elapsed[c] + budget[c] < Cutoff + Stall
      BY <1>1, <1>2 DEF StageOK
    <2>3. elapsed[c] < Cutoff + Stall
      BY <2>1, <2>2, TimesAreNatural
    <2>4. /\ elapsed'[c] + budget'[c] < Cutoff + Stall + Helper
          /\ elapsed'[c] + SendMargin <= SendLease
      BY <2>1, <2>3, TimesAreNatural, BulkTiming
    <2> QED BY <1>0, <1>1, <1>2, <1>3, <1>8, <2>4 DEF StageOK
  <1>14. LateOK(c)'
    BY <1>1, <1>8, <1>9 DEF LateOK
  <1>15. ASSUME NEW i \in 1 .. Len(batch[c]) PROVE ItemOK(c, i)'
    <2>1. ItemOK(c, i) /\ i \in Nat /\ batch[c][i] \in Items
      BY <1>2, <1>3, BatchTyped DEF BulkInv, ItemsOK
    <2>2. AtWork(c) /\ AtWork(c)'
      BY <1>1, <1>8 DEF AtWork
    <2>3. Ahead(c, i)' <=> Ahead(c, i)
      BY <1>1, <1>8 DEF Ahead
    <2>4. ClaimKept(c, i) => ClaimKept(c, i)'
      BY <1>1 DEF ClaimKept
    <2>5. CASE i = n
      <3>1. batch[c][n].result = "unknown"
        BY <1>0, <1>1, <1>3 DEF ItemOK
      <3> QED BY <1>0, <1>1, <1>8, <2>1, <2>2, <2>3, <2>4, <2>5, <3>1
              DEF ItemOK, history
    <2>6. CASE i # n
      <3>1. ~ (batch[c][i].msg = m /\ batch[c][i].attempt = a)
        BY <1>0, <1>2, <1>3, <2>6 DEF OneItemPerAttempt
      <3>2. batch[c][i].msg \in Message /\ batch[c][i].attempt \in Submission
        BY <2>1 DEF Items
      <3>3. wire'[batch[c][i].msg][batch[c][i].attempt] =
              wire[batch[c][i].msg][batch[c][i].attempt]
        BY <1>5, <3>1, <3>2
      <3> QED BY <1>1, <1>8, <2>1, <2>2, <2>3, <2>4, <3>3 DEF ItemOK, history
    <2> QED BY <2>5, <2>6
  <1>16. \A i \in 1 .. Len(batch'[c]) : ItemOK(c, i)'
    BY <1>1, <1>15
  <1>17. Touches(c)
    <2>1. Mine(c, m, a)
      BY <1>0, <1>3 DEF Mine
    <2> QED BY <1>1, <1>5, <2>1 DEF Touches, history
  <1>18. ASSUME NEW k \in Message PROVE LedgerOK(k)'
    <2>1. LedgerOK(k) /\ mail' = mail /\ UNCHANGED history
      BY <1>1 DEF BulkInv
    <2>2. mail[k].attempt \in Nat /\ a \in Nat
      BY <1>2, <1>3, TimesAreNatural DEF Typed, Mails, Submission
    <2>3. ASSUME NEW b \in Submission
          PROVE  /\ b > mail[k].attempt => wire'[k][b] = "none"
                 /\ b \in ruledOut[k] => wire'[k][b] \in {"none", "refused"}
      BY <1>4, <1>5, <2>1, <2>2 DEF LedgerOK
    <2>4. mail[k].state = "delivered" => wire'[k][mail[k].attempt] = "accepted"
      <3>1. SUFFICES ASSUME mail[k].state = "delivered"
                     PROVE  wire'[k][mail[k].attempt] = "accepted"
        OBVIOUS
      <3>2. wire[k][mail[k].attempt] = "accepted" /\ mail[k].attempt > 0
        BY <2>1, <3>1 DEF LedgerOK
      <3>3. mail[k].attempt \in Submission
        BY <1>2, <3>2, TimesAreNatural DEF Typed, Mails, Submission
      <3> QED BY <1>4, <1>5, <3>2, <3>3
    <2> QED BY <2>1, <2>3, <2>4 DEF LedgerOK, history
  <1> QED BY <1>10, <1>11, <1>12, <1>13, <1>14, <1>16, <1>17, <1>18,
             ConsumerMoves

\* What the loop did not reach is recorded as unsent, and nothing is sent of
\* it.
LEMMA SendAllRaisesKeeps ==
  ASSUME BulkInv, NEW c \in Consumer, SendAllRaises(c)
  PROVE  BulkInv'
  <1> DEFINE seq == [i \in DOMAIN batch[c] |-> LeftUnanswered(batch[c][i])]
  <1>1. /\ pc[c] = "checking" /\ batch' = [batch EXCEPT ![c] = seq]
        /\ pc' = [pc EXCEPT ![c] = "finishing"]
        /\ at' = [at EXCEPT ![c] = 1]
        /\ elapsed' = [elapsed EXCEPT ![c] = 0]
        /\ UNCHANGED <<mail, seconds, budget, paused, wire, late, history>>
    BY DEF SendAllRaises, Finishing
  <1>2. Typed /\ StageOK(c) /\ LateOK(c)
    BY DEF BulkInv
  <1>3. /\ at[c] \in 1 .. Len(batch[c]) /\ Len(batch[c]) \in Nat
        /\ DOMAIN batch[c] = 1 .. Len(batch[c])
        /\ batch[c] \in [1 .. Len(batch[c]) -> Items]
    BY <1>1, <1>2, HasItem, BatchTyped
  <1>4. ASSUME NEW i \in 1 .. Len(batch[c])
        PROVE  /\ LeftUnanswered(batch[c][i]) \in Items
               /\ LeftUnanswered(batch[c][i]).msg = batch[c][i].msg
               /\ LeftUnanswered(batch[c][i]).attempt = batch[c][i].attempt
               /\ LeftUnanswered(batch[c][i]).result =
                    IF batch[c][i].result = "none" THEN "unsent"
                    ELSE batch[c][i].result
    <2>1. batch[c][i] \in Items
      BY <1>3
    <2> QED BY <2>1 DEF LeftUnanswered, Items, Results
  <1>5. seq \in Seq(Items) /\ Len(seq) = Len(batch[c])
    <2>1. seq \in [1 .. Len(batch[c]) -> Items]
      BY <1>3, <1>4
    <2> QED BY <1>3, <2>1, SequenceOf
  <1>6. \A i \in 1 .. Len(batch[c]) : seq[i] = LeftUnanswered(batch[c][i])
    BY <1>3
  <1> HIDE DEF seq
  <1>7. batch' \in [Consumer -> Seq(Items)] /\ batch'[c] = seq
    BY <1>1, <1>2, <1>5 DEF Typed
  <1>8. /\ pc' \in [Consumer -> Stages] /\ pc'[c] = "finishing"
        /\ at' \in [Consumer -> Nat] /\ at'[c] = 1
    BY <1>1, <1>2 DEF Typed, Stages
  <1>9. elapsed' \in [Consumer -> 0 .. SendLease]
    <2>1. 0 \in 0 .. SendLease
      BY TimesAreNatural
    <2> QED BY <1>1, <1>2, <2>1 DEF Typed
  <1>10. Typed'
    BY <1>1, <1>2, <1>7, <1>8, <1>9 DEF Typed, history
  <1>11. Alone(c)
    BY <1>1, <1>2 DEF Alone, Typed
  <1>12. KeepsItems(c)
    BY <1>4, <1>5, <1>6, <1>7 DEF KeepsItems
  <1>13. StageOK(c)'
    BY <1>2, <1>3, <1>5, <1>7, <1>8 DEF StageOK
  <1>14. LateOK(c)'
    BY <1>1, <1>2, <1>8 DEF LateOK
  <1>15. ASSUME NEW i \in 1 .. Len(batch[c]) PROVE ItemOK(c, i)'
    <2>1. ItemOK(c, i)
      BY DEF BulkInv, ItemsOK
    <2>2. AtWork(c) /\ ~ AtWork(c)' /\ ~ Ahead(c, i)'
      BY <1>1, <1>8 DEF AtWork, Ahead
    <2>3. /\ batch'[c][i].msg = batch[c][i].msg
          /\ batch'[c][i].attempt = batch[c][i].attempt
          /\ batch'[c][i].result = IF batch[c][i].result = "none" THEN "unsent"
                                   ELSE batch[c][i].result
      BY <1>4, <1>6, <1>7
    <2> QED BY <1>1, <1>8, <2>1, <2>2, <2>3 DEF ItemOK, history
  <1>16. \A i \in 1 .. Len(batch'[c]) : ItemOK(c, i)'
    BY <1>5, <1>7, <1>15
  <1>17. UNCHANGED <<mail, wire, history>>
    BY <1>1
  <1> QED BY <1>10, <1>11, <1>12, <1>13, <1>14, <1>16, <1>17, NothingTouched,
             ConsumerMoves

\* A consumer that dies forgets its batch; its messages are recovered.
LEMMA BulkCrashKeeps ==
  ASSUME BulkInv, NEW c \in Consumer, BulkCrash(c)
  PROVE  BulkInv'
  <1>1. /\ batch' = [batch EXCEPT ![c] = <<>>]
        /\ pc' = [pc EXCEPT ![c] = "idle"]
        /\ at' = [at EXCEPT ![c] = 0]
        /\ elapsed' = [elapsed EXCEPT ![c] = 0]
        /\ seconds' = [seconds EXCEPT ![c] = 0]
        /\ budget' = [budget EXCEPT ![c] = 0]
        /\ UNCHANGED <<mail, paused, wire, late, history>>
    BY DEF BulkCrash
  <1>2. Typed /\ LateOK(c)
    BY DEF BulkInv
  <1>3. /\ 0 \in 0 .. SendLease /\ 0 \in 0 .. Helper
        /\ 0 \in 0 .. Max({Helper, Stall}) /\ SendBatch \in Nat
    BY TimesAreNatural
  <1>4. <<>> \in Seq(Items) /\ Len(<<>>) = 0
    BY EmptySeq
  <1>5. /\ batch' \in [Consumer -> Seq(Items)] /\ batch'[c] = <<>>
        /\ pc' \in [Consumer -> Stages] /\ pc'[c] = "idle"
        /\ at' \in [Consumer -> Nat] /\ at'[c] = 0
    BY <1>1, <1>2, <1>4 DEF Typed, Stages
  <1>6. /\ elapsed' \in [Consumer -> 0 .. SendLease]
        /\ seconds' \in [Consumer -> 0 .. Helper]
        /\ budget' \in [Consumer -> 0 .. Max({Helper, Stall})]
    BY <1>1, <1>2, <1>3 DEF Typed
  <1>7. Typed'
    BY <1>1, <1>2, <1>5, <1>6 DEF Typed, history
  <1>8. Alone(c)
    BY <1>1, <1>2 DEF Alone, Typed
  <1>9. KeepsItems(c)
    BY <1>5 DEF KeepsItems
  <1>10. StageOK(c)'
    BY <1>3, <1>4, <1>5 DEF StageOK
  <1>11. LateOK(c)'
    BY <1>1, <1>2, <1>5 DEF LateOK
  <1>12. \A i \in 1 .. Len(batch'[c]) : ItemOK(c, i)'
    BY <1>4, <1>5
  <1>13. UNCHANGED <<mail, wire, history>>
    BY <1>1
  <1> QED BY <1>7, <1>8, <1>9, <1>10, <1>11, <1>12, <1>13, NothingTouched,
             ConsumerMoves

-----------------------------------------------------------------------------
(* The outcomes.                                                           *)

\* The loop over the outcomes goes on, or the batch is forgotten.
LEMMA OutcomeTaken ==
  ASSUME BulkInv, NEW c \in Consumer, pc[c] = "finishing", NextOutcome(c),
         UNCHANGED <<elapsed, seconds, budget, paused, wire, late>>,
         \A m \in Message : mail[m].attempt = mail'[m].attempt,
         \A m \in Message, a \in Submission :
           a \in ruledOut'[m] =>
             a \in ruledOut[m] \/ (m = Item(c).msg /\ a = Item(c).attempt)
  PROVE  /\ batch' \in [Consumer -> Seq(Items)]
         /\ pc' \in [Consumer -> Stages]
         /\ at' \in [Consumer -> Nat]
         /\ Alone(c) /\ KeepsItems(c) /\ StageOK(c)' /\ LateOK(c)'
         /\ \A i \in 1 .. Len(batch'[c]) : ItemOK(c, i)'
  <1>0. PICK n : n = at[c]
    OBVIOUS
  <1>1. Typed /\ StageOK(c) /\ LateOK(c) /\ OneItemPerAttempt
    BY DEF BulkInv
  <1>2. /\ n \in 1 .. Len(batch[c]) /\ Item(c) = batch[c][n]
        /\ n \in Nat /\ Len(batch[c]) \in Nat
    BY <1>0, <1>1, HasItem, BatchTyped
  <1>3. <<>> \in Seq(Items) /\ Len(<<>>) = 0 /\ SendBatch \in Nat
    BY EmptySeq, TimesAreNatural
  <1>4. CASE n < Len(batch[c])
    <2>1. at' = [at EXCEPT ![c] = n + 1] /\ UNCHANGED <<pc, batch>>
      BY <1>0, <1>4 DEF NextOutcome
    <2>2. /\ batch' \in [Consumer -> Seq(Items)]
          /\ pc' \in [Consumer -> Stages]
          /\ at' \in [Consumer -> Nat] /\ at'[c] = n + 1
      BY <1>1, <1>2, <2>1 DEF Typed
    <2>3. Alone(c)
      BY <1>1, <2>1 DEF Alone, Typed
    <2>4. KeepsItems(c)
      BY <2>1 DEF KeepsItems
    <2>5. StageOK(c)'
      BY <1>1, <1>2, <1>4, <2>1, <2>2 DEF StageOK
    <2>6. LateOK(c)'
      BY <1>1, <2>1 DEF LateOK
    <2>7. ASSUME NEW i \in 1 .. Len(batch[c]) PROVE ItemOK(c, i)'
      <3>1. ItemOK(c, i) /\ i \in Nat /\ batch[c][i] \in Items
        BY <1>1, <1>2, BatchTyped DEF BulkInv, ItemsOK
      <3>2. ~ AtWork(c) /\ ~ AtWork(c)' /\ ~ Ahead(c, i) /\ ~ Ahead(c, i)'
        BY <2>1 DEF AtWork, Ahead
      <3>3. batch[c][i].msg \in Message /\ batch[c][i].attempt \in Submission
        BY <3>1 DEF Items
      <3>4. i >= at'[c] => batch[c][i].attempt \notin ruledOut'[batch[c][i].msg]
        <4>1. SUFFICES ASSUME i >= at'[c]
                       PROVE  batch[c][i].attempt \notin ruledOut'[batch[c][i].msg]
          OBVIOUS
        <4>2. i >= at[c] /\ i # n
          BY <1>0, <1>2, <2>2, <3>1, <4>1
        <4>3. batch[c][i].attempt \notin ruledOut[batch[c][i].msg]
          BY <3>1, <4>2 DEF ItemOK
        <4>4. ~ (batch[c][i].msg = Item(c).msg /\ batch[c][i].attempt = Item(c).attempt)
          BY <1>1, <1>2, <4>2 DEF OneItemPerAttempt
        <4> QED BY <3>3, <4>3, <4>4
      <3>5. batch[c][i].attempt <= mail'[batch[c][i].msg].attempt
        BY <3>1, <3>3 DEF ItemOK
      <3> QED BY <2>1, <3>1, <3>2, <3>4, <3>5 DEF ItemOK
    <2> QED BY <2>1, <2>2, <2>3, <2>4, <2>5, <2>6, <2>7
  <1>5. CASE ~ (n < Len(batch[c]))
    <2>1. /\ at' = [at EXCEPT ![c] = 0]
          /\ pc' = [pc EXCEPT ![c] = "idle"]
          /\ batch' = [batch EXCEPT ![c] = <<>>]
      BY <1>0, <1>5 DEF NextOutcome
    <2>2. /\ batch' \in [Consumer -> Seq(Items)] /\ batch'[c] = <<>>
          /\ pc' \in [Consumer -> Stages] /\ pc'[c] = "idle"
          /\ at' \in [Consumer -> Nat] /\ at'[c] = 0
      BY <1>1, <1>3, <2>1 DEF Typed, Stages
    <2>3. Alone(c)
      BY <1>1, <2>1 DEF Alone, Typed
    <2>4. KeepsItems(c)
      BY <2>2 DEF KeepsItems
    <2>5. StageOK(c)'
      BY <1>3, <2>2 DEF StageOK
    <2>6. LateOK(c)'
      BY <1>1, <2>2 DEF LateOK
    <2>7. \A i \in 1 .. Len(batch'[c]) : ItemOK(c, i)'
      BY <1>3, <2>2
    <2> QED BY <2>2, <2>3, <2>4, <2>5, <2>6, <2>7
  <1> QED BY <1>4, <1>5

LEMMA UnrecordedKeeps ==
  ASSUME BulkInv, NEW c \in Consumer, Unrecorded(c)
  PROVE  BulkInv'
  <1>1. /\ pc[c] = "finishing" /\ NextOutcome(c)
        /\ UNCHANGED <<mail, elapsed, seconds, budget, paused, wire, late, history>>
    BY DEF Unrecorded
  <1>2. mail' = mail /\ ruledOut' = ruledOut
    BY <1>1 DEF history
  <1>3. /\ batch' \in [Consumer -> Seq(Items)]
        /\ pc' \in [Consumer -> Stages]
        /\ at' \in [Consumer -> Nat]
        /\ Alone(c) /\ KeepsItems(c) /\ StageOK(c)' /\ LateOK(c)'
        /\ \A i \in 1 .. Len(batch'[c]) : ItemOK(c, i)'
    BY <1>1, <1>2, OutcomeTaken
  <1>4. Typed'
    BY <1>1, <1>3 DEF BulkInv, Typed, history
  <1> QED BY <1>1, <1>3, <1>4, NothingTouched, ConsumerMoves

\* The outcome is written under the very claim of the submission, and says no
\* more than the item's result does.
LEMMA RecordKeeps ==
  ASSUME BulkInv, NEW c \in Consumer,
         NEW state \in {"waiting", "failed", "delivered", "unknown"},
         Record(c, state)
  PROVE  BulkInv'
  <1>0. PICK n, m, a : n = at[c] /\ m = Item(c).msg /\ a = Item(c).attempt
    OBVIOUS
  <1>1. /\ pc[c] = "finishing" /\ state \in States(Item(c).result)
        /\ mail' = [mail EXCEPT ![m].state = state, ![m].lease = 0,
                                ![m].deadline = 0]
        /\ ruledOut' = IF state \in {"waiting", "failed"}
                       THEN [ruledOut EXCEPT ![m] = @ \union {a}]
                       ELSE ruledOut
        /\ NextOutcome(c)
        /\ UNCHANGED <<elapsed, seconds, budget, paused, wire, late, answered>>
    BY <1>0 DEF Record
  <1>2. mail[m].state = "submitting" /\ mail[m].attempt = a
    BY <1>0 DEF Record, Owns
  <1>3. Typed
    BY DEF BulkInv
  <1>4. /\ n \in 1 .. Len(batch[c]) /\ Item(c) = batch[c][n]
        /\ m \in Message /\ a \in Submission /\ Item(c).result \in Results
        /\ ItemOK(c, n)
    BY <1>0, <1>1, HasItem
  <1>5. /\ mail'[m].state = state /\ mail'[m].attempt = a
        /\ mail'[m] \in Mails
        /\ \A k \in Message : k # m => mail'[k] = mail[k]
    <2>1. mail[m] \in Mails /\ mail \in [Message -> Mails]
      BY <1>3, <1>4 DEF Typed
    <2>2. 0 \in 0 .. SendLease /\ 0 \in 0 .. MaxDeadline
      BY TimesAreNatural
    <2>3. mail'[m] = [mail[m] EXCEPT !.state = state, !.lease = 0, !.deadline = 0]
      BY <1>1, <1>4, <2>1
    <2>4. mail'[m].state = state /\ mail'[m].attempt = a /\ mail'[m] \in Mails
      BY <1>2, <2>1, <2>2, <2>3 DEF Mails, MailStates
    <2>5. \A k \in Message : k # m => mail'[k] = mail[k]
      BY <1>1, <2>1
    <2> QED BY <2>4, <2>5
  <1>6. mail' \in [Message -> Mails]
    <2>1. mail' = [k \in Message |-> mail'[k]]
      BY <1>1, <1>3 DEF Typed
    <2>2. \A k \in Message : mail'[k] \in Mails
      BY <1>3, <1>5 DEF Typed
    <2> QED BY <2>1, <2>2
  <1>7. \A k \in Message : mail[k].attempt = mail'[k].attempt
    BY <1>2, <1>5
  <1>8. /\ ruledOut' \in [Message -> SUBSET Submission]
        /\ state \in {"waiting", "failed"} => ruledOut'[m] = ruledOut[m] \union {a}
        /\ state \notin {"waiting", "failed"} => ruledOut'[m] = ruledOut[m]
        /\ \A k \in Message : k # m => ruledOut'[k] = ruledOut[k]
    <2>1. ruledOut \in [Message -> SUBSET Submission]
      BY <1>3 DEF Typed
    <2>2. CASE state \in {"waiting", "failed"}
      <3>1. ruledOut' = [ruledOut EXCEPT ![m] = ruledOut[m] \union {a}]
        BY <1>1, <2>2
      <3> QED BY <1>4, <2>1, <2>2, <3>1
    <2>3. CASE state \notin {"waiting", "failed"}
      BY <1>1, <2>1, <2>3
    <2> QED BY <2>2, <2>3
  <1>9. \A k \in Message, b \in Submission :
          b \in ruledOut'[k] => b \in ruledOut[k] \/ (k = m /\ b = a)
    BY <1>8
  <1>10. /\ batch' \in [Consumer -> Seq(Items)]
         /\ pc' \in [Consumer -> Stages]
         /\ at' \in [Consumer -> Nat]
         /\ Alone(c) /\ KeepsItems(c) /\ StageOK(c)' /\ LateOK(c)'
         /\ \A i \in 1 .. Len(batch'[c]) : ItemOK(c, i)'
    BY <1>0, <1>1, <1>7, <1>9, OutcomeTaken
  <1>11. Typed'
    BY <1>1, <1>3, <1>6, <1>8, <1>10 DEF Typed
  <1>12. Touches(c)
    <2>1. Mine(c, m, a)
      BY <1>0, <1>4 DEF Mine
    <2> QED BY <1>1, <1>2, <1>5, <1>7, <1>9, <2>1 DEF Touches
  <1>13. /\ state \in {"waiting", "failed"} => wire[m][a] \in {"none", "refused"}
         /\ state = "delivered" => wire[m][a] = "accepted"
    <2>1. ~ Ahead(c, n)
      BY <1>1 DEF Ahead
    <2>2. Item(c).result # "none"
      BY <1>4, <2>1 DEF ItemOK
    <2>3. /\ state \in {"waiting", "failed"} => Item(c).result \in {"unsent", "refused"}
          /\ state = "delivered" => Item(c).result = "accepted"
      BY <1>1, <1>4, <2>2 DEF States, Results
    <2> QED BY <1>0, <1>4, <2>3 DEF ItemOK
  <1>14. ASSUME NEW k \in Message PROVE LedgerOK(k)'
    <2>1. LedgerOK(k) /\ wire' = wire /\ answered' = answered
      BY <1>1 DEF BulkInv
    <2>2. CASE k # m
      BY <1>5, <1>8, <2>1, <2>2 DEF LedgerOK
    <2>3. CASE k = m
      <3>1. a \in Nat /\ a > 0
        BY <1>4, TimesAreNatural DEF Submission
      <3>2. ASSUME NEW b \in Submission
            PROVE  /\ b > a => wire[m][b] = "none" /\ b \notin ruledOut'[m]
                   /\ b < a => b \in ruledOut'[m] \union answered[m]
                   /\ b \in ruledOut'[m] => wire[m][b] \in {"none", "refused"}
        BY <1>2, <1>8, <1>13, <2>1, <2>3, <3>1 DEF LedgerOK
      <3> QED BY <1>5, <1>8, <1>13, <2>1, <2>3, <3>1, <3>2 DEF LedgerOK
    <2> QED BY <2>2, <2>3
  <1> QED BY <1>10, <1>11, <1>12, <1>14, ConsumerMoves

-----------------------------------------------------------------------------
(* A new batch.                                                            *)

\* Every message of a new batch is waiting, so no other batch can still count
\* on its claim, and its attempt is a new one.
LEMMA BeginKeeps ==
  ASSUME BulkInv, NEW c \in Consumer, NEW order \in Orders, Begin(c, order)
  PROVE  BulkInv'
  <1>1. PICK n \in 1 .. SendBatch : order \in Injection(1 .. n, Message)
    BY DEF Orders
  <1>2. /\ n \in Nat /\ n >= 1 /\ n <= SendBatch
        /\ order \in [1 .. n -> Message] /\ DOMAIN order = 1 .. n
        /\ \A i, j \in 1 .. n : order[i] = order[j] => i = j
    BY <1>1, TimesAreNatural DEF Injection, IsInjective
  <1> DEFINE new == [i \in 1 .. n |->
                       [msg |-> order[i], attempt |-> mail[order[i]].attempt + 1,
                        result |-> "none"]]
  <1>3. /\ pc[c] = "idle" /\ ~paused
        /\ batch' = [batch EXCEPT ![c] = new]
        /\ pc' = [pc EXCEPT ![c] = "checking"]
        /\ at' = [at EXCEPT ![c] = 1]
        /\ elapsed' = [elapsed EXCEPT ![c] = 0]
        /\ UNCHANGED <<seconds, budget, paused, wire, late, history>>
    BY <1>2 DEF Begin
  <1>4. Typed /\ StageOK(c) /\ LateOK(c) /\ OneItemPerAttempt
    BY DEF BulkInv
  <1>5. ASSUME NEW i \in 1 .. n
        PROVE  /\ order[i] \in Message
               /\ mail[order[i]].state = "waiting"
               /\ mail[order[i]].attempt \in 0 .. MaxSend
               /\ mail[order[i]].attempt < MaxSend
               /\ mail[order[i]].attempt + 1 \in Submission
    <2>1. /\ order[i] \in Message /\ mail[order[i]].state = "waiting"
          /\ mail[order[i]].attempt < MaxSend
      BY <1>2 DEF Begin
    <2>2. mail[order[i]].attempt \in 0 .. MaxSend
      BY <1>4, <2>1 DEF Typed, Mails
    <2>3. mail[order[i]].attempt + 1 \in Submission
      BY <2>1, <2>2, TimesAreNatural DEF Submission
    <2> QED BY <2>1, <2>2, <2>3
  <1>6. ASSUME NEW m \in Message, m \in Range(order)
        PROVE  /\ mail[m].state = "waiting"
               /\ mail[m].attempt \in Nat
               /\ mail'[m] \in Mails
               /\ mail'[m].state = "submitting"
               /\ mail'[m].attempt = mail[m].attempt + 1
               /\ mail'[m].lease = SendLease
    <2>1. PICK i \in 1 .. n : order[i] = m
      BY <1>2, <1>6 DEF Range
    <2>2. /\ mail[m].state = "waiting" /\ mail[m].attempt \in 0 .. MaxSend
          /\ mail[m].attempt + 1 \in Submission
      BY <1>5, <2>1
    <2> DEFINE p == CHOOSE j \in DOMAIN order : order[j] = m
    <2>3. p \in 1 .. n
      BY <1>2, <2>1
    <2>4. mail'[m] = [state |-> "submitting", attempt |-> mail[m].attempt + 1,
                      lease |-> SendLease, deadline |-> Deadline(p)]
      BY <1>6 DEF Begin
    <2>5. Deadline(p) \in 0 .. MaxDeadline
      <3> HIDE DEF p
      <3>1. p \in Nat \ {0}
        BY <2>3
      <3> QED BY <3>1, DeadlineTyped
    <2> HIDE DEF p
    <2>6. /\ SendLease \in 0 .. SendLease /\ mail[m].attempt + 1 \in 0 .. MaxSend
          /\ mail[m].attempt \in Nat
      BY <2>2, TimesAreNatural DEF Submission
    <2> QED BY <2>2, <2>4, <2>5, <2>6 DEF Mails, MailStates
  <1>7. ASSUME NEW m \in Message, m \notin Range(order)
        PROVE  mail'[m] = mail[m]
    BY <1>7 DEF Begin
  <1>8. mail' \in [Message -> Mails]
    <2>1. mail' = [m \in Message |-> mail'[m]]
      BY DEF Begin
    <2>2. \A m \in Message : mail'[m] \in Mails
      BY <1>4, <1>6, <1>7 DEF Typed
    <2> QED BY <2>1, <2>2
  <1>9. new \in Seq(Items) /\ Len(new) = n
    <2>1. \A i \in 1 .. n : new[i] \in Items
      BY <1>5 DEF Items, Results
    <2>2. new \in [1 .. n -> Items]
      BY <2>1
    <2> QED BY <1>2, <2>2, SequenceOf
  <1>10. ASSUME NEW i \in 1 .. n
         PROVE  /\ new[i].msg = order[i] /\ new[i].result = "none"
                /\ new[i].attempt = mail[order[i]].attempt + 1
    OBVIOUS
  <1> HIDE DEF new
  <1>11. batch' \in [Consumer -> Seq(Items)] /\ batch'[c] = new
    BY <1>3, <1>4, <1>9 DEF Typed
  <1>12. /\ pc' \in [Consumer -> Stages] /\ pc'[c] = "checking"
         /\ at' \in [Consumer -> Nat] /\ at'[c] = 1
    BY <1>3, <1>4 DEF Typed, Stages
  <1>13. elapsed' \in [Consumer -> 0 .. SendLease] /\ elapsed'[c] = 0
    <2>1. 0 \in 0 .. SendLease
      BY TimesAreNatural
    <2> QED BY <1>3, <1>4, <2>1 DEF Typed
  <1>14. Typed'
    BY <1>3, <1>4, <1>8, <1>11, <1>12, <1>13 DEF Typed, history
  <1>15. Alone(c)
    BY <1>3, <1>4 DEF Alone, Typed
  <1>16. ASSUME NEW d \in Consumer PROVE StageOK(d)' /\ LateOK(d)'
    <2>1. CASE d # c
      <3>1. StageOK(d) /\ LateOK(d)
        BY DEF BulkInv
      <3>2. StageOK(d)'
        BY <1>15, <2>1, <3>1 DEF Alone, StageOK
      <3>3. LateOK(d)'
        BY <1>15, <2>1, <3>1 DEF Alone, LateOK
      <3> QED BY <3>2, <3>3
    <2>2. CASE d = c
      <3>1. StageOK(c)'
        BY <1>2, <1>9, <1>11, <1>12 DEF StageOK
      <3>2. LateOK(c)'
        BY <1>3, <1>4, <1>12 DEF LateOK
      <3> QED BY <2>2, <3>1, <3>2
    <2> QED BY <2>1, <2>2
  <1>17. ASSUME NEW m \in Message PROVE mail[m].attempt \in Nat
    BY <1>4, TimesAreNatural DEF Typed, Mails
  <1>18. ASSUME NEW i \in 1 .. n PROVE ItemOK(c, i)'
    <2>1. order[i] \in Range(order) /\ order[i] \in Message
      BY <1>2 DEF Range
    <2>2. LedgerOK(order[i]) /\ mail[order[i]].attempt + 1 \in Submission
      BY <1>5, <2>1 DEF BulkInv
    <2> DEFINE b == mail[order[i]].attempt + 1
    <2>3. b > mail[order[i]].attempt
      BY <1>17, <2>1
    <2>4. wire[order[i]][b] = "none" /\ b \notin ruledOut[order[i]]
      BY <2>2, <2>3 DEF LedgerOK
    <2>5. /\ mail'[order[i]].state = "submitting" /\ mail'[order[i]].attempt = b
          /\ mail'[order[i]].lease = SendLease
      BY <1>6, <2>1
    <2>6. /\ batch'[c][i].msg = order[i] /\ batch'[c][i].attempt = b
          /\ batch'[c][i].result = "none"
      BY <1>10, <1>11
    <2>7. b \in Nat /\ SendLease \in Nat
      BY <1>17, <2>1, TimesAreNatural
    <2> HIDE DEF b
    <2>8. Ahead(c, i)'
      BY <1>2, <1>12 DEF Ahead
    <2>9. ClaimKept(c, i)'
      BY <1>13, <2>5, <2>6, <2>7 DEF ClaimKept
    <2>10. b <= mail'[order[i]].attempt
      BY <2>5, <2>7
    <2>11. wire'[order[i]][b] = "none" /\ b \notin ruledOut'[order[i]]
      BY <1>3, <2>4 DEF history
    <2> QED BY <1>12, <2>6, <2>8, <2>9, <2>10, <2>11 DEF ItemOK
  <1>19. ASSUME NEW d \in Consumer, d # c, NEW i \in 1 .. Len(batch[d])
         PROVE  ItemOK(d, i)'
    <2> DEFINE m == batch[d][i].msg
    <2>1. ItemOK(d, i)
      BY DEF BulkInv, ItemsOK
    <2>2. batch[d][i] \in Items
      BY <1>4, BatchTyped
    <2>3. m \in Message /\ batch[d][i].attempt \in Nat
      BY <2>2, TimesAreNatural DEF Items, Submission
    <2>4. /\ batch'[d] = batch[d] /\ pc'[d] = pc[d] /\ at'[d] = at[d]
          /\ elapsed'[d] = elapsed[d]
      BY <1>15, <1>19 DEF Alone
    <2>5. batch[d][i].attempt <= mail'[m].attempt
      <3>1. batch[d][i].attempt <= mail[m].attempt
        BY <2>1 DEF ItemOK
      <3>2. mail'[m].attempt = mail[m].attempt \/ mail'[m].attempt = mail[m].attempt + 1
        BY <1>6, <1>7, <2>3
      <3> QED BY <1>17, <2>3, <3>1, <3>2
    <2>6. ClaimKept(d, i) => ClaimKept(d, i)'
      <3>1. CASE m \in Range(order)
        <4>1. mail[m].state # "submitting"
          BY <1>6, <2>3, <3>1
        <4> QED BY <2>4, <4>1 DEF ClaimKept
      <3>2. CASE m \notin Range(order)
        <4>1. mail'[m] = mail[m]
          BY <1>7, <2>3, <3>2
        <4> QED BY <2>4, <4>1 DEF ClaimKept
      <3> QED BY <3>1, <3>2
    <2>7. (AtWork(d)' <=> AtWork(d)) /\ (Ahead(d, i)' <=> Ahead(d, i))
      BY <2>4 DEF AtWork, Ahead
    <2> QED BY <1>3, <2>1, <2>4, <2>5, <2>6, <2>7 DEF ItemOK, history
  <1>20. ItemsOK'
    <2> SUFFICES ASSUME NEW d \in Consumer, NEW i \in 1 .. Len(batch'[d])
                 PROVE  ItemOK(d, i)'
      BY DEF ItemsOK
    <2>1. CASE d = c BY <1>9, <1>11, <1>18, <2>1
    <2>2. CASE d # c
      <3>1. batch'[d] = batch[d]
        BY <1>15, <2>2 DEF Alone
      <3> QED BY <1>19, <2>2, <3>1
    <2> QED BY <2>1, <2>2
  <1>21. OneItemPerAttempt'
    <2>1. ASSUME NEW d \in Consumer, d # c, NEW j \in 1 .. Len(batch[d]),
                 NEW i \in 1 .. n
          PROVE  ~ (new[i].msg = batch[d][j].msg /\ new[i].attempt = batch[d][j].attempt)
      <3>1. ItemOK(d, j) /\ batch[d][j] \in Items
        BY <1>4, BatchTyped DEF BulkInv, ItemsOK
      <3>2. batch[d][j].attempt \in Nat /\ batch[d][j].msg \in Message
        BY <3>1, TimesAreNatural DEF Items, Submission
      <3>3. batch[d][j].attempt <= mail[batch[d][j].msg].attempt
        BY <3>1 DEF ItemOK
      <3>4. mail[batch[d][j].msg].attempt + 1 # batch[d][j].attempt
        BY <1>17, <3>2, <3>3
      <3> QED BY <1>10, <3>4
    <2>2. \A d \in Consumer : d # c => batch'[d] = batch[d]
      BY <1>15 DEF Alone
    <2>3. \A i, j \in 1 .. n : new[i].msg = new[j].msg => i = j
      BY <1>2, <1>10
    <2> SUFFICES ASSUME NEW d \in Consumer, NEW e \in Consumer,
                        NEW i \in 1 .. Len(batch'[d]), NEW j \in 1 .. Len(batch'[e]),
                        batch'[d][i].msg = batch'[e][j].msg,
                        batch'[d][i].attempt = batch'[e][j].attempt
                 PROVE  d = e /\ i = j
      BY DEF OneItemPerAttempt
    <2>4. CASE d = c /\ e = c
      BY <1>9, <1>11, <2>3, <2>4
    <2>5. CASE d = c /\ e # c
      BY <1>9, <1>11, <2>1, <2>2, <2>5
    <2>6. CASE d # c /\ e = c
      BY <1>9, <1>11, <2>1, <2>2, <2>6
    <2>7. CASE d # c /\ e # c
      BY <1>4, <2>2, <2>7 DEF OneItemPerAttempt
    <2> QED BY <2>4, <2>5, <2>6, <2>7
  <1>22. ASSUME NEW m \in Message PROVE LedgerOK(m)'
    <2>1. LedgerOK(m) /\ wire' = wire /\ ruledOut' = ruledOut /\ answered' = answered
      BY <1>3 DEF BulkInv, history
    <2>2. CASE m \notin Range(order)
      BY <1>7, <2>1, <2>2 DEF LedgerOK
    <2>3. CASE m \in Range(order)
      <3>1. /\ mail[m].state = "waiting" /\ mail'[m].state = "submitting"
            /\ mail'[m].attempt = mail[m].attempt + 1 /\ mail[m].attempt \in Nat
        BY <1>6, <2>3
      <3>2. ASSUME NEW b \in Submission
            PROVE  /\ b > mail'[m].attempt => wire[m][b] = "none" /\ b \notin ruledOut[m]
                   /\ b < mail'[m].attempt => b \in ruledOut[m] \union answered[m]
        <4>1. b \in Nat /\ b > 0
          BY TimesAreNatural DEF Submission
        <4>2. b > mail'[m].attempt => b > mail[m].attempt
          BY <3>1, <4>1
        <4>3. b < mail'[m].attempt => b < mail[m].attempt \/ (b = mail[m].attempt /\ mail[m].attempt # 0)
          BY <3>1, <4>1
        <4> QED BY <2>1, <3>1, <4>2, <4>3 DEF LedgerOK
      <3>3. mail'[m].attempt > 0
        BY <3>1
      <3> QED BY <2>1, <3>1, <3>2, <3>3 DEF LedgerOK
    <2> QED BY <2>2, <2>3
  <1> QED BY <1>14, <1>16, <1>20, <1>21, <1>22 DEF BulkInv

-----------------------------------------------------------------------------
(* The provider, recovery, the Administrator and time.                     *)

\* The consumers' memory is left alone.
LEMMA ServiceMoves ==
  ASSUME BulkInv, Typed',
         UNCHANGED <<batch, pc, at, elapsed, budget, paused, late>>,
         \A c \in Consumer : \A i \in 1 .. Len(batch[c]) : ItemOK(c, i)',
         \A m \in Message : LedgerOK(m)'
  PROVE  BulkInv'
  <1>1. ASSUME NEW c \in Consumer PROVE StageOK(c)' /\ LateOK(c)'
    <2>1. StageOK(c) /\ LateOK(c)
      BY DEF BulkInv
    <2>2. StageOK(c)'
      BY <2>1 DEF StageOK
    <2>3. LateOK(c)'
      BY <2>1 DEF LateOK
    <2> QED BY <2>2, <2>3
  <1>2. ItemsOK'
    BY DEF ItemsOK
  <1>3. OneItemPerAttempt'
    BY DEF BulkInv, OneItemPerAttempt
  <1> QED BY <1>1, <1>2, <1>3 DEF BulkInv

\* Only a launched attempt is accepted, and no record speaks of one.
LEMMA AcceptKeeps ==
  ASSUME BulkInv, NEW m \in Message, NEW a \in Submission, Accept(m, a)
  PROVE  BulkInv'
  <1>1. /\ wire[m][a] = "launched"
        /\ wire' = [wire EXCEPT ![m][a] = "accepted"]
        /\ UNCHANGED <<mail, batch, pc, at, elapsed, seconds, budget, paused, late,
                       history>>
    BY DEF Accept
  <1>2. Typed
    BY DEF BulkInv
  <1>3. /\ wire' \in [Message -> [Submission -> Wires]]
        /\ \A k \in Message, b \in Submission :
             wire'[k][b] = wire[k][b]
               \/ (wire[k][b] = "launched" /\ wire'[k][b] = "accepted")
    BY <1>1, <1>2 DEF Typed, Wires
  <1>4. Typed'
    BY <1>1, <1>2, <1>3 DEF Typed, history
  <1>5. ASSUME NEW c \in Consumer, NEW i \in 1 .. Len(batch[c])
        PROVE  ItemOK(c, i)'
    <2>1. ItemOK(c, i) /\ batch[c][i] \in Items
      BY <1>2, BatchTyped DEF BulkInv, ItemsOK
    <2>2. batch[c][i].msg \in Message /\ batch[c][i].attempt \in Submission
      BY <2>1 DEF Items
    <2>3. (AtWork(c)' <=> AtWork(c)) /\ (Ahead(c, i)' <=> Ahead(c, i))
      BY <1>1 DEF AtWork, Ahead
    <2>4. ClaimKept(c, i) => ClaimKept(c, i)'
      BY <1>1 DEF ClaimKept
    <2> QED BY <1>1, <1>3, <2>1, <2>2, <2>3, <2>4 DEF ItemOK, history
  <1>6. ASSUME NEW k \in Message PROVE LedgerOK(k)'
    <2>1. LedgerOK(k) /\ mail' = mail /\ UNCHANGED history
      BY <1>1 DEF BulkInv
    <2>2. ASSUME NEW b \in Submission
          PROVE  /\ b > mail[k].attempt => wire'[k][b] = "none"
                 /\ b \in ruledOut[k] => wire'[k][b] \in {"none", "refused"}
      BY <1>3, <2>1 DEF LedgerOK
    <2>3. mail[k].state = "delivered" => wire'[k][mail[k].attempt] = "accepted"
      <3>1. SUFFICES ASSUME mail[k].state = "delivered"
                     PROVE  wire'[k][mail[k].attempt] = "accepted"
        OBVIOUS
      <3>2. wire[k][mail[k].attempt] = "accepted" /\ mail[k].attempt > 0
        BY <2>1, <3>1 DEF LedgerOK
      <3>3. mail[k].attempt \in Submission
        BY <1>2, <3>2, TimesAreNatural DEF Typed, Mails, Submission
      <3> QED BY <1>3, <3>2, <3>3
    <2> QED BY <2>1, <2>2, <2>3 DEF LedgerOK, history
  <1> QED BY <1>1, <1>4, <1>5, <1>6, ServiceMoves

\* Recovery waits for the lease, so it takes no claim a consumer counts on.
LEMMA RecoverKeeps ==
  ASSUME BulkInv, NEW m \in Message, Recover(m)
  PROVE  BulkInv'
  <1>1. /\ mail[m].state = "submitting" /\ mail[m].lease = 0
        /\ mail' = [mail EXCEPT ![m].state = "unknown"]
        /\ UNCHANGED <<batch, pc, at, elapsed, seconds, budget, paused, wire, late,
                       history>>
    BY DEF Recover
  <1>2. Typed /\ mail \in [Message -> Mails] /\ mail[m] \in Mails
    BY DEF BulkInv, Typed
  <1>3. /\ mail'[m] = [mail[m] EXCEPT !.state = "unknown"]
        /\ \A k \in Message : k # m => mail'[k] = mail[k]
    BY <1>1, <1>2
  <1>4. /\ mail'[m] \in Mails /\ mail'[m].state = "unknown"
        /\ mail'[m].attempt = mail[m].attempt
    BY <1>2, <1>3 DEF Mails, MailStates
  <1>5. mail' \in [Message -> Mails]
    <2>1. mail' = [k \in Message |-> mail'[k]]
      BY <1>1, <1>2
    <2>2. \A k \in Message : mail'[k] \in Mails
      BY <1>2, <1>3, <1>4
    <2> QED BY <2>1, <2>2
  <1>6. Typed'
    BY <1>1, <1>2, <1>5 DEF Typed, history
  <1>7. ASSUME NEW c \in Consumer, NEW i \in 1 .. Len(batch[c])
        PROVE  ItemOK(c, i)'
    <2> DEFINE k == batch[c][i].msg
    <2>1. ItemOK(c, i) /\ batch[c][i] \in Items
      BY <1>2, BatchTyped DEF BulkInv, ItemsOK
    <2>2. k \in Message
      BY <2>1 DEF Items
    <2>3. (AtWork(c)' <=> AtWork(c)) /\ (Ahead(c, i)' <=> Ahead(c, i))
      BY <1>1 DEF AtWork, Ahead
    <2>4. ClaimKept(c, i) => ClaimKept(c, i)'
      <3>1. CASE k = m
        <4>1. elapsed[c] \in 0 .. SendLease /\ SendLease \in Nat
          BY <1>2, TimesAreNatural DEF Typed
        <4>2. elapsed[c] < SendLease => ~ (mail[k].lease + elapsed[c] >= SendLease)
          BY <1>1, <3>1, <4>1
        <4> QED BY <1>1, <4>2 DEF ClaimKept
      <3>2. CASE k # m
        BY <1>1, <1>3, <2>2, <3>2 DEF ClaimKept
      <3> QED BY <3>1, <3>2
    <2>5. mail'[k].attempt = mail[k].attempt
      BY <1>3, <1>4, <2>2
    <2> QED BY <1>1, <2>1, <2>3, <2>4, <2>5 DEF ItemOK, history
  <1>8. ASSUME NEW k \in Message PROVE LedgerOK(k)'
    <2>1. LedgerOK(k) /\ UNCHANGED <<wire, ruledOut, answered>>
      BY <1>1 DEF BulkInv, history
    <2>2. CASE k = m BY <1>1, <1>4, <2>1, <2>2 DEF LedgerOK
    <2>3. CASE k # m BY <1>3, <2>1, <2>3 DEF LedgerOK
    <2> QED BY <2>2, <2>3
  <1> QED BY <1>1, <1>6, <1>7, <1>8, ServiceMoves

LEMMA ResendKeeps ==
  ASSUME BulkInv, NEW m \in Message, Resend(m)
  PROVE  BulkInv'
  <1>1. /\ mail[m].state = "unknown"
        /\ mail' = [mail EXCEPT ![m].state = "waiting"]
        /\ answered' = [answered EXCEPT ![m] = @ \union {mail[m].attempt}]
        /\ UNCHANGED <<batch, pc, at, elapsed, seconds, budget, paused, wire, late,
                       ruledOut>>
    BY DEF Resend
  <1>2. /\ Typed /\ mail \in [Message -> Mails] /\ mail[m] \in Mails
        /\ answered \in [Message -> SUBSET Submission] /\ LedgerOK(m)
    BY DEF BulkInv, Typed
  <1>3. /\ mail'[m] = [mail[m] EXCEPT !.state = "waiting"]
        /\ \A k \in Message : k # m => mail'[k] = mail[k]
    BY <1>1, <1>2
  <1>4. /\ mail'[m] \in Mails /\ mail'[m].state = "waiting"
        /\ mail'[m].attempt = mail[m].attempt
    BY <1>2, <1>3 DEF Mails, MailStates
  <1>5. mail' \in [Message -> Mails]
    <2>1. mail' = [k \in Message |-> mail'[k]]
      BY <1>1, <1>2
    <2>2. \A k \in Message : mail'[k] \in Mails
      BY <1>2, <1>3, <1>4
    <2> QED BY <2>1, <2>2
  <1>6. mail[m].attempt \in Submission
    <2>1. mail[m].attempt > 0 /\ mail[m].attempt \in 0 .. MaxSend
      BY <1>1, <1>2 DEF LedgerOK, Mails
    <2> QED BY <2>1, TimesAreNatural DEF Submission
  <1>7. /\ answered' \in [Message -> SUBSET Submission]
        /\ answered'[m] = answered[m] \union {mail[m].attempt}
        /\ \A k \in Message : k # m => answered'[k] = answered[k]
    BY <1>1, <1>2, <1>6
  <1>8. Typed'
    BY <1>1, <1>2, <1>5, <1>7 DEF Typed
  <1>9. ASSUME NEW c \in Consumer, NEW i \in 1 .. Len(batch[c])
        PROVE  ItemOK(c, i)'
    <2> DEFINE k == batch[c][i].msg
    <2>1. ItemOK(c, i) /\ batch[c][i] \in Items
      BY <1>2, BatchTyped DEF BulkInv, ItemsOK
    <2>2. k \in Message
      BY <2>1 DEF Items
    <2>3. (AtWork(c)' <=> AtWork(c)) /\ (Ahead(c, i)' <=> Ahead(c, i))
      BY <1>1 DEF AtWork, Ahead
    <2>4. ClaimKept(c, i) => ClaimKept(c, i)'
      <3>1. CASE k = m BY <1>1, <3>1 DEF ClaimKept
      <3>2. CASE k # m BY <1>1, <1>3, <2>2, <3>2 DEF ClaimKept
      <3> QED BY <3>1, <3>2
    <2>5. mail'[k].attempt = mail[k].attempt
      BY <1>3, <1>4, <2>2
    <2> QED BY <1>1, <2>1, <2>3, <2>4, <2>5 DEF ItemOK
  <1>10. ASSUME NEW k \in Message PROVE LedgerOK(k)'
    <2>1. LedgerOK(k) /\ UNCHANGED <<wire, ruledOut>>
      BY <1>1 DEF BulkInv
    <2>2. CASE k = m BY <1>4, <1>7, <2>1, <2>2 DEF LedgerOK
    <2>3. CASE k # m BY <1>3, <1>7, <2>1, <2>3 DEF LedgerOK
    <2> QED BY <2>2, <2>3
  <1> QED BY <1>1, <1>8, <1>9, <1>10, ServiceMoves

LEMMA PauseKeeps ==
  ASSUME BulkInv, Pause
  PROVE  BulkInv'
  <1>1. /\ paused' = ~paused /\ late' = [c \in Consumer |-> 0]
        /\ UNCHANGED <<mail, batch, pc, at, elapsed, seconds, budget, wire, history>>
    BY DEF Pause
  <1>2. Typed'
    BY <1>1 DEF BulkInv, Typed, history
  <1>3. ASSUME NEW c \in Consumer PROVE StageOK(c)' /\ LateOK(c)'
    <2>1. StageOK(c)
      BY DEF BulkInv
    <2>2. StageOK(c)'
      BY <1>1, <2>1 DEF StageOK
    <2>3. LateOK(c)'
      BY <1>1 DEF LateOK
    <2> QED BY <2>2, <2>3
  <1>4. ItemsOK'
    <2> SUFFICES ASSUME NEW c \in Consumer, NEW i \in 1 .. Len(batch[c])
                 PROVE  ItemOK(c, i)'
      BY <1>1 DEF ItemsOK
    <2>1. ItemOK(c, i)
      BY DEF BulkInv, ItemsOK
    <2> QED BY <1>1, <2>1 DEF ItemOK, Ahead, AtWork, ClaimKept, history
  <1>5. OneItemPerAttempt'
    BY <1>1 DEF BulkInv, OneItemPerAttempt
  <1>6. \A m \in Message : LedgerOK(m)'
    BY <1>1 DEF BulkInv, LedgerOK, history
  <1> QED BY <1>2, <1>3, <1>4, <1>5, <1>6 DEF BulkInv

\* While a consumer is at work its clock and its claims' leases run together.
LEMMA TickKeeps ==
  ASSUME BulkInv, Tick
  PROVE  BulkInv'
  <1>1. Typed /\ UNCHANGED <<batch, pc, at, seconds, paused, wire, late, history>>
    BY Zenon DEF BulkInv, Tick
  <1>g. \A c \in Consumer : /\ pc[c] = "launching" => budget[c] > 0
                            /\ pc[c] = "sending" => HelperMayRun(c)
    BY Zenon DEF Tick
  <1>t. /\ elapsed' = [c \in Consumer |->
                         IF pc[c] \in {"idle", "finishing"} THEN 0
                         ELSE Min({elapsed[c] + 1, SendLease})]
        /\ budget' = [c \in Consumer |-> Down(budget[c])]
    BY Zenon DEF Tick
  <1>m. mail' = [m \in Message |-> [mail[m] EXCEPT !.lease = Down(@),
                                                  !.deadline = Down(@)]]
    BY Zenon DEF Tick
  <1>2. ASSUME NEW c \in Consumer
        PROVE  /\ elapsed[c] \in Nat /\ elapsed[c] <= SendLease
               /\ budget[c] \in Nat /\ budget[c] <= Max({Helper, Stall})
    <2>1. elapsed[c] \in 0 .. SendLease /\ budget[c] \in 0 .. Max({Helper, Stall})
      BY <1>1 DEF Typed
    <2> QED BY <2>1, TimesAreNatural
  <1>3. ASSUME NEW c \in Consumer
        PROVE  /\ elapsed'[c] \in 0 .. SendLease
               /\ AtWork(c) /\ elapsed[c] < SendLease => elapsed'[c] = elapsed[c] + 1
               /\ AtWork(c) /\ elapsed[c] >= SendLease => elapsed'[c] = SendLease
    <2>1. elapsed'[c] = IF pc[c] \in {"idle", "finishing"} THEN 0
                        ELSE Min({elapsed[c] + 1, SendLease})
      BY <1>t
    <2>2. CASE pc[c] \in {"idle", "finishing"}
      BY <2>1, <2>2, TimesAreNatural DEF AtWork
    <2>3. CASE pc[c] \notin {"idle", "finishing"}
      <3>1. elapsed'[c] = Min({elapsed[c] + 1, SendLease})
        BY <2>1, <2>3
      <3>2. elapsed[c] + 1 \in Nat /\ SendLease \in Nat
        BY <1>2, TimesAreNatural
      <3>3. /\ elapsed'[c] \in Nat /\ elapsed'[c] <= elapsed[c] + 1
            /\ elapsed'[c] <= SendLease
            /\ elapsed'[c] = elapsed[c] + 1 \/ elapsed'[c] = SendLease
        BY <3>1, <3>2, MinOfTwo
      <3> QED BY <1>2, <3>2, <3>3
    <2> QED BY <2>2, <2>3
  <1>4. ASSUME NEW c \in Consumer
        PROVE  /\ budget'[c] \in 0 .. Max({Helper, Stall})
               /\ budget[c] > 0 => budget'[c] = budget[c] - 1
    <2>1. budget'[c] = Down(budget[c])
      BY <1>t
    <2> QED BY <1>2, <2>1, TimesAreNatural DEF Down
  <1>5. ASSUME NEW m \in Message
        PROVE  /\ mail'[m] \in Mails
               /\ mail'[m].state = mail[m].state
               /\ mail'[m].attempt = mail[m].attempt
               /\ mail'[m].lease = Down(mail[m].lease)
               /\ mail[m].lease \in Nat
    <2>1. mail[m] \in Mails
      BY <1>1 DEF Typed
    <2>2. mail'[m] = [mail[m] EXCEPT !.lease = Down(mail[m].lease),
                                     !.deadline = Down(mail[m].deadline)]
      BY <1>m, Zenon
    <2>3. /\ mail[m].lease \in 0 .. SendLease /\ mail[m].deadline \in 0 .. MaxDeadline
          /\ mail[m].lease \in Nat
      BY <2>1, TimesAreNatural DEF Mails
    <2>4. /\ Down(mail[m].lease) \in 0 .. SendLease
          /\ Down(mail[m].deadline) \in 0 .. MaxDeadline
      BY <2>3, TimesAreNatural DEF Down
    <2> QED BY <2>1, <2>2, <2>3, <2>4 DEF Mails
  <1>6. Typed'
    <2>1. elapsed' \in [Consumer -> 0 .. SendLease]
      <3>1. elapsed' = [c \in Consumer |-> elapsed'[c]]
        BY <1>t
      <3> QED BY <1>3, <3>1
    <2>2. budget' \in [Consumer -> 0 .. Max({Helper, Stall})]
      <3>1. budget' = [c \in Consumer |-> budget'[c]]
        BY <1>t
      <3> QED BY <1>4, <3>1
    <2>3. mail' \in [Message -> Mails]
      <3>1. mail' = [m \in Message |-> mail'[m]]
        BY <1>m, Zenon
      <3> QED BY <1>5, <3>1
    <2> QED BY <1>1, <2>1, <2>2, <2>3 DEF Typed, history
  <1>7. ASSUME NEW c \in Consumer PROVE StageOK(c)' /\ LateOK(c)'
    <2>1. StageOK(c) /\ LateOK(c)
      BY DEF BulkInv
    <2>2. pc[c] = "launching" => elapsed'[c] + budget'[c] < Cutoff + Stall
      <3>1. SUFFICES ASSUME pc[c] = "launching"
                     PROVE  elapsed'[c] + budget'[c] < Cutoff + Stall
        OBVIOUS
      <3>2. budget[c] > 0 /\ elapsed[c] + budget[c] < Cutoff + Stall
        <4>1. budget[c] > 0
          BY <1>g, <3>1
        <4>2. elapsed[c] + budget[c] < Cutoff + Stall
          BY <2>1, <3>1 DEF StageOK
        <4> QED BY <4>1, <4>2
      <3>3. elapsed'[c] <= elapsed[c] + 1 /\ elapsed'[c] \in Nat
        BY <1>2, <1>3, <3>1, TimesAreNatural DEF AtWork
      <3>4. budget'[c] = budget[c] - 1
        BY <1>4, <3>2
      <3> QED BY <1>2, <3>2, <3>3, <3>4, TimesAreNatural
    <2>3. pc[c] = "sending" => /\ elapsed'[c] + budget'[c] < Cutoff + Stall + Helper
                               /\ elapsed'[c] + SendMargin <= SendLease
      <3>1. SUFFICES ASSUME pc[c] = "sending"
                     PROVE  /\ elapsed'[c] + budget'[c] < Cutoff + Stall + Helper
                            /\ elapsed'[c] + SendMargin <= SendLease
        OBVIOUS
      <3>2. /\ budget[c] > 0 /\ elapsed[c] + budget[c] < Cutoff + Stall + Helper
            /\ elapsed[c] < SendLease - SendMargin
        BY <1>g, <2>1, <3>1 DEF StageOK, HelperMayRun
      <3>3. elapsed'[c] <= elapsed[c] + 1 /\ elapsed'[c] \in Nat
        BY <1>2, <1>3, <3>1, TimesAreNatural DEF AtWork
      <3>4. budget'[c] = budget[c] - 1
        BY <1>4, <3>2
      <3> QED BY <1>2, <3>2, <3>3, <3>4, TimesAreNatural
    <2>4. StageOK(c)'
      BY <1>1, <2>1, <2>2, <2>3 DEF StageOK
    <2>5. LateOK(c)'
      BY <1>1, <2>1 DEF LateOK
    <2> QED BY <2>4, <2>5
  <1>8. ASSUME NEW c \in Consumer, NEW i \in 1 .. Len(batch[c])
        PROVE  ItemOK(c, i)'
    <2> DEFINE k == batch[c][i].msg
    <2>1. ItemOK(c, i) /\ batch[c][i] \in Items
      BY <1>1, BatchTyped DEF BulkInv, ItemsOK
    <2>2. k \in Message
      BY <2>1 DEF Items
    <2>3. (AtWork(c)' <=> AtWork(c)) /\ (Ahead(c, i)' <=> Ahead(c, i))
      BY <1>1 DEF AtWork, Ahead
    <2>4. AtWork(c) /\ ClaimKept(c, i) => ClaimKept(c, i)'
      <3>1. SUFFICES ASSUME AtWork(c), ClaimKept(c, i), elapsed'[c] < SendLease
                     PROVE  /\ mail'[k].state = "submitting"
                            /\ mail'[k].attempt = batch[c][i].attempt
                            /\ mail'[k].lease + elapsed'[c] >= SendLease
        BY <1>1 DEF ClaimKept
      <3>2. elapsed[c] < SendLease /\ elapsed'[c] = elapsed[c] + 1
        BY <1>2, <1>3, <3>1, TimesAreNatural
      <3>3. /\ mail[k].state = "submitting"
            /\ mail[k].attempt = batch[c][i].attempt
            /\ mail[k].lease + elapsed[c] >= SendLease
        BY <3>1, <3>2 DEF ClaimKept
      <3>4. mail'[k].lease = Down(mail[k].lease) /\ mail[k].lease \in Nat
        BY <1>5, <2>2
      <3>5. mail'[k].lease + elapsed'[c] >= SendLease
        BY <1>2, <3>2, <3>3, <3>4, TimesAreNatural DEF Down
      <3> QED BY <1>5, <2>2, <3>3, <3>5
    <2>5. mail'[k].attempt = mail[k].attempt
      BY <1>5, <2>2
    <2> QED BY <1>1, <2>1, <2>3, <2>4, <2>5 DEF ItemOK, history
  <1>9. ItemsOK' /\ OneItemPerAttempt'
    <2>1. ItemsOK'
      BY <1>1, <1>8 DEF ItemsOK
    <2>2. OneItemPerAttempt'
      BY <1>1 DEF BulkInv, OneItemPerAttempt
    <2> QED BY <2>1, <2>2
  <1>10. ASSUME NEW m \in Message PROVE LedgerOK(m)'
    <2>1. LedgerOK(m)
      BY DEF BulkInv
    <2> QED BY <1>1, <1>5, <2>1 DEF LedgerOK, history
  <1> QED BY <1>6, <1>7, <1>9, <1>10 DEF BulkInv

-----------------------------------------------------------------------------
(* The theorems.                                                           *)

LEMMA BulkInitHolds == BulkInit => BulkInv
  <1> SUFFICES ASSUME BulkInit PROVE BulkInv
    OBVIOUS
  <1>1. /\ 0 \in 0 .. SendLease /\ 0 \in 0 .. Helper /\ 0 \in 0 .. MaxDeadline
        /\ 0 \in 0 .. Max({Helper, Stall}) /\ 0 \in 0 .. MaxSend
        /\ SendBatch \in Nat
    BY TimesAreNatural
  <1>2. <<>> \in Seq(Items) /\ Len(<<>>) = 0
    BY EmptySeq
  <1>3. mail \in [Message -> Mails]
    BY <1>1 DEF BulkInit, Mails, MailStates
  <1>4. Typed
    BY <1>1, <1>2, <1>3 DEF BulkInit, Typed, Stages, Wires
  <1>5. ASSUME NEW c \in Consumer PROVE StageOK(c) /\ LateOK(c)
    BY <1>1, <1>2 DEF BulkInit, StageOK, LateOK
  <1>6. ItemsOK /\ OneItemPerAttempt
    <2>1. \A c \in Consumer : Len(batch[c]) = 0
      BY <1>2 DEF BulkInit
    <2> QED BY <2>1 DEF ItemsOK, OneItemPerAttempt
  <1>7. ASSUME NEW m \in Message PROVE LedgerOK(m)
    <2>1. /\ mail[m].state = "waiting" /\ mail[m].attempt = 0
          /\ ruledOut[m] = {} /\ \A a \in Submission : wire[m][a] = "none"
      BY DEF BulkInit
    <2>2. \A a \in Submission : ~ (a < 0)
      BY TimesAreNatural DEF Submission
    <2> QED BY <2>1, <2>2 DEF LedgerOK
  <1> QED BY <1>4, <1>5, <1>6, <1>7 DEF BulkInv

LEMMA BulkStepKeeps == BulkInv /\ [BulkNext]_vars => BulkInv'
  <1> SUFFICES ASSUME BulkInv, [BulkNext]_vars PROVE BulkInv'
    OBVIOUS
  <1>1. ASSUME NEW c \in Consumer, ConsumerSteps(c) PROVE BulkInv'
    BY <1>1, BeginKeeps, HoldKeeps, CheckKeeps, LaunchKeeps, SendAllRaisesKeeps,
       HelperEndsKeeps, RecordKeeps, UnrecordedKeeps, BulkCrashKeeps
       DEF ConsumerSteps
  <1>2. ASSUME NEW m \in Message,
               (\E a \in Submission : Accept(m, a)) \/ Recover(m) \/ Resend(m)
        PROVE  BulkInv'
    BY <1>2, AcceptKeeps, RecoverKeeps, ResendKeeps
  <1>3. CASE Pause \/ Tick
    BY <1>3, PauseKeeps, TickKeeps
  <1>4. CASE UNCHANGED vars
    <2>1. /\ UNCHANGED <<mail, batch, pc, at, elapsed, seconds, budget, paused>>
          /\ UNCHANGED <<wire, late, ruledOut, answered>>
      BY <1>4 DEF vars, history
    <2>2. Typed'
      BY <2>1 DEF BulkInv, Typed
    <2>3. ASSUME NEW c \in Consumer, NEW i \in 1 .. Len(batch[c])
          PROVE  ItemOK(c, i)'
      <3>1. ItemOK(c, i)
        BY DEF BulkInv, ItemsOK
      <3> QED BY <2>1, <3>1 DEF ItemOK, AtWork, Ahead, ClaimKept
    <2>4. ASSUME NEW m \in Message PROVE LedgerOK(m)'
      <3>1. LedgerOK(m)
        BY DEF BulkInv
      <3> QED BY <2>1, <3>1 DEF LedgerOK
    <2> QED BY <2>1, <2>2, <2>3, <2>4, ServiceMoves
  <1> QED BY <1>1, <1>2, <1>3, <1>4 DEF BulkNext

\* What the properties say of one state follows from the invariant.
LEMMA BulkInvIsSafe == BulkInv => BulkSafe
  <1> SUFFICES ASSUME BulkInv PROVE BulkSafe
    OBVIOUS
  <1>1. Typed
    BY DEF BulkInv
  <1>2. BulkTypeOK
    <2>1. mail \in [Message ->
                      [state : {"waiting", "submitting", "delivered", "failed",
                                "unknown"},
                       attempt : 0 .. MaxSend, lease : 0 .. SendLease,
                       deadline : 0 .. MaxDeadline]]
      BY <1>1 DEF Typed, Mails, MailStates
    <2>2. ASSUME NEW c \in Consumer
          PROVE  /\ Len(batch[c]) <= SendBatch
                 /\ \A i \in DOMAIN batch[c] :
                      batch[c][i] \in
                        [msg : Message, attempt : Submission,
                         result : {"none", "unsent", "unknown", "accepted", "refused"}]
                 /\ at[c] \in (IF pc[c] = "idle" THEN {0} ELSE DOMAIN batch[c])
      <3>1. StageOK(c)
        BY DEF BulkInv
      <3>2. /\ DOMAIN batch[c] = 1 .. Len(batch[c])
            /\ batch[c] \in [1 .. Len(batch[c]) -> Items]
        BY <1>1, BatchTyped
      <3>3. \A i \in DOMAIN batch[c] : batch[c][i] \in Items
        BY <3>2
      <3>4. at[c] \in (IF pc[c] = "idle" THEN {0} ELSE DOMAIN batch[c])
        BY <3>1, <3>2 DEF StageOK
      <3> QED BY <3>1, <3>3, <3>4 DEF StageOK, Items, Results
    <2>3. ASSUME NEW c \in Consumer
          PROVE  /\ pc[c] \in {"idle", "checking", "launching", "sending", "finishing"}
                 /\ elapsed[c] \in 0 .. SendLease
                 /\ seconds[c] \in 0 .. Helper
                 /\ budget[c] \in 0 .. Max({Helper, Stall})
      BY <1>1 DEF Typed, Stages
    <2> QED BY <2>1, <2>2, <2>3, Zenon DEF BulkTypeOK
  <1>3. ClaimOutlastsSend
    <2> SUFFICES ASSUME NEW c \in Consumer, pc[c] = "sending"
                 PROVE  Owns(c) /\ mail[Item(c).msg].lease >= SendMargin
      BY DEF ClaimOutlastsSend
    <2>1. /\ Item(c) = batch[c][at[c]] /\ Item(c).msg \in Message
          /\ ItemOK(c, at[c]) /\ at[c] \in 1 .. Len(batch[c])
      BY HasItem
    <2>2. /\ elapsed[c] + SendMargin <= SendLease
          /\ elapsed[c] + budget[c] < Cutoff + Stall + Helper
      BY DEF BulkInv, StageOK
    <2>3. elapsed[c] \in Nat /\ mail[Item(c).msg].lease \in Nat /\ SendMargin > 0
      <3>1. elapsed[c] \in 0 .. SendLease /\ mail[Item(c).msg].lease \in 0 .. SendLease
        BY <1>1, <2>1 DEF Typed, Mails
      <3>2. SendMargin > 0
        BY BulkConstants
      <3> QED BY <3>1, <3>2, TimesAreNatural
    <2>4. elapsed[c] < SendLease
      BY <2>2, <2>3, TimesAreNatural
    <2>5. ClaimKept(c, at[c])
      <3>1. at[c] \in Nat
        BY <1>1 DEF Typed
      <3> QED BY <2>1, <3>1 DEF ItemOK, AtWork
    <2>6. /\ mail[Item(c).msg].state = "submitting"
          /\ mail[Item(c).msg].attempt = Item(c).attempt
          /\ mail[Item(c).msg].lease + elapsed[c] >= SendLease
      BY <2>1, <2>4, <2>5 DEF ClaimKept
    <2>7. mail[Item(c).msg].lease >= SendMargin
      BY <2>2, <2>3, <2>6, TimesAreNatural
    <2>8. mail[Item(c).msg].lease > 0
      BY <2>3, <2>7, TimesAreNatural
    <2> QED BY <2>6, <2>7, <2>8 DEF Owns
  <1>4. PauseStopsBatch
    <2>1. ASSUME NEW c \in Consumer PROVE late[c] <= 1
      <3>1. late[c] \in {0, 1}
        BY <1>1 DEF Typed
      <3> QED BY <3>1
    <2> QED BY <2>1 DEF PauseStopsBatch
  <1>5. BulkReportIsTrue
    <2>1. ASSUME NEW m \in Message, mail[m].state = "delivered"
          PROVE  mail[m].attempt \in Accepted(m)
      <3>1. wire[m][mail[m].attempt] = "accepted" /\ mail[m].attempt > 0
        BY <2>1 DEF BulkInv, LedgerOK
      <3>2. mail[m].attempt \in Submission
        BY <1>1, <3>1, TimesAreNatural DEF Typed, Mails, Submission
      <3> QED BY <3>1, <3>2 DEF Accepted
    <2>2. ASSUME NEW m \in Message, mail[m].state \in {"waiting", "failed"},
                 NEW a \in Accepted(m)
          PROVE  a \in answered[m]
      <3>1. a \in Submission /\ wire[m][a] = "accepted" /\ LedgerOK(m)
        BY DEF Accepted, BulkInv
      <3>2. a \notin ruledOut[m] /\ ~ (a > mail[m].attempt)
        BY <3>1 DEF LedgerOK
      <3>3. mail[m].attempt \in Nat /\ a \in Nat /\ a > 0
        BY <1>1, <3>1, TimesAreNatural DEF Typed, Mails, Submission
      <3>4. CASE a < mail[m].attempt
        BY <3>1, <3>2, <3>4 DEF LedgerOK
      <3>5. CASE a = mail[m].attempt
        BY <2>2, <3>1, <3>2, <3>3, <3>5 DEF LedgerOK
      <3> QED BY <3>2, <3>3, <3>4, <3>5
    <2> QED BY <2>1, <2>2 DEF BulkReportIsTrue
  <1> QED BY <1>2, <1>3, <1>4, <1>5 DEF BulkSafe

\* The invariant holds in every reachable state.
THEOREM BulkInvariant == BulkSpec => []BulkInv
  BY BulkInitHolds, BulkStepKeeps, PTL DEF BulkSpec

\* A batch is as safe as its messages one by one, for any number of messages,
\* consumers and submissions and any size of batch (send_all, finish_item): a
\* helper only sends under a claim that outlasts it, a pause stops a batch
\* after the message whose check was made, and what is recorded is true.
THEOREM BulkIsSafe == BulkSpec => []BulkSafe
  BY BulkInvariant, BulkInvIsSafe, PTL

-----------------------------------------------------------------------------
(* The refinement.                                                         *)

\* A step that leaves a message's attempts, its wires and its history alone.
LEMMA NothingSent ==
  ASSUME NEW m \in Message, mail'[m].attempt = mail[m].attempt,
         Accepted(m)' = Accepted(m),
         ruledOut'[m] = ruledOut[m], answered'[m] = answered[m]
  PROVE  UNCHANGED SendOnce(m)!sendVars
  BY DEF SendOnce!sendVars

\* A batch begins: for each of its messages a new attempt starts, and the one
\* before it is closed.
LEMMA AttemptStarts ==
  ASSUME NEW m \in Message, mail'[m].attempt = mail[m].attempt + 1,
         Accepted(m)' = Accepted(m),
         ruledOut'[m] = ruledOut[m], answered'[m] = answered[m],
         mail[m].attempt = 0 \/ mail[m].attempt \in ruledOut[m] \union answered[m]
  PROVE  SendOnce(m)!SendNext
  <1>1. SendOnce(m)!Start(m)
    BY DEF SendOnce!Start, SendOnce!Closed
  <1> QED BY <1>1 DEF SendOnce!SendNext

LEMMA AttemptAccepted ==
  ASSUME NEW m \in Message, NEW a \in 1 .. mail[m].attempt,
         mail'[m].attempt = mail[m].attempt,
         Accepted(m)' = Accepted(m) \union {a}, a \notin ruledOut[m],
         ruledOut'[m] = ruledOut[m], answered'[m] = answered[m]
  PROVE  SendOnce(m)!SendNext
  <1>1. SendOnce(m)!Accept(m, a)
    BY DEF SendOnce!Accept
  <1> QED BY <1>1 DEF SendOnce!SendNext

LEMMA AttemptRuledOut ==
  ASSUME NEW m \in Message, mail'[m].attempt = mail[m].attempt,
         mail[m].attempt > 0, mail[m].attempt \notin Accepted(m),
         Accepted(m)' = Accepted(m),
         ruledOut'[m] = ruledOut[m] \union {mail[m].attempt},
         answered'[m] = answered[m]
  PROVE  SendOnce(m)!SendNext
  <1>1. SendOnce(m)!RuleOut(m)
    BY DEF SendOnce!RuleOut
  <1> QED BY <1>1 DEF SendOnce!SendNext

LEMMA AttemptAnswered ==
  ASSUME NEW m \in Message, mail'[m].attempt = mail[m].attempt,
         mail[m].attempt > 0, Accepted(m)' = Accepted(m),
         ruledOut'[m] = ruledOut[m],
         answered'[m] = answered[m] \union {mail[m].attempt}
  PROVE  SendOnce(m)!SendNext
  <1>1. SendOnce(m)!Answer(m)
    BY DEF SendOnce!Answer
  <1> QED BY <1>1 DEF SendOnce!SendNext

\* What each step is to one of its messages.
LEMMA StepRefines ==
  ASSUME BulkInv, BulkNext, NEW m \in Message
  PROVE  SendOnce(m)!SendNext \/ UNCHANGED SendOnce(m)!sendVars
  <1>1. Typed /\ LedgerOK(m)
    BY DEF BulkInv
  <1>2. mail[m].attempt \in 0 .. MaxSend /\ mail[m].attempt \in Nat
    BY <1>1, TimesAreNatural DEF Typed, Mails
  <1>3. ASSUME mail'[m].attempt = mail[m].attempt, wire'[m] = wire[m],
               ruledOut'[m] = ruledOut[m], answered'[m] = answered[m]
        PROVE  UNCHANGED SendOnce(m)!sendVars
    <2>1. Accepted(m)' = Accepted(m)
      BY <1>3 DEF Accepted
    <2> QED BY <1>3, <2>1, NothingSent
  <1>4. ASSUME NEW c \in Consumer, NEW order \in Orders, Begin(c, order)
        PROVE  SendOnce(m)!SendNext \/ UNCHANGED SendOnce(m)!sendVars
    <2>1. UNCHANGED <<wire, ruledOut, answered>>
      BY <1>4 DEF Begin, history
    <2>2. CASE m \notin Range(order)
      <3>1. mail'[m] = mail[m]
        BY <1>4, <2>2 DEF Begin
      <3> QED BY <1>3, <2>1, <3>1
    <2>3. CASE m \in Range(order)
      <3>1. mail'[m].attempt = mail[m].attempt + 1
        BY <1>4, <2>3 DEF Begin
      <3>2. mail[m].state = "waiting"
        BY <1>4, <2>3 DEF Begin, Range
      <3>3. mail[m].attempt = 0 \/ mail[m].attempt \in ruledOut[m] \union answered[m]
        BY <1>1, <3>2 DEF LedgerOK
      <3>4. Accepted(m)' = Accepted(m)
        BY <2>1 DEF Accepted
      <3> QED BY <2>1, <3>1, <3>3, <3>4, AttemptStarts
    <2> QED BY <2>2, <2>3
  <1>5. ASSUME NEW c \in Consumer,
               \/ Hold(c) \/ Check(c) \/ SendAllRaises(c) \/ Unrecorded(c)
               \/ BulkCrash(c)
        PROVE  UNCHANGED SendOnce(m)!sendVars
    <2>1. UNCHANGED <<mail, wire, history>>
      BY <1>5 DEF Hold, Check, SendAllRaises, Unrecorded, BulkCrash
    <2> QED BY <1>3, <2>1 DEF history
  <1>6. ASSUME NEW c \in Consumer, Launch(c)
        PROVE  UNCHANGED SendOnce(m)!sendVars
    <2>1. pc[c] = "launching" /\ UNCHANGED <<mail, history>>
      BY <1>6 DEF Launch
    <2>2. /\ Item(c).msg \in Message /\ Item(c).attempt \in Submission
          /\ ItemOK(c, at[c]) /\ Item(c) = batch[c][at[c]]
      BY <2>1, HasItem
    <2>3. wire[Item(c).msg][Item(c).attempt] = "none"
      BY <2>1, <2>2 DEF ItemOK
    <2>4. wire' = [wire EXCEPT ![Item(c).msg][Item(c).attempt] = "launched"]
      BY <1>6 DEF Launch
    <2>5. \A a \in Submission : wire'[m][a] = "accepted" <=> wire[m][a] = "accepted"
      BY <1>1, <2>2, <2>3, <2>4 DEF Typed
    <2>6. Accepted(m)' = Accepted(m)
      BY <2>5 DEF Accepted
    <2> QED BY <2>1, <2>6, NothingSent DEF history
  <1>7. ASSUME NEW c \in Consumer,
               NEW result \in {"accepted", "refused", "unknown"},
               HelperEnds(c, result)
        PROVE  UNCHANGED SendOnce(m)!sendVars
    <2>1. pc[c] = "sending" /\ UNCHANGED <<mail, history>>
      BY <1>7 DEF HelperEnds
    <2>2. Item(c).msg \in Message /\ Item(c).attempt \in Submission
      BY <2>1, HasItem
    <2>3. \/ wire' = wire
          \/ /\ wire[Item(c).msg][Item(c).attempt] = "launched"
             /\ wire' = [wire EXCEPT ![Item(c).msg][Item(c).attempt] = "refused"]
      BY <1>7 DEF HelperEnds
    <2>4. \A a \in Submission : wire'[m][a] = "accepted" <=> wire[m][a] = "accepted"
      <3>1. CASE wire' = wire BY <3>1
      <3>2. CASE wire' # wire
        <4>1. wire \in [Message -> [Submission -> Wires]]
          BY <1>1 DEF Typed
        <4>2. /\ wire[Item(c).msg][Item(c).attempt] = "launched"
              /\ wire' = [wire EXCEPT ![Item(c).msg][Item(c).attempt] = "refused"]
          BY <2>3, <3>2
        <4>3. \A b \in Submission :
                wire'[m][b] = IF m = Item(c).msg /\ b = Item(c).attempt
                              THEN "refused" ELSE wire[m][b]
          BY <2>2, <4>1, <4>2
        <4> QED BY <4>2, <4>3
      <3> QED BY <3>1, <3>2
    <2>5. Accepted(m)' = Accepted(m)
      BY <2>4 DEF Accepted
    <2> QED BY <2>1, <2>5, NothingSent DEF history
  <1>8. ASSUME NEW c \in Consumer,
               NEW state \in {"waiting", "failed", "delivered", "unknown"},
               Record(c, state)
        PROVE  SendOnce(m)!SendNext \/ UNCHANGED SendOnce(m)!sendVars
    <2> DEFINE k == Item(c).msg
               a == Item(c).attempt
    <2>1. /\ pc[c] = "finishing" /\ state \in States(Item(c).result)
          /\ mail' = [mail EXCEPT ![k].state = state, ![k].lease = 0,
                                  ![k].deadline = 0]
          /\ ruledOut' = IF state \in {"waiting", "failed"}
                         THEN [ruledOut EXCEPT ![k] = @ \union {a}]
                         ELSE ruledOut
          /\ UNCHANGED <<wire, answered>>
          /\ mail[k].attempt = a
      BY <1>8 DEF Record, Owns
    <2>2. /\ k \in Message /\ a \in Submission
          /\ ItemOK(c, at[c]) /\ Item(c) = batch[c][at[c]]
          /\ Item(c).result \in Results
      BY <2>1, HasItem
    <2>3. mail'[m].attempt = mail[m].attempt
      <3>1. mail \in [Message -> Mails] /\ mail[m] \in Mails
        BY <1>1 DEF Typed
      <3>2. m # k => mail'[m] = mail[m]
        BY <2>1, <3>1
      <3>3. m = k => mail'[m] = [mail[m] EXCEPT !.state = state, !.lease = 0,
                                                !.deadline = 0]
        BY <2>1, <3>1
      <3> QED BY <3>1, <3>2, <3>3 DEF Mails
    <2>4. Accepted(m)' = Accepted(m)
      BY <2>1 DEF Accepted
    <2>5. CASE state \in {"waiting", "failed"} /\ k = m
      <3>1. ~ Ahead(c, at[c])
        BY <2>1 DEF Ahead
      <3>2. Item(c).result # "none"
        BY <2>2, <3>1 DEF ItemOK
      <3>3. Item(c).result \in {"unsent", "refused"}
        BY <2>1, <2>2, <2>5, <3>2 DEF States, Results
      <3>4. wire[m][a] # "accepted"
        BY <2>2, <2>5, <3>3 DEF ItemOK
      <3>5. a \notin Accepted(m)
        BY <3>4 DEF Accepted
      <3>6. ruledOut'[m] = ruledOut[m] \union {a}
        BY <1>1, <2>1, <2>5 DEF Typed
      <3>7. mail[m].attempt > 0
        BY <2>1, <2>2, <2>5, TimesAreNatural DEF Submission
      <3> QED BY <2>1, <2>3, <2>4, <2>5, <3>5, <3>6, <3>7, AttemptRuledOut
    <2>6. CASE ~ (state \in {"waiting", "failed"} /\ k = m)
      <3>1. ruledOut'[m] = ruledOut[m]
        BY <1>1, <2>1, <2>6 DEF Typed
      <3> QED BY <2>1, <2>3, <2>4, <3>1, NothingSent
    <2> QED BY <2>5, <2>6
  <1>9. ASSUME NEW k \in Message, NEW a \in Submission, Accept(k, a)
        PROVE  SendOnce(m)!SendNext \/ UNCHANGED SendOnce(m)!sendVars
    <2>1. /\ wire[k][a] = "launched"
          /\ wire' = [wire EXCEPT ![k][a] = "accepted"]
          /\ UNCHANGED <<mail, history>>
      BY <1>9 DEF Accept
    <2>2. CASE k # m
      <3>1. wire'[m] = wire[m]
        BY <1>1, <2>1, <2>2 DEF Typed
      <3> QED BY <1>3, <2>1, <3>1 DEF history
    <2>3. CASE k = m
      <3>1. a \notin ruledOut[m] /\ ~ (a > mail[m].attempt)
        BY <1>1, <2>1, <2>3 DEF LedgerOK
      <3>2. a \in 1 .. mail[m].attempt
        BY <1>2, <3>1, TimesAreNatural DEF Submission
      <3>3. \A b \in Submission :
              wire'[m][b] = "accepted" <=> wire[m][b] = "accepted" \/ b = a
        BY <1>1, <2>1, <2>3 DEF Typed
      <3>4. Accepted(m)' = Accepted(m) \union {a}
        BY <3>3 DEF Accepted
      <3> QED BY <2>1, <3>1, <3>2, <3>4, AttemptAccepted DEF history
    <2> QED BY <2>2, <2>3
  <1>10. ASSUME NEW k \in Message, Recover(k)
         PROVE  UNCHANGED SendOnce(m)!sendVars
    <2>1. mail' = [mail EXCEPT ![k].state = "unknown"] /\ UNCHANGED <<wire, history>>
      BY <1>10 DEF Recover
    <2>2. mail'[m].attempt = mail[m].attempt
      <3>1. mail \in [Message -> Mails] /\ mail[m] \in Mails
        BY <1>1 DEF Typed
      <3>2. mail'[m] = mail[m] \/ mail'[m] = [mail[m] EXCEPT !.state = "unknown"]
        BY <2>1, <3>1
      <3> QED BY <3>1, <3>2 DEF Mails
    <2> QED BY <1>3, <2>1, <2>2 DEF history
  <1>11. ASSUME NEW k \in Message, Resend(k)
         PROVE  SendOnce(m)!SendNext \/ UNCHANGED SendOnce(m)!sendVars
    <2>1. /\ mail[k].state = "unknown"
          /\ mail' = [mail EXCEPT ![k].state = "waiting"]
          /\ answered' = [answered EXCEPT ![k] = @ \union {mail[k].attempt}]
          /\ UNCHANGED <<wire, ruledOut>>
      BY <1>11 DEF Resend
    <2>2. mail'[m].attempt = mail[m].attempt
      <3>1. mail \in [Message -> Mails] /\ mail[m] \in Mails
        BY <1>1 DEF Typed
      <3>2. mail'[m] = mail[m] \/ mail'[m] = [mail[m] EXCEPT !.state = "waiting"]
        BY <2>1, <3>1
      <3> QED BY <3>1, <3>2 DEF Mails
    <2>3. CASE k # m
      <3>1. answered'[m] = answered[m]
        BY <1>1, <2>1, <2>3 DEF Typed
      <3> QED BY <1>3, <2>1, <2>2, <3>1
    <2>4. CASE k = m
      <3>1. mail[m].attempt > 0
        BY <1>1, <2>1, <2>4 DEF LedgerOK
      <3>2. answered'[m] = answered[m] \union {mail[m].attempt}
        BY <1>1, <2>1, <2>4 DEF Typed
      <3>3. Accepted(m)' = Accepted(m)
        BY <2>1 DEF Accepted
      <3> QED BY <2>1, <2>2, <3>1, <3>2, <3>3, AttemptAnswered
    <2> QED BY <2>3, <2>4
  <1>12. CASE Pause
    <2>1. UNCHANGED <<mail, wire, history>>
      BY <1>12 DEF Pause
    <2> QED BY <1>3, <2>1 DEF history
  <1>13. CASE Tick
    <2>0. UNCHANGED <<wire, history>>
      BY <1>13, Zenon DEF Tick
    <2>1. mail' = [k \in Message |-> [mail[k] EXCEPT !.lease = Down(@),
                                                     !.deadline = Down(@)]]
      BY <1>13, Zenon DEF Tick
    <2>2. mail'[m].attempt = mail[m].attempt
      <3>1. mail[m] \in Mails
        BY <1>1 DEF Typed
      <3>2. mail'[m] = [mail[m] EXCEPT !.lease = Down(@), !.deadline = Down(@)]
        BY <2>1, Zenon
      <3> QED BY <3>1, <3>2 DEF Mails
    <2> QED BY <1>3, <2>0, <2>2 DEF history
  <1>14. ASSUME NEW c \in Consumer, ConsumerSteps(c)
         PROVE  SendOnce(m)!SendNext \/ UNCHANGED SendOnce(m)!sendVars
    BY <1>4, <1>5, <1>6, <1>7, <1>8, <1>14 DEF ConsumerSteps
  <1> QED BY <1>9, <1>10, <1>11, <1>12, <1>13, <1>14 DEF BulkNext

\* The bulk path implements SendOnce message by message, for any number of
\* messages, consumers and submissions: although a batch is committed long
\* before its last message is launched, and its outcomes are written long
\* after, no attempt starts while the one before it is in doubt.
THEOREM BulkKeepsSendOnce == BulkSpec => BulkSendsOnce
  <1>1. BulkInit => \A m \in Message : SendOnce(m)!SendInit
    <2> SUFFICES ASSUME BulkInit, NEW m \in Message PROVE SendOnce(m)!SendInit
      OBVIOUS
    <2>1. /\ mail[m].attempt = 0 /\ Accepted(m) = {}
          /\ ruledOut[m] = {} /\ answered[m] = {}
      BY DEF BulkInit, Accepted
    <2> QED BY <2>1 DEF SendOnce!SendInit
  <1>2. BulkInv /\ [BulkNext]_vars =>
          [\A m \in Message :
             SendOnce(m)!SendNext \/ UNCHANGED SendOnce(m)!sendVars]_vars
    BY StepRefines
  <1> QED BY <1>1, <1>2, BulkInvariant, PTL DEF BulkSpec, BulkSendsOnce

=============================================================================
