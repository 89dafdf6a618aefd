--------------------------- MODULE DeliveryProofs ---------------------------
(***************************************************************************)
(* Safety of the task engine and of Family mail delivery, the execution    *)
(* that runs on it.  The first part is about TaskRuns alone; the second    *)
(* composes it with the mail's own state.                                  *)
(***************************************************************************)
EXTENDS Delivery, TLAPS

-----------------------------------------------------------------------------
(***************************************************************************)
(* Safety of the task engine for any number of chains, consumers, retries  *)
(* and attempts.  The inductive invariant TaskInv adds to the properties   *)
(* what makes them survive a step: what a claim in a consumer's memory can *)
(* still say about its row (ClaimsBehind), that an open effect transaction *)
(* always has the row's current claim (OpenOwned) and has its root to      *)
(* itself (OneOpen), that recorded effects never run ahead of the fence    *)
(* (EffectsBehind), and that a row not yet created is blank (AbsentBlank). *)
(***************************************************************************)

ClaimsBehind ==
    \A c \in Consumer : held[c] # NoClaim =>
        /\ Row(c).state # "absent"
        /\ held[c].fence <= Row(c).fence
        /\ held[c].fence = Row(c).fence => Row(c).worker = c

OpenOwned ==
    \A c \in Consumer : open[c] =>
        /\ held[c] # NoClaim
        /\ Row(c).state = "running"
        /\ Row(c).fence = held[c].fence
        /\ Row(c).worker = c

OneOpen ==
    \A c, d \in Consumer :
        open[c] /\ open[d] /\ held[c].root = held[d].root => c = d

EffectsBehind ==
    \A r \in Root, k \in Retry : \A e \in effects[r][k] :
        /\ e.fence <= run[r][k].fence
        /\ e.fence = run[r][k].fence => e.worker = run[r][k].worker

AbsentBlank ==
    \A r \in Root, k \in Retry : run[r][k].state = "absent" =>
        /\ run[r][k].fence = 0
        /\ run[r][k].worker = NoConsumer
        /\ run[r][k].command = NoCommand
        /\ effects[r][k] = {}

TaskInv ==
    /\ TaskTypeOK
    /\ OnlyLatestLives
    /\ CommandBindsOnce
    /\ OneOwnerPerFence
    /\ ClaimsBehind
    /\ OpenOwned
    /\ OneOpen
    /\ EffectsBehind
    /\ AbsentBlank

-----------------------------------------------------------------------------
(* One row changes.                                                        *)

\* The row constraints that a replacement row must meet.
RowOK(row) ==
    /\ row \in Run
    /\ row.attempt <= row.fence
    /\ row.state = "running" => row.worker # NoConsumer
    /\ row.state # "running" => row.lease = 0

\* A row that exists and is not finished is replaced, under its root's lock,
\* by a row that stands for the same command and a fence no smaller.
Moves(r, k, row) ==
    /\ RowOK(row)
    /\ RootFree(r)
    /\ run[r][k].state \notin Terminal \cup {"absent"}
    /\ row.state # "absent"
    /\ row.command = run[r][k].command
    /\ run[r][k].fence <= row.fence
    /\ row.worker # run[r][k].worker => run[r][k].fence < row.fence

\* Replacing one row leaves every other row as it was (Put models run.save
\* on one primary key).
LEMMA PutRow ==
    ASSUME run \in [Root -> [Retry -> Run]],
           NEW r \in Root, NEW k \in Retry, NEW row \in Run, Put(r, k, row)
    PROVE  /\ run' \in [Root -> [Retry -> Run]]
           /\ run'[r][k] = row
           /\ \A s \in Root, j \in Retry :
                 s # r \/ j # k => run'[s][j] = run[s][j]
  BY DEF Put

\* The bounds of the model, as the provers need them.
LEMMA RetryIsNat == Retry \subseteq Nat /\ 0 \in Retry
  BY BoundsAreNatural DEF Retry

\* A row move keeps what is said of rows alone: the chain shape, the commands
\* and the blank rows (change_run never touches a finished or missing run).
LEMMA MoveKeepsRows ==
    ASSUME TaskInv, NEW r \in Root, NEW k \in Retry, NEW row,
           Moves(r, k, row), Put(r, k, row), effects' = effects
    PROVE  /\ run' \in [Root -> [Retry -> Run]]
           /\ \A s \in Root, j \in Retry : RowOK(run'[s][j])
           /\ OnlyLatestLives'
           /\ CommandBindsOnce'
           /\ EffectsBehind'
           /\ AbsentBlank'
  <1> USE RetryIsNat
  <1>1. row \in Run
    BY DEF Moves, RowOK
  <1>2. /\ run' \in [Root -> [Retry -> Run]]
        /\ run'[r][k] = row
        /\ \A s \in Root, j \in Retry :
              s # r \/ j # k => run'[s][j] = run[s][j]
    BY <1>1, PutRow DEF TaskInv, TaskTypeOK
  <1>3. \A s \in Root, j \in Retry : RowOK(run'[s][j])
    BY <1>2 DEF TaskInv, TaskTypeOK, RowOK, Moves
  <1>4. OnlyLatestLives'
    BY <1>2 DEF TaskInv, OnlyLatestLives, Moves, Terminal
  <1>5. CommandBindsOnce'
    BY <1>2 DEF TaskInv, CommandBindsOnce, Moves
  <1>6. EffectsBehind'
    <2> SUFFICES ASSUME NEW s \in Root, NEW j \in Retry, NEW e \in effects[s][j]
                 PROVE  /\ e.fence <= run'[s][j].fence
                        /\ e.fence = run'[s][j].fence => e.worker = run'[s][j].worker
      BY DEF EffectsBehind
    <2>1. /\ e.fence \in Nat /\ run[s][j].fence \in Nat /\ row.fence \in Nat
          /\ e.fence <= run[s][j].fence
          /\ e.fence = run[s][j].fence => e.worker = run[s][j].worker
      BY <1>1 DEF TaskInv, TaskTypeOK, EffectsBehind, Run
    <2>2. CASE s = r /\ j = k
      <3>1. /\ run'[s][j] = row
            /\ run[s][j].fence <= row.fence
            /\ row.worker # run[s][j].worker => run[s][j].fence < row.fence
        BY <2>2, <1>2 DEF Moves
      <3>2. e.fence <= row.fence
        BY <2>1, <3>1
      <3>3. e.fence = row.fence => e.worker = row.worker
        BY <2>1, <3>1
      <3> QED BY <3>1, <3>2, <3>3
    <2>3. CASE s # r \/ j # k
      BY <2>1, <2>3, <1>2
    <2> QED BY <2>2, <2>3
  <1>7. AbsentBlank'
    BY <1>2 DEF TaskInv, AbsentBlank, Moves
  <1> QED BY <1>2, <1>3, <1>4, <1>5, <1>6, <1>7

\* What may happen to the claims in memory when a row moves: each stays, ends,
\* or begins as the claim the new row records; none of it inside an effect.
ClaimsFollow(r, k, row) ==
    /\ held' \in [Consumer -> Claims \cup {NoClaim}]
    /\ \A c \in Consumer :
          \/ held'[c] = held[c]
          \/ ~open[c] /\ held'[c] = NoClaim
          \/ /\ ~open[c]
             /\ held'[c] = [root |-> r, retry |-> k, fence |-> row.fence]
             /\ row.worker = c

\* A row move under the root lock keeps every conjunct of the invariant: a
\* claim elsewhere in memory falls behind the fence or keeps its worker, and
\* no open effect can be on the locked chain (change_run and claim_hint).
LEMMA MoveKeepsInv ==
    ASSUME TaskInv, NEW r \in Root, NEW k \in Retry, NEW row,
           Moves(r, k, row), Put(r, k, row), ClaimsFollow(r, k, row),
           open' = open, effects' = effects
    PROVE  TaskInv' /\ RowsStand
  <1> USE RetryIsNat
  <1>1. /\ run' \in [Root -> [Retry -> Run]]
        /\ \A s \in Root, j \in Retry : RowOK(run'[s][j])
        /\ OnlyLatestLives' /\ CommandBindsOnce'
        /\ EffectsBehind' /\ AbsentBlank'
    BY MoveKeepsRows
  <1>2. /\ row \in Run
        /\ run'[r][k] = row
        /\ \A s \in Root, j \in Retry :
              s # r \/ j # k => run'[s][j] = run[s][j]
    <2>1. row \in Run
      BY DEF Moves, RowOK
    <2> QED BY <2>1, PutRow DEF TaskInv, TaskTypeOK
  <1>3. TaskTypeOK'
    BY <1>1 DEF TaskInv, TaskTypeOK, RowOK, ClaimsFollow
  <1>4. OneOwnerPerFence'
    BY DEF TaskInv, OneOwnerPerFence
  <1>5. ClaimsBehind'
    <2> SUFFICES ASSUME NEW c \in Consumer, held'[c] # NoClaim
                 PROVE  /\ Row(c)'.state # "absent"
                        /\ held'[c].fence <= Row(c)'.fence
                        /\ held'[c].fence = Row(c)'.fence => Row(c)'.worker = c
      BY DEF ClaimsBehind
    <2>0. row.fence \in Nat /\ run[r][k].fence \in Nat
      BY <1>2 DEF TaskInv, TaskTypeOK, Run
    <2>1. CASE held'[c] = held[c]
      <3>1. /\ held[c] # NoClaim
            /\ held[c].root \in Root /\ held[c].retry \in Retry
            /\ held[c].fence \in Nat
        BY <2>1 DEF TaskInv, TaskTypeOK, Claims
      <3>2. /\ Row(c).state # "absent"
            /\ held[c].fence <= Row(c).fence
            /\ held[c].fence = Row(c).fence => Row(c).worker = c
        BY <3>1 DEF TaskInv, ClaimsBehind
      <3>3. Row(c)' = run'[held[c].root][held[c].retry]
        BY <2>1 DEF Row
      <3>4. CASE held[c].root = r /\ held[c].retry = k
        <4>1. Row(c)' = row /\ Row(c) = run[r][k]
          BY <3>3, <3>4, <1>2 DEF Row
        <4>2. /\ row.state # "absent"
              /\ run[r][k].fence <= row.fence
              /\ row.worker # run[r][k].worker => run[r][k].fence < row.fence
          BY DEF Moves
        <4>3. held[c].fence <= row.fence
          BY <2>0, <3>1, <3>2, <4>1, <4>2
        <4>4. held[c].fence = row.fence => row.worker = c
          BY <2>0, <3>1, <3>2, <4>1, <4>2
        <4> QED BY <2>1, <4>1, <4>2, <4>3, <4>4
      <3>5. CASE held[c].root # r \/ held[c].retry # k
        <4>1. Row(c)' = Row(c)
          BY <3>1, <3>3, <3>5, <1>2 DEF Row
        <4> QED BY <2>1, <3>2, <4>1
      <3> QED BY <3>4, <3>5
    <2>2. CASE /\ held'[c] = [root |-> r, retry |-> k, fence |-> row.fence]
               /\ row.worker = c
      <3>1. Row(c)' = row /\ held'[c].fence = row.fence
        BY <2>2, <1>2 DEF Row
      <3> QED BY <2>0, <2>2, <3>1 DEF Moves
    <2> QED BY <2>1, <2>2 DEF ClaimsFollow
  <1>6. \A c \in Consumer : open[c] => held'[c] = held[c] /\ held[c].root # r
    BY DEF ClaimsFollow, Moves, RootFree
  <1>7. OpenOwned'
    <2> SUFFICES ASSUME NEW c \in Consumer, open[c]
                 PROVE  /\ held[c] # NoClaim
                        /\ run'[held[c].root][held[c].retry] = Row(c)
                        /\ Row(c).state = "running"
                        /\ Row(c).fence = held[c].fence
                        /\ Row(c).worker = c
      BY <1>6 DEF OpenOwned, Row
    <2>1. /\ held[c] # NoClaim /\ Row(c).state = "running"
          /\ Row(c).fence = held[c].fence /\ Row(c).worker = c
      BY DEF TaskInv, OpenOwned
    <2>2. held[c].root \in Root /\ held[c].retry \in Retry
      BY <2>1 DEF TaskInv, TaskTypeOK, Claims
    <2> QED BY <2>1, <2>2, <1>2, <1>6 DEF Row
  <1>8. OneOpen'
    BY <1>6 DEF TaskInv, OneOpen
  <1>9. RowsStand
    <2>1. \A s \in Root, j \in Retry : run[s][j].fence \in Nat
      BY DEF TaskInv, TaskTypeOK, Run
    <2> QED BY <1>2, <2>1 DEF RowsStand, Moves
  <1> QED BY <1>1, <1>3, <1>4, <1>5, <1>7, <1>8, <1>9 DEF TaskInv

-----------------------------------------------------------------------------
(* The owner's transitions.                                                *)

\* What lock_task_claim has established when it returns.
LEMMA OwnerRow ==
    ASSUME TaskInv, NEW c \in Consumer, Owns(c)
    PROVE  /\ held[c].root \in Root /\ held[c].retry \in Retry
           /\ Row(c) = run[held[c].root][held[c].retry]
           /\ RowOK(Row(c))
           /\ RootFree(held[c].root)
           /\ Row(c).state = "running"
           /\ Row(c).worker = c
           /\ ~open[c]
  <1>1. held[c] \in Claims
    BY DEF TaskInv, TaskTypeOK, Owns
  <1>2. held[c].root \in Root /\ held[c].retry \in Retry
    BY <1>1 DEF Claims
  <1>3. RowOK(Row(c))
    BY <1>2 DEF TaskInv, TaskTypeOK, RowOK, Row
  <1>4. ~open[c]
    BY DEF Owns, RootFree
  <1> QED BY <1>2, <1>3, <1>4 DEF Owns, Row

\* A transition by the owner that keeps fence, worker and command is a row
\* move: the transitions of change_run other than claim and expiry.
LEMMA OwnerMove ==
    ASSUME TaskInv, NEW c \in Consumer, Owns(c), NEW row,
           RowOK(row), row.state # "absent", row.command = Row(c).command,
           row.fence = Row(c).fence, row.worker = Row(c).worker, Move(c, row)
    PROVE  TaskInv' /\ RowsStand
  <1> DEFINE r == held[c].root
             k == held[c].retry
  <1>1. /\ r \in Root /\ k \in Retry
        /\ Row(c) = run[r][k]
        /\ RowOK(Row(c)) /\ RootFree(r) /\ Row(c).state = "running" /\ ~open[c]
    BY OwnerRow
  <1>2. Row(c).fence \in Nat
    BY <1>1 DEF RowOK, Run
  <1>3. Moves(r, k, row)
    BY <1>1, <1>2 DEF Moves, Terminal
  <1>4. Put(r, k, row) /\ open' = open /\ effects' = effects
    BY DEF Move
  <1>5. ClaimsFollow(r, k, row)
    BY <1>1 DEF Move, ClaimsFollow, TaskInv, TaskTypeOK
  <1> QED BY <1>1, <1>3, <1>4, <1>5, MoveKeepsInv

\* The row the claim edge of change_run writes is a row.
LEMMA ClaimedRow ==
    ASSUME NEW row \in Run, NEW c \in Consumer,
           NEW fence \in Nat, NEW attempt \in Nat, NEW lease \in Nat
    PROVE  [row EXCEPT !.state = "running", !.worker = c, !.fence = fence,
                       !.attempt = attempt, !.phase = "starting",
                       !.lease = lease] \in Run
  <1>1. "running" \in States /\ "starting" \in Phases
    BY PhasesKnown DEF States
  <1> QED BY <1>1 DEF Run

\* claim_hint: a waiting row is claimed under the next fence.
LEMMA ClaimKeepsInv ==
    ASSUME TaskInv, NEW c \in Consumer, NEW r \in Root, NEW k \in Retry,
           Claim(c, r, k)
    PROVE  TaskInv' /\ RowsStand
  <1> DEFINE row == [run[r][k] EXCEPT
                       !.state = "running", !.worker = c,
                       !.fence = run[r][k].fence + 1, !.attempt = @ + 1,
                       !.phase = "starting", !.lease = LeaseTicks]
  <1>1. /\ run[r][k] \in Run
        /\ run[r][k].fence \in Nat /\ run[r][k].attempt \in Nat
        /\ run[r][k].attempt <= run[r][k].fence
    BY DEF TaskInv, TaskTypeOK, Run
  <1>2. Put(r, k, row) /\ open' = open /\ effects' = effects
    BY DEF Claim
  <1>3. /\ row.state = "running" /\ row.worker = c
        /\ row.fence = run[r][k].fence + 1
        /\ row.attempt = run[r][k].attempt + 1
        /\ row.command = run[r][k].command
    BY <1>1 DEF Run
  <1>4. row \in Run
    <2>1. LeaseTicks \in Nat /\ run[r][k].fence + 1 \in Nat
          /\ run[r][k].attempt + 1 \in Nat
      BY <1>1, BoundsAreNatural
    <2> QED BY <1>1, <2>1, ClaimedRow
  <1>5. RowOK(row)
    BY <1>1, <1>3, <1>4, ConstantsDistinct DEF RowOK
  <1>6. run[r][k].fence < row.fence
    BY <1>1, <1>3
  <1>7. Moves(r, k, row)
    BY <1>1, <1>3, <1>5, <1>6 DEF Moves, Claim, Waiting, Terminal
  <1>8. held' = [held EXCEPT ![c] = [root |-> r, retry |-> k, fence |-> row.fence]]
    BY <1>3 DEF Claim
  <1>9. ~open[c]
    BY DEF Claim, TaskInv, OpenOwned
  <1>10. [root |-> r, retry |-> k, fence |-> row.fence] \in Claims
    BY <1>1, <1>3 DEF Claims
  <1>11. ClaimsFollow(r, k, row)
    BY <1>3, <1>8, <1>9, <1>10 DEF ClaimsFollow, TaskInv, TaskTypeOK
  <1> QED BY <1>2, <1>7, <1>11, MoveKeepsInv

\* heartbeat, progress, complete, permanent_failure, safe_cancel and
\* retryable_failure, by the owner.
LEMMA OwnerKeepsInv ==
    ASSUME TaskInv, NEW c \in Consumer,
           \/ Heartbeat(c)
           \/ \E phase \in Phases \ {"unspecified"} : Progress(c, phase)
           \/ \E state \in Terminal : Finish(c, state)
           \/ \E wait \in 1..WaitTicks : RetryLater(c, wait)
    PROVE  TaskInv' /\ RowsStand
  <1>1. Owns(c)
    BY DEF Heartbeat, Progress, Finish, RetryLater
  <1>2. /\ RowOK(Row(c)) /\ Row(c) \in Run
        /\ Row(c).state = "running" /\ Row(c).worker = c
    BY <1>1, OwnerRow DEF RowOK
  <1>3. CASE Heartbeat(c)
    <2> DEFINE row == [Row(c) EXCEPT !.lease = LeaseTicks]
    <2>1. row \in Run
      BY <1>2, BoundsAreNatural DEF Run
    <2>2. RowOK(row) /\ row.state = "running" /\ row.command = Row(c).command
          /\ row.fence = Row(c).fence /\ row.worker = Row(c).worker
      BY <1>2, <2>1 DEF RowOK, Run
    <2>3. Move(c, row)
      BY <1>3 DEF Heartbeat
    <2> QED BY <1>1, <2>2, <2>3, OwnerMove
  <1>4. ASSUME NEW phase \in Phases, Progress(c, phase)
        PROVE  TaskInv' /\ RowsStand
    <2> DEFINE row == [Row(c) EXCEPT !.phase = phase]
    <2>1. row \in Run
      BY <1>2 DEF Run
    <2>2. RowOK(row) /\ row.state = "running" /\ row.command = Row(c).command
          /\ row.fence = Row(c).fence /\ row.worker = Row(c).worker
      BY <1>2, <2>1 DEF RowOK, Run
    <2>3. Move(c, row)
      BY <1>4 DEF Progress
    <2> QED BY <1>1, <2>2, <2>3, OwnerMove
  <1>5. ASSUME NEW state \in Terminal, Finish(c, state)
        PROVE  TaskInv' /\ RowsStand
    <2> DEFINE row == [Row(c) EXCEPT !.state = state, !.lease = 0]
    <2>1. row \in Run
      BY <1>2 DEF Run, States
    <2>2. RowOK(row) /\ row.state # "absent" /\ row.command = Row(c).command
          /\ row.fence = Row(c).fence /\ row.worker = Row(c).worker
      BY <1>2, <2>1 DEF RowOK, Run, Terminal
    <2>3. Move(c, row)
      BY <1>5 DEF Finish
    <2> QED BY <1>1, <2>2, <2>3, OwnerMove
  <1>6. ASSUME NEW wait \in 1..WaitTicks, RetryLater(c, wait)
        PROVE  TaskInv' /\ RowsStand
    <2> DEFINE row == [Row(c) EXCEPT
                         !.state = "retry_wait", !.lease = 0, !.wait = wait]
    <2>0. wait \in Nat
      BY BoundsAreNatural
    <2>1. row \in Run
      BY <1>2, <2>0 DEF Run, States, Waiting
    <2>2. RowOK(row) /\ row.state # "absent" /\ row.command = Row(c).command
          /\ row.fence = Row(c).fence /\ row.worker = Row(c).worker
      BY <1>2, <2>1 DEF RowOK, Run
    <2>3. Move(c, row)
      BY <1>6 DEF RetryLater
    <2> QED BY <1>1, <2>2, <2>3, OwnerMove
  <1> QED BY <1>3, <1>4, <1>5, <1>6

-----------------------------------------------------------------------------
(* Services and recovery.                                                  *)

\* A row nobody owns is replaced by a service: no claim in memory changes.
LEMMA ServiceMove ==
    ASSUME TaskInv, NEW r \in Root, NEW k \in Retry, NEW row,
           Moves(r, k, row), Put(r, k, row),
           UNCHANGED <<held, open, effects>>
    PROVE  TaskInv' /\ RowsStand
  <1>1. ClaimsFollow(r, k, row)
    BY DEF ClaimsFollow, TaskInv, TaskTypeOK
  <1> QED BY <1>1, MoveKeepsInv

\* safe_cancel and recovery_cancel by an owning service.
LEMMA CancelKeepsInv ==
    ASSUME TaskInv, NEW r \in Root, NEW k \in Retry, CancelUnclaimed(r, k)
    PROVE  TaskInv' /\ RowsStand
  <1> DEFINE row == [run[r][k] EXCEPT !.state = "cancelled"]
  <1>1. /\ run[r][k] \in Run /\ RowOK(run[r][k])
        /\ run[r][k].fence \in Nat
    BY DEF TaskInv, TaskTypeOK, RowOK, Run
  <1>2. row \in Run
    BY <1>1 DEF Run, States, Terminal
  <1>3. /\ row.state = "cancelled" /\ row.fence = run[r][k].fence
        /\ row.worker = run[r][k].worker /\ row.command = run[r][k].command
        /\ row.lease = run[r][k].lease /\ row.attempt = run[r][k].attempt
    BY <1>1 DEF Run
  <1>4. run[r][k].state # "running" /\ run[r][k].state \notin Terminal \cup {"absent"}
    BY DEF CancelUnclaimed, Waiting, Terminal
  <1>5. RowOK(row)
    BY <1>1, <1>2, <1>3, <1>4 DEF RowOK
  <1>6. Moves(r, k, row)
    BY <1>1, <1>3, <1>4, <1>5 DEF Moves, CancelUnclaimed
  <1> QED BY <1>6, ServiceMove DEF CancelUnclaimed

\* _recover_once: expiry advances the fence, and the plan moves the row.
LEMMA RecoverKeepsInv ==
    ASSUME TaskInv, NEW r \in Root, NEW k \in Retry, NEW plan \in Plans,
           NEW wait \in 1..WaitTicks, Recover(r, k, plan, wait)
    PROVE  TaskInv' /\ RowsStand
  <1> DEFINE fence == IF Expired(r, k) THEN run[r][k].fence + 1 ELSE run[r][k].fence
             delay == IF plan = "recovery_retry" THEN wait ELSE run[r][k].wait
             state == PlanState(plan)
             row == [run[r][k] EXCEPT !.state = state, !.fence = fence,
                                      !.wait = delay]
  <1>1. /\ run[r][k] \in Run /\ RowOK(run[r][k])
        /\ run[r][k].fence \in Nat /\ run[r][k].attempt \in Nat
        /\ run[r][k].wait \in Nat
    BY DEF TaskInv, TaskTypeOK, RowOK, Run
  <1>2. fence \in Nat /\ run[r][k].fence <= fence /\ delay \in Nat
    BY <1>1, BoundsAreNatural
  <1>3. state \in States \ {"running", "absent"}
    BY DEF PlanState, Plans, States, Waiting, Terminal
  <1>4. Put(r, k, row)
    BY DEF Recover
  <1> HIDE DEF fence, delay, state
  <1>5. row \in Run
    BY <1>1, <1>2, <1>3 DEF Run
  <1>6. /\ row.state = state /\ row.fence = fence
        /\ row.worker = run[r][k].worker /\ row.command = run[r][k].command
        /\ row.lease = run[r][k].lease /\ row.attempt = run[r][k].attempt
    BY <1>1 DEF Run
  <1>7. /\ run[r][k].lease = 0
        /\ run[r][k].state \notin Terminal \cup {"absent"}
    BY <1>1 DEF Recover, Expired, RowOK, Terminal
  <1>8. row.attempt <= row.fence
    BY <1>1, <1>2, <1>6 DEF RowOK
  <1>9. RowOK(row)
    BY <1>3, <1>5, <1>6, <1>7, <1>8 DEF RowOK
  <1>10. Moves(r, k, row)
    BY <1>2, <1>3, <1>6, <1>7, <1>9 DEF Moves, Recover
  <1> QED BY <1>4, <1>10, ServiceMove DEF Recover

\* A blank row becomes a queued run, with a command no run of the chain bears
\* (enqueue, retry_failed): the rows before it have failed.
LEMMA CreateKeepsInv ==
    ASSUME TaskInv, NEW r \in Root, NEW k \in Retry, NEW wait \in Nat,
           NEW command \in Command \cup {NoCommand},
           run[r][k].state = "absent",
           \A j \in Retry : j > k => run[r][j].state = "absent",
           \A j \in Retry : j < k => run[r][j].state = "failed",
           command # NoCommand => \A j \in Retry : run[r][j].command # command,
           Put(r, k, NewRun(wait, command)),
           UNCHANGED <<held, open, effects>>
    PROVE  TaskInv' /\ RowsStand
  <1> USE RetryIsNat
  <1> DEFINE row == NewRun(wait, command)
  <1>1. /\ row \in Run /\ RowOK(row)
        /\ row.state = "queued" /\ row.command = command
    BY PhasesKnown DEF NewRun, Run, RowOK, States, Waiting
  <1>2. /\ run' \in [Root -> [Retry -> Run]]
        /\ run'[r][k] = row
        /\ \A s \in Root, j \in Retry :
              s # r \/ j # k => run'[s][j] = run[s][j]
    BY <1>1, PutRow DEF TaskInv, TaskTypeOK
  <1> HIDE DEF row
  <1>3. \A s \in Root, j \in Retry : RowOK(run'[s][j])
    BY <1>1, <1>2 DEF TaskInv, TaskTypeOK, RowOK
  <1>4. TaskTypeOK'
    BY <1>2, <1>3 DEF TaskInv, TaskTypeOK, RowOK
  <1>5. OnlyLatestLives'
    BY <1>1, <1>2 DEF TaskInv, OnlyLatestLives
  <1>6. CommandBindsOnce'
    BY <1>1, <1>2 DEF TaskInv, CommandBindsOnce
  <1>7. OneOwnerPerFence'
    BY DEF TaskInv, OneOwnerPerFence
  <1>8. \A c \in Consumer : held[c] # NoClaim =>
           /\ held[c].root \in Root /\ held[c].retry \in Retry
           /\ run'[held[c].root][held[c].retry] = run[held[c].root][held[c].retry]
    <2> SUFFICES ASSUME NEW c \in Consumer, held[c] # NoClaim
                 PROVE  /\ held[c].root \in Root /\ held[c].retry \in Retry
                        /\ run'[held[c].root][held[c].retry]
                              = run[held[c].root][held[c].retry]
      OBVIOUS
    <2>1. held[c].root \in Root /\ held[c].retry \in Retry
      BY DEF TaskInv, TaskTypeOK, Claims
    <2>2. run[held[c].root][held[c].retry].state # "absent"
      BY DEF TaskInv, ClaimsBehind, Row
    <2> QED BY <2>1, <2>2, <1>2
  <1>9. ClaimsBehind'
    BY <1>8 DEF TaskInv, ClaimsBehind, Row
  <1>10. OpenOwned'
    BY <1>8 DEF TaskInv, OpenOwned, Row
  <1>11. OneOpen'
    BY DEF TaskInv, OneOpen
  <1>12. effects[r][k] = {}
    BY DEF TaskInv, AbsentBlank
  <1>13. EffectsBehind'
    BY <1>2, <1>12 DEF TaskInv, EffectsBehind
  <1>14. AbsentBlank'
    BY <1>1, <1>2 DEF TaskInv, AbsentBlank
  <1>15. RowsStand
    <2>1. \A s \in Root, j \in Retry : run[s][j].fence \in Nat
      BY DEF TaskInv, TaskTypeOK, Run
    <2>2. run[r][k].fence = 0 /\ run[r][k].worker = NoConsumer
      BY DEF TaskInv, AbsentBlank
    <2>3. row.fence = 0 /\ row.worker = NoConsumer
      BY DEF row, NewRun
    <2> SUFFICES ASSUME NEW s \in Root, NEW j \in Retry
                 PROVE  /\ run[s][j].state \in Terminal
                              => run'[s][j].state = run[s][j].state
                        /\ run[s][j].fence <= run'[s][j].fence
                        /\ run'[s][j].worker # run[s][j].worker
                              => run[s][j].fence < run'[s][j].fence
      BY DEF RowsStand
    <2>4. CASE s = r /\ j = k
      BY <1>2, <2>2, <2>3, <2>4 DEF Terminal
    <2>5. CASE s # r \/ j # k
      BY <1>2, <2>1, <2>5
    <2> QED BY <2>4, <2>5
  <1> QED BY <1>4, <1>5, <1>6, <1>7, <1>9, <1>10, <1>11, <1>13, <1>14, <1>15
          DEF TaskInv

\* enqueue creates the root run of a chain that has none.
LEMMA EnqueueKeepsInv ==
    ASSUME TaskInv, NEW r \in Root, NEW wait \in 0..WaitTicks, Enqueue(r, wait)
    PROVE  TaskInv' /\ RowsStand
  <1> USE RetryIsNat
  <1>1. wait \in Nat
    BY BoundsAreNatural
  <1>2. /\ run[r][0].state = "absent"
        /\ Put(r, 0, NewRun(wait, NoCommand))
        /\ UNCHANGED <<held, open, effects>>
    BY DEF Enqueue
  <1>3. \A j \in Retry : j > 0 => run[r][j].state = "absent"
    BY <1>2 DEF TaskInv, OnlyLatestLives
  <1>4. \A j \in Retry : j < 0 => run[r][j].state = "failed"
    BY BoundsAreNatural DEF Retry
  <1> QED BY <1>1, <1>2, <1>3, <1>4, CreateKeepsInv

\* retry_failed appends a run to a chain whose latest run has failed.
LEMMA RetryKeepsInv ==
    ASSUME TaskInv, NEW r \in Root, NEW k \in Retry, NEW command \in Command,
           RetryFailed(r, k, command)
    PROVE  TaskInv' /\ RowsStand
  <1> USE RetryIsNat
  <1>1. k + 1 \in Retry /\ k \in Nat
    BY BoundsAreNatural DEF RetryFailed, Retry
  <1>2. \A j \in Retry : j > k => run[r][j].state = "absent"
    <2> SUFFICES ASSUME NEW j \in Retry, j > k
                 PROVE  run[r][j].state = "absent"
      OBVIOUS
    <2>1. j \in Nat /\ ~(j <= k)
      BY <1>1
    <2> QED BY <2>1 DEF RetryFailed, Latest
  <1>3. \A j \in Retry : j <= k => run[r][j].state = "failed"
    BY <1>1 DEF RetryFailed, Latest, TaskInv, OnlyLatestLives
  <1>4. /\ run[r][k + 1].state = "absent"
        /\ \A j \in Retry : j > k + 1 => run[r][j].state = "absent"
        /\ \A j \in Retry : j < k + 1 => run[r][j].state = "failed"
    <2>1. k + 1 > k /\ \A j \in Nat : (j > k + 1 => j > k) /\ (j < k + 1 => j <= k)
      BY <1>1
    <2> QED BY <1>1, <1>2, <1>3, <2>1
  <1>5. /\ \A j \in Retry : run[r][j].command # command
        /\ Put(r, k + 1, NewRun(0, command))
        /\ UNCHANGED <<held, open, effects>>
    BY DEF RetryFailed
  <1> QED BY <1>1, <1>4, <1>5, CreateKeepsInv

-----------------------------------------------------------------------------
(* Effects, process loss and time.                                         *)

\* Steps that touch no row.
LEMMA SameRowsStand ==
    ASSUME TaskInv, UNCHANGED run
    PROVE  RowsStand
  <1>1. \A r \in Root, k \in Retry : run[r][k].fence \in Nat
    BY DEF TaskInv, TaskTypeOK, Run
  <1> QED BY <1>1 DEF RowsStand

\* Execution.effect: a consumer that opens its transaction owns the row and
\* is the only one with an open transaction on the chain.
LEMMA BeginKeepsInv ==
    ASSUME TaskInv, NEW c \in Consumer, BeginEffect(c)
    PROVE  TaskInv' /\ RowsStand
  <1>1. /\ open' = [open EXCEPT ![c] = TRUE]
        /\ UNCHANGED <<run, held, effects>>
        /\ open \in [Consumer -> BOOLEAN]
    BY DEF BeginEffect, TaskInv, TaskTypeOK
  <1>2. open' \in [Consumer -> BOOLEAN] /\ \A d \in Consumer : d # c => open'[d] = open[d]
    BY <1>1
  <1>3. TaskTypeOK'
    BY <1>1, <1>2 DEF TaskInv, TaskTypeOK
  <1>4. OpenOwned'
    <2> SUFFICES ASSUME NEW d \in Consumer, open'[d]
                 PROVE  /\ held[d] # NoClaim
                        /\ Row(d).state = "running"
                        /\ Row(d).fence = held[d].fence
                        /\ Row(d).worker = d
      BY <1>1 DEF OpenOwned, Row
    <2>1. CASE d = c
      BY <2>1 DEF BeginEffect, Owns
    <2>2. CASE d # c
      BY <1>2, <2>2 DEF TaskInv, OpenOwned
    <2> QED BY <2>1, <2>2
  <1>5. OneOpen'
    BY <1>1, <1>2 DEF TaskInv, OneOpen, BeginEffect, Owns, RootFree
  <1>6. OnlyLatestLives' /\ CommandBindsOnce' /\ OneOwnerPerFence'
    BY <1>1 DEF TaskInv, OnlyLatestLives, CommandBindsOnce, OneOwnerPerFence
  <1>7. ClaimsBehind' /\ EffectsBehind' /\ AbsentBlank'
    BY <1>1 DEF TaskInv, ClaimsBehind, EffectsBehind, AbsentBlank, Row
  <1> QED BY <1>1, <1>3, <1>4, <1>5, <1>6, <1>7, SameRowsStand DEF TaskInv

\* The effect an open transaction commits bears the fence and the worker of
\* the row it holds locked, so it agrees with every effect of that fence.
LEMMA CommitKeepsInv ==
    ASSUME TaskInv, NEW c \in Consumer, CommitEffect(c)
    PROVE  TaskInv' /\ RowsStand /\ EffectsOwned
  <1> DEFINE r == held[c].root
             k == held[c].retry
             new == [fence |-> held[c].fence, worker |-> c]
  <1>1. /\ open[c] /\ UNCHANGED <<run, held>>
        /\ open' = [open EXCEPT ![c] = FALSE]
        /\ effects' = [effects EXCEPT ![r][k] = @ \cup {new}]
    BY DEF CommitEffect
  <1>2. /\ held[c] # NoClaim
        /\ Row(c).state = "running" /\ Row(c).fence = held[c].fence
        /\ Row(c).worker = c
    BY <1>1 DEF TaskInv, OpenOwned
  <1>3. r \in Root /\ k \in Retry /\ held[c].fence \in Nat
    BY <1>2 DEF TaskInv, TaskTypeOK, Claims
  <1>4. /\ run[r][k].state = "running" /\ run[r][k].fence = new.fence
        /\ run[r][k].worker = new.worker
    BY <1>2 DEF Row
  <1>5. new \in [fence : Nat, worker : Consumer]
    BY <1>3
  <1> HIDE DEF r, k, new
  <1>6. /\ effects' \in [Root -> [Retry -> SUBSET [fence : Nat, worker : Consumer]]]
        /\ effects'[r][k] = effects[r][k] \cup {new}
        /\ \A s \in Root, j \in Retry :
              s # r \/ j # k => effects'[s][j] = effects[s][j]
    BY <1>1, <1>3, <1>5 DEF TaskInv, TaskTypeOK
  <1>7. /\ open' \in [Consumer -> BOOLEAN] /\ ~open'[c]
        /\ \A d \in Consumer : d # c => open'[d] = open[d]
    BY <1>1 DEF TaskInv, TaskTypeOK
  <1>8. TaskTypeOK'
    BY <1>1, <1>6, <1>7 DEF TaskInv, TaskTypeOK
  <1>9. EffectsBehind'
    <2> SUFFICES ASSUME NEW s \in Root, NEW j \in Retry, NEW e \in effects'[s][j]
                 PROVE  /\ e.fence <= run[s][j].fence
                        /\ e.fence = run[s][j].fence => e.worker = run[s][j].worker
      BY <1>1 DEF EffectsBehind
    <2>1. CASE e \in effects[s][j]
      BY <2>1 DEF TaskInv, EffectsBehind
    <2>2. CASE e \notin effects[s][j]
      <3>1. s = r /\ j = k /\ e = new
        BY <2>2, <1>6
      <3>2. run[r][k].fence \in Nat
        BY <1>3 DEF TaskInv, TaskTypeOK, Run
      <3> QED BY <3>1, <3>2, <1>4
    <2> QED BY <2>1, <2>2
  <1>10. OneOwnerPerFence'
    <2> SUFFICES ASSUME NEW s \in Root, NEW j \in Retry,
                        NEW e \in effects'[s][j], NEW f \in effects'[s][j],
                        e.fence = f.fence
                 PROVE  e.worker = f.worker
      BY DEF OneOwnerPerFence
    <2>1. CASE e \in effects[s][j] /\ f \in effects[s][j]
      BY <2>1 DEF TaskInv, OneOwnerPerFence
    <2>2. CASE s = r /\ j = k /\ (e = new \/ f = new)
      BY <2>2, <1>1, <1>4, <1>9 DEF EffectsBehind
    <2> QED BY <2>1, <2>2, <1>6
  <1>11. AbsentBlank'
    BY <1>1, <1>4, <1>6 DEF TaskInv, AbsentBlank
  <1>12. OpenOwned' /\ OneOpen'
    BY <1>1, <1>7 DEF TaskInv, OpenOwned, OneOpen, Row
  <1>13. EffectsOwned
    BY <1>4, <1>6 DEF EffectsOwned
  <1> QED BY <1>1, <1>8, <1>9, <1>10, <1>11, <1>12, <1>13, SameRowsStand
          DEF TaskInv, OnlyLatestLives, CommandBindsOnce, ClaimsBehind, Row

\* A lost process leaves the rows alone and its transaction rolls back.
LEMMA LetGoKeepsInv ==
    ASSUME TaskInv, NEW c \in Consumer, LetGo(c)
    PROVE  TaskInv' /\ RowsStand
  <1>1. /\ UNCHANGED <<run, effects>>
        /\ held' \in [Consumer -> Claims \cup {NoClaim}] /\ held'[c] = NoClaim
        /\ open' \in [Consumer -> BOOLEAN] /\ ~open'[c]
        /\ \A d \in Consumer : d # c => held'[d] = held[d] /\ open'[d] = open[d]
    BY DEF LetGo, TaskInv, TaskTypeOK
  <1>2. TaskTypeOK'
    BY <1>1 DEF TaskInv, TaskTypeOK
  <1>3. ClaimsBehind' /\ OpenOwned' /\ OneOpen'
    BY <1>1 DEF TaskInv, ClaimsBehind, OpenOwned, OneOpen, Row
  <1> QED BY <1>1, <1>2, <1>3, SameRowsStand
          DEF TaskInv, OnlyLatestLives, CommandBindsOnce, OneOwnerPerFence,
              EffectsBehind, AbsentBlank

\* Time changes only what remains of leases and delays.
LEMMA TickRows ==
    ASSUME TaskInv, Tick, NEW r \in Root, NEW k \in Retry
    PROVE  /\ RowOK(run'[r][k])
           /\ run'[r][k].state = run[r][k].state
           /\ run'[r][k].fence = run[r][k].fence
           /\ run'[r][k].worker = run[r][k].worker
           /\ run'[r][k].command = run[r][k].command
  <1> DEFINE lease == Elapse(run[r][k].lease)
             wait == Elapse(run[r][k].wait)
  <1>1. run[r][k] \in Run /\ RowOK(run[r][k])
    BY DEF TaskInv, TaskTypeOK, RowOK
  <1>2. lease \in Nat /\ wait \in Nat
    BY <1>1 DEF Elapse, Run
  <1>3. run[r][k].lease = 0 => lease = 0
    BY DEF Elapse
  <1>4. run'[r][k] = [run[r][k] EXCEPT !.lease = lease, !.wait = wait]
    BY DEF Tick
  <1> HIDE DEF lease, wait
  <1>5. run'[r][k] \in Run
    BY <1>1, <1>2, <1>4 DEF Run
  <1>6. /\ run'[r][k].state = run[r][k].state /\ run'[r][k].fence = run[r][k].fence
        /\ run'[r][k].worker = run[r][k].worker
        /\ run'[r][k].command = run[r][k].command
        /\ run'[r][k].attempt = run[r][k].attempt /\ run'[r][k].lease = lease
    BY <1>1, <1>4 DEF Run
  <1> QED BY <1>1, <1>3, <1>5, <1>6 DEF RowOK

\* PostgreSQL's clock.
LEMMA TickKeepsInv ==
    ASSUME TaskInv, Tick
    PROVE  TaskInv' /\ RowsStand
  <1>1. /\ UNCHANGED <<held, open, effects>>
        /\ \A r \in Root, k \in Retry :
              /\ RowOK(run'[r][k])
              /\ run'[r][k].state = run[r][k].state
              /\ run'[r][k].fence = run[r][k].fence
              /\ run'[r][k].worker = run[r][k].worker
              /\ run'[r][k].command = run[r][k].command
    BY TickRows DEF Tick
  <1>2. run' \in [Root -> [Retry -> Run]]
    <2>1. run' = [r \in Root |-> [k \in Retry |-> run'[r][k]]]
      BY DEF Tick
    <2>2. \A r \in Root, k \in Retry : run'[r][k] \in Run
      BY <1>1 DEF RowOK
    <2> QED BY <2>1, <2>2
  <1>3. TaskTypeOK'
    BY <1>1, <1>2 DEF TaskInv, TaskTypeOK, RowOK
  <1>4. OnlyLatestLives' /\ CommandBindsOnce' /\ OneOwnerPerFence'
    BY <1>1 DEF TaskInv, OnlyLatestLives, CommandBindsOnce, OneOwnerPerFence
  <1>5. \A c \in Consumer : held[c] # NoClaim =>
           held[c].root \in Root /\ held[c].retry \in Retry
    BY DEF TaskInv, TaskTypeOK, Claims
  <1>6. ClaimsBehind'
    BY <1>1, <1>5 DEF TaskInv, ClaimsBehind, Row
  <1>7. OpenOwned'
    BY <1>1, <1>5 DEF TaskInv, OpenOwned, Row
  <1>8. OneOpen' /\ EffectsBehind' /\ AbsentBlank'
    BY <1>1 DEF TaskInv, OneOpen, EffectsBehind, AbsentBlank
  <1>9. RowsStand
    <2>1. \A r \in Root, k \in Retry : run[r][k].fence \in Nat
      BY DEF TaskInv, TaskTypeOK, Run
    <2> QED BY <1>1, <2>1 DEF RowsStand
  <1> QED BY <1>3, <1>4, <1>6, <1>7, <1>8, <1>9 DEF TaskInv

-----------------------------------------------------------------------------
(* The theorems.                                                           *)

\* The initial tables, with no run, satisfy the invariant.
LEMMA InitHolds == TaskInit => TaskInv
  <1> SUFFICES ASSUME TaskInit PROVE TaskInv
    OBVIOUS
  <1>1. Absent \in Run /\ RowOK(Absent) /\ Absent.state = "absent"
        /\ Absent.fence = 0 /\ Absent.worker = NoConsumer
        /\ Absent.command = NoCommand
    BY PhasesKnown DEF Absent, NewRun, Run, RowOK, States
  <1>2. \A r \in Root, k \in Retry : run[r][k] = Absent /\ effects[r][k] = {}
    BY DEF TaskInit
  <1>3. \A c \in Consumer : held[c] = NoClaim /\ ~open[c]
    BY DEF TaskInit
  <1>4. TaskTypeOK
    BY <1>1, <1>2 DEF TaskInit, TaskTypeOK, RowOK
  <1>5. OnlyLatestLives /\ CommandBindsOnce /\ OneOwnerPerFence
    BY <1>1, <1>2 DEF OnlyLatestLives, CommandBindsOnce, OneOwnerPerFence
  <1>6. ClaimsBehind /\ OpenOwned /\ OneOpen
    BY <1>3 DEF ClaimsBehind, OpenOwned, OneOpen
  <1>7. EffectsBehind /\ AbsentBlank
    BY <1>1, <1>2 DEF EffectsBehind, AbsentBlank
  <1> QED BY <1>4, <1>5, <1>6, <1>7 DEF TaskInv

\* Every step of the engine keeps the invariant, lets finished runs and
\* issued fences stand, and adds effects only under the row's own claim.
LEMMA NextHolds ==
    ASSUME TaskInv, [TaskNext]_taskVars
    PROVE  TaskInv' /\ RowsStand /\ EffectsOwned
  <1>1. CASE UNCHANGED taskVars
    <2> USE <1>1 DEF taskVars
    <2>2. TaskTypeOK' /\ OnlyLatestLives'
      BY DEF TaskInv, TaskTypeOK, OnlyLatestLives
    <2>3. CommandBindsOnce' /\ OneOwnerPerFence'
      BY DEF TaskInv, CommandBindsOnce, OneOwnerPerFence
    <2>4. ClaimsBehind' /\ OpenOwned' /\ OneOpen'
      BY DEF TaskInv, ClaimsBehind, OpenOwned, OneOpen, Row
    <2>5. EffectsBehind' /\ AbsentBlank'
      BY DEF TaskInv, EffectsBehind, AbsentBlank
    <2>1. TaskInv'
      BY <2>2, <2>3, <2>4, <2>5 DEF TaskInv
    <2> QED BY <1>1, <2>1, SameRowsStand DEF taskVars, EffectsOwned
  <1>2. ASSUME NEW c \in Consumer, ConsumerStep(c)
        PROVE  TaskInv' /\ RowsStand /\ EffectsOwned
    <2>1. CASE CommitEffect(c)
      BY <2>1, CommitKeepsInv
    <2>2. CASE LetGo(c)
      BY <2>2, LetGoKeepsInv DEF LetGo, EffectsOwned
    <2>3. CASE BeginEffect(c)
      BY <2>3, BeginKeepsInv DEF BeginEffect, EffectsOwned
    <2>4. ASSUME NEW r \in Root, NEW k \in Retry, Claim(c, r, k)
          PROVE  TaskInv' /\ RowsStand /\ EffectsOwned
      BY <2>4, ClaimKeepsInv DEF Claim, EffectsOwned
    <2>5. CASE \/ Heartbeat(c)
               \/ \E phase \in Phases \ {"unspecified"} : Progress(c, phase)
               \/ \E state \in Terminal : Finish(c, state)
               \/ \E wait \in 1..WaitTicks : RetryLater(c, wait)
      <3>1. effects' = effects
        BY <2>5 DEF Heartbeat, Progress, Finish, RetryLater, Move
      <3> QED BY <2>5, <3>1, OwnerKeepsInv DEF EffectsOwned
    <2> QED BY <1>2, <2>1, <2>2, <2>3, <2>4, <2>5 DEF ConsumerStep
  <1>3. ASSUME NEW r \in Root, ServiceStep(r)
        PROVE  TaskInv' /\ RowsStand /\ EffectsOwned
    <2>1. ASSUME NEW wait \in 0..WaitTicks, Enqueue(r, wait)
          PROVE  TaskInv' /\ RowsStand /\ EffectsOwned
      BY <2>1, EnqueueKeepsInv DEF Enqueue, EffectsOwned
    <2>2. ASSUME NEW k \in Retry, NEW command \in Command,
                 RetryFailed(r, k, command)
          PROVE  TaskInv' /\ RowsStand /\ EffectsOwned
      BY <2>2, RetryKeepsInv DEF RetryFailed, EffectsOwned
    <2>3. ASSUME NEW k \in Retry, CancelUnclaimed(r, k)
          PROVE  TaskInv' /\ RowsStand /\ EffectsOwned
      BY <2>3, CancelKeepsInv DEF CancelUnclaimed, EffectsOwned
    <2>4. ASSUME NEW k \in Retry, NEW plan \in Plans, NEW wait \in 1..WaitTicks,
                 Recover(r, k, plan, wait)
          PROVE  TaskInv' /\ RowsStand /\ EffectsOwned
      BY <2>4, RecoverKeepsInv DEF Recover, EffectsOwned
    <2> QED BY <1>3, <2>1, <2>2, <2>3, <2>4 DEF ServiceStep, RecoverSome
  <1>4. CASE Tick
    BY <1>4, TickKeepsInv DEF Tick, EffectsOwned
  <1> QED BY <1>1, <1>2, <1>3, <1>4 DEF TaskNext

\* The inductive invariant holds in every reachable state.
THEOREM TaskInvHolds == TaskSpec => []TaskInv
  <1>1. TaskInit => TaskInv
    BY InitHolds
  <1>2. TaskInv /\ [TaskNext]_taskVars => TaskInv'
    BY NextHolds
  <1> QED BY <1>1, <1>2, PTL DEF TaskSpec

\* Every TaskRun row keeps its type and the table's row constraints.
THEOREM TypesHold == TaskSpec => []TaskTypeOK
  <1>1. TaskInv => TaskTypeOK
    BY DEF TaskInv
  <1> QED BY <1>1, TaskInvHolds, PTL

\* task_one_nonterminal and task_retry_command: whatever consumers, recovery
\* and Administrators do, an explicit retry never lives beside an earlier run
\* of its chain, and a retry command creates at most one run.
THEOREM ChainsAreSound == TaskSpec => []ChainsSound
  <1>1. TaskInv => ChainsSound
    BY DEF TaskInv, ChainsSound
  <1> QED BY <1>1, TaskInvHolds, PTL

\* Two durable effects recorded under one fencing token of one run come from
\* the same worker: no two consumers ever both act as owner of a fence.
THEOREM FencesHaveOneOwner == TaskSpec => []OneOwnerPerFence
  <1>1. TaskInv => OneOwnerPerFence
    BY DEF TaskInv
  <1> QED BY <1>1, TaskInvHolds, PTL

\* Execution.effect is safe against a lease that expires inside it: an effect
\* commits only on a row still running under the fence it was opened with.
THEOREM EffectsAreFenced == TaskSpec => EffectsFenced
  <1>1. TaskInv /\ [TaskNext]_taskVars => [EffectsOwned]_taskVars
    BY NextHolds
  <1> QED BY <1>1, TaskInvHolds, PTL DEF TaskSpec, EffectsFenced

\* stewardship_task_state_v1: finished runs stay as they finished, fences only
\* grow, and a row changes its worker only together with its fence.
THEOREM HistoryIsImmutable == TaskSpec => HistoryStands
  <1>1. TaskInv /\ [TaskNext]_taskVars => [RowsStand]_taskVars
    BY NextHolds
  <1> QED BY <1>1, TaskInvHolds, PTL DEF TaskSpec, HistoryStands

-----------------------------------------------------------------------------
(***************************************************************************)
(* Safety of Family mail delivery for any number of messages, consumers,   *)
(* retries and provider attempts, and the refinement of SendOnce.          *)
(*                                                                         *)
(* The inductive invariant DeliveryInv puts four things together: the task *)
(* engine's own invariant (TaskInv), with no effect transaction open; what *)
(* a message's row, its occurrence and the pause say of one another        *)
(* (MailOK); what the chain's latest run allows (RunsFollow); and the      *)
(* ledger of provider attempts.  The ledger is what the promise to the     *)
(* Family rests on: every attempt but the last is ruled out or answered    *)
(* for, a ruled-out attempt has no helper left that could still be         *)
(* accepted (LedgerOK), and the attempts that consumers have in their      *)
(* hands, also those that lost their lease long ago, are distinct, known   *)
(* to the message and not ruled out (FlightsOK).                           *)
(***************************************************************************)

\* A consumer that has submitted an attempt and not yet settled it.
InFlight(c) == job[c].pc \in {"submitted", "sending"}

\* One message's row, its occurrence and the pause agree.
MailOK(m, o, p) ==
    /\ m.attempt <= MaxSend
    /\ m.state = "none" => m.attempt = 0
    /\ m.state \in Uncertain => m.attempt > 0
    /\ m.hold <=> p /\ m.state \in Unsent
    /\ m.state = "delivered" => o = "succeeded"
    /\ m.state = "permanent_failure" => o = "failed"
    /\ m.state = "delivery_unknown" <=> o = "delivery_unknown"
    /\ m.state = "submitting" <=> o = "running"
    /\ m.state \in Unsent <=> o = "pending"
    /\ m.state = "cancelled" => o # "succeeded"

\* Attempt a is not in doubt.
Sure(r, a) == a \in ruledOut[r] \cup answered[r]

\* What the records of one message say of its attempts.
LedgerOK(r) ==
    /\ \A a \in Attempt : wire[r][a] # "none" => a <= msg[r].attempt
    /\ \A a \in ruledOut[r] : /\ a <= msg[r].attempt
                              /\ wire[r][a] \in {"none", "refused", "unsent"}
    /\ \A a \in Attempt : a < msg[r].attempt => Sure(r, a)
    /\ msg[r].state \in Unsent \cup {"permanent_failure", "cancelled"}
          => msg[r].attempt = 0 \/ Sure(r, msg[r].attempt)
    /\ msg[r].state = "delivered"
          => msg[r].attempt \in Accepted[r] \cup answered[r]

\* What consumers hold in their hands.
FlightsOK ==
    /\ \A c \in Consumer : job[c].pc # "idle" => held[c] # NoClaim
    /\ \A c \in Consumer : InFlight(c) =>
          /\ job[c].attempt \in Attempt
          /\ job[c].attempt <= Mail(c).attempt
          /\ job[c].attempt \notin ruledOut[held[c].root]
          /\ job[c].pc = "submitted"
                => wire[held[c].root][job[c].attempt] = "none"
          /\ Mail(c).state = "submitting" /\ Mail(c).worker = c
                => job[c].attempt = Mail(c).attempt
    /\ \A c, d \in Consumer :
          /\ InFlight(c) /\ InFlight(d)
          /\ held[c].root = held[d].root /\ job[c].attempt = job[d].attempt
          => c = d

NoneOpen == \A c \in Consumer : ~open[c]

\* What the latest run k of a chain, with this row, allows of message m.
Strand(m, k, row) ==
    /\ m.state = "submitting" =>
          /\ k = m.retry
          /\ row.state \in {"running", "abandoned"}
          /\ row.state = "running" => row.fence = m.fence
    /\ m.state \in {"delivery_unknown", "permanent_failure"} =>
          k = m.retry /\ row.state \in {"running", "abandoned", "failed"}
    /\ m.state \in Unsent => row.state \notin {"succeeded", "cancelled"}

RunsFollow ==
    \A r \in Root, k \in Retry :
        Latest(r, k) => Strand(msg[r], k, run[r][k])

DeliveryInv ==
    /\ TaskInv
    /\ NoneOpen
    /\ DeliveryTypeOK
    /\ \A r \in Root : MailOK(msg[r], occurrence[r], paused)
    /\ OneUncertainPerFamily
    /\ RunsFollow
    /\ \A r \in Root : LedgerOK(r)
    /\ FlightsOK

-----------------------------------------------------------------------------
(* The task engine's side of a mail step.                                  *)

\* Ending the waiting runs of withdrawn mail (schedule_cancel, resume) keeps
\* the task engine's invariant, although it takes many chains at once.
LEMMA CancelRunsKeepsTasks ==
    ASSUME TaskInv, NoneOpen, NEW gone, CancelRuns(gone)
    PROVE  TaskInv' /\ NoneOpen' /\ RowsStand
  <1> USE RetryIsNat
  <1>1. \A r \in Root, k \in Retry :
           /\ run[r][k] \in Run
           /\ RowOK(run[r][k])
           /\ run[r][k].fence \in Nat
    BY DEF TaskInv, TaskTypeOK, RowOK, Run
  <1>2. ASSUME NEW r \in Root, NEW k \in Retry
        PROVE  /\ run'[r][k] \in Run
               /\ RowOK(run'[r][k])
               /\ run'[r][k].fence = run[r][k].fence
               /\ run'[r][k].worker = run[r][k].worker
               /\ run'[r][k].command = run[r][k].command
               /\ \/ run'[r][k].state = run[r][k].state
                  \/ run[r][k].state \in Waiting /\ run'[r][k].state = "cancelled"
    <2> DEFINE row == [run[r][k] EXCEPT !.state = "cancelled"]
    <2>1. CASE r \in gone /\ run[r][k].state \in Waiting
      <3>1. run'[r][k] = row
        BY <2>1 DEF CancelRuns
      <3>2. row \in Run
        BY <1>1 DEF Run, States, Terminal
      <3>3. /\ row.state = "cancelled" /\ row.fence = run[r][k].fence
            /\ row.worker = run[r][k].worker
            /\ row.command = run[r][k].command
            /\ row.attempt = run[r][k].attempt /\ row.lease = run[r][k].lease
        BY <1>1 DEF Run
      <3>4. run[r][k].lease = 0
        BY <1>1, <2>1 DEF RowOK, Waiting
      <3> HIDE DEF row
      <3>5. RowOK(row)
        BY <1>1, <3>2, <3>3, <3>4 DEF RowOK
      <3> QED BY <2>1, <3>1, <3>2, <3>3, <3>5
    <2>2. CASE ~(r \in gone /\ run[r][k].state \in Waiting)
      <3>1. run'[r][k] = run[r][k]
        BY <2>2 DEF CancelRuns
      <3> QED BY <1>1, <3>1
    <2> QED BY <2>1, <2>2
  <1>3. UNCHANGED <<held, open, effects>>
    BY DEF CancelRuns
  <1>4. run' \in [Root -> [Retry -> Run]]
    <2>1. run' = [r \in Root |-> [k \in Retry |-> run'[r][k]]]
      BY DEF CancelRuns
    <2> QED BY <1>2, <2>1
  <1>5. TaskTypeOK'
    BY <1>2, <1>3, <1>4 DEF TaskInv, TaskTypeOK, RowOK
  <1>6. OnlyLatestLives' /\ CommandBindsOnce' /\ OneOwnerPerFence'
    BY <1>2, <1>3 DEF TaskInv, OnlyLatestLives, CommandBindsOnce,
                      OneOwnerPerFence, Waiting
  <1>7. \A c \in Consumer : held[c] # NoClaim =>
           held[c].root \in Root /\ held[c].retry \in Retry
    BY DEF TaskInv, TaskTypeOK, Claims
  <1>8. ClaimsBehind'
    <2> SUFFICES ASSUME NEW c \in Consumer, held[c] # NoClaim
                 PROVE  LET row == run'[held[c].root][held[c].retry]
                        IN  /\ row.state # "absent"
                            /\ held[c].fence <= row.fence
                            /\ held[c].fence = row.fence => row.worker = c
      BY <1>3 DEF ClaimsBehind, Row
    <2>1. held[c].root \in Root /\ held[c].retry \in Retry
      BY <1>7
    <2>2. LET row == run[held[c].root][held[c].retry]
          IN  /\ row.state # "absent"
              /\ held[c].fence <= row.fence
              /\ held[c].fence = row.fence => row.worker = c
      BY DEF TaskInv, ClaimsBehind, Row
    <2> QED BY <1>2, <2>1, <2>2
  <1>9. OpenOwned' /\ OneOpen' /\ NoneOpen'
    BY <1>3 DEF NoneOpen, OpenOwned, OneOpen
  <1>10. EffectsBehind' /\ AbsentBlank'
    BY <1>2, <1>3 DEF TaskInv, EffectsBehind, AbsentBlank
  <1>11. RowsStand
    <2> SUFFICES ASSUME NEW r \in Root, NEW k \in Retry
                 PROVE  /\ run[r][k].state \in Terminal
                              => run'[r][k].state = run[r][k].state
                        /\ run[r][k].fence <= run'[r][k].fence
                        /\ run'[r][k].worker = run[r][k].worker
      BY DEF RowsStand
    <2>1. run[r][k].state \in Waiting => run[r][k].state \notin Terminal
      BY DEF Waiting, Terminal
    <2>2. /\ run'[r][k].fence = run[r][k].fence
          /\ run'[r][k].worker = run[r][k].worker
          /\ \/ run'[r][k].state = run[r][k].state
             \/ run[r][k].state \in Waiting
      BY <1>2
    <2>3. run[r][k].fence <= run'[r][k].fence
      BY <1>1, <2>2
    <2> QED BY <2>1, <2>2, <2>3
  <1> QED BY <1>5, <1>6, <1>8, <1>9, <1>10, <1>11 DEF TaskInv

\* A step of the task engine that opens no effect transaction.
MailTaskStep ==
    \/ UNCHANGED taskVars
    \/ \E gone \in SUBSET Root : CancelRuns(gone)
    \/ TaskNext /\ \A c \in Consumer : open'[c] => open[c]

\* Every task transition of a mail consumer is such a step.
LEMMA ConsumerSide ==
    ASSUME TaskInv, NEW c \in Consumer
    PROVE  /\ \A s \in Root, j \in Retry : Claim(c, s, j) => MailTaskStep
           /\ Heartbeat(c) => MailTaskStep
           /\ \A phase \in {"preparing", "reconciling"} :
                 Progress(c, phase) => MailTaskStep
           /\ \A state \in Terminal : Finish(c, state) => MailTaskStep
           /\ \A wait \in 1..WaitTicks : RetryLater(c, wait) => MailTaskStep
           /\ LetGo(c) => MailTaskStep
  <1>1. \A s \in Root, j \in Retry : Claim(c, s, j) => MailTaskStep
    BY DEF Claim, MailTaskStep, TaskNext, ConsumerStep
  <1>2. Heartbeat(c) => MailTaskStep
    BY DEF Heartbeat, Move, MailTaskStep, TaskNext, ConsumerStep
  <1>3. \A phase \in {"preparing", "reconciling"} :
           Progress(c, phase) => MailTaskStep
    BY MailPhases DEF Progress, Move, MailTaskStep, TaskNext, ConsumerStep
  <1>4. \A state \in Terminal : Finish(c, state) => MailTaskStep
    BY DEF Finish, Move, MailTaskStep, TaskNext, ConsumerStep
  <1>5. \A wait \in 1..WaitTicks : RetryLater(c, wait) => MailTaskStep
    BY DEF RetryLater, Move, MailTaskStep, TaskNext, ConsumerStep
  <1>6. LetGo(c) => MailTaskStep
    <2>1. open \in [Consumer -> BOOLEAN]
      BY DEF TaskInv, TaskTypeOK
    <2> QED BY <2>1 DEF LetGo, MailTaskStep, TaskNext, ConsumerStep
  <1> QED BY <1>1, <1>2, <1>3, <1>4, <1>5, <1>6

\* So is every task transition of the services around the mail.
LEMMA ServiceSide ==
    ASSUME NEW r \in Root, NEW k \in Retry
    PROVE  /\ \A wait \in 0..WaitTicks : Enqueue(r, wait) => MailTaskStep
           /\ \A command \in Command :
                 RetryFailed(r, k, command) => MailTaskStep
           /\ \A plan \in Plans, wait \in 1..WaitTicks :
                 Recover(r, k, plan, wait) => MailTaskStep
  <1>1. \A wait \in 0..WaitTicks : Enqueue(r, wait) => MailTaskStep
    BY DEF Enqueue, MailTaskStep, TaskNext, ServiceStep
  <1>2. \A command \in Command : RetryFailed(r, k, command) => MailTaskStep
    BY DEF RetryFailed, MailTaskStep, TaskNext, ServiceStep
  <1>3. \A plan \in Plans, wait \in 1..WaitTicks :
           Recover(r, k, plan, wait) => MailTaskStep
    BY DEF Recover, MailTaskStep, TaskNext, ServiceStep, RecoverSome
  <1> QED BY <1>1, <1>2, <1>3

\* Such a step keeps the task engine's invariant.
LEMMA TaskStepHolds ==
    ASSUME TaskInv, NoneOpen, MailTaskStep
    PROVE  TaskInv' /\ NoneOpen' /\ RowsStand
  <1>1. CASE UNCHANGED taskVars
    BY <1>1, NextHolds DEF NoneOpen, taskVars
  <1>2. CASE \E gone \in SUBSET Root : CancelRuns(gone)
    BY <1>2, CancelRunsKeepsTasks
  <1>3. CASE TaskNext /\ \A c \in Consumer : open'[c] => open[c]
    BY <1>3, NextHolds DEF NoneOpen
  <1> QED BY <1>1, <1>2, <1>3 DEF MailTaskStep

-----------------------------------------------------------------------------
(* Rows and claims under a mail step.                                      *)

\* A run that still lives is the latest of its chain, and the only latest.
LEMMA LiveIsLatest ==
    ASSUME TaskInv, NEW r \in Root, NEW k \in Retry,
           run[r][k].state \notin Terminal \cup {"absent"}
    PROVE  /\ Latest(r, k)
           /\ \A j \in Retry : Latest(r, j) => j = k
  <1> USE RetryIsNat
  <1>1. \A j \in Retry : run[r][j].state # "absent" => ~(k < j)
    BY DEF TaskInv, OnlyLatestLives, Terminal
  <1>2. Latest(r, k)
    BY <1>1 DEF Latest
  <1>3. \A j \in Retry : Latest(r, j) => j = k
    BY <1>2 DEF Latest
  <1> QED BY <1>2, <1>3

\* No step but a creation changes which run is the latest.
LEMMA LatestStays ==
    ASSUME \A s \in Root, j \in Retry :
              run'[s][j].state = "absent" <=> run[s][j].state = "absent"
    PROVE  \A s \in Root, j \in Retry : Latest(s, j)' <=> Latest(s, j)
  BY DEF Latest

\* What a consumer's task transition does to the rows and to the claims: the
\* owned run was the latest, takes the state new, and keeps its fence.
OwnerMoves(c, new) ==
    LET r == held[c].root
        k == held[c].retry
    IN  /\ r \in Root /\ k \in Retry
        /\ Latest(r, k)
        /\ run[r][k].state = "running"
        /\ run'[r][k].state = new
        /\ run'[r][k].fence = run[r][k].fence
        /\ \A s \in Root, j \in Retry :
              s # r \/ j # k => run'[s][j] = run[s][j]
        /\ \A s \in Root, j \in Retry : Latest(s, j)' <=> Latest(s, j)
        /\ \A s \in Root : s = r => \A j \in Retry : Latest(s, j) => j = k
        /\ \A d \in Consumer : d # c => held'[d] = held[d]
        /\ held'[c] = IF new = "running" THEN held[c] ELSE NoClaim

LEMMA MoveIsOwnerMoves ==
    ASSUME TaskInv, NEW c \in Consumer, Owns(c), NEW row \in Run,
           row.state # "absent", row.fence = Row(c).fence, Move(c, row)
    PROVE  OwnerMoves(c, row.state)
  <1> DEFINE r == held[c].root
             k == held[c].retry
  <1>1. /\ r \in Root /\ k \in Retry /\ Row(c) = run[r][k]
        /\ run[r][k].state = "running"
    BY OwnerRow
  <1>2. Put(r, k, row)
    BY DEF Move
  <1> HIDE DEF r, k
  <1>3. /\ run'[r][k] = row
        /\ \A s \in Root, j \in Retry :
              s # r \/ j # k => run'[s][j] = run[s][j]
    BY <1>1, <1>2, PutRow DEF TaskInv, TaskTypeOK
  <1>4. Latest(r, k) /\ \A j \in Retry : Latest(r, j) => j = k
    BY <1>1, LiveIsLatest DEF Terminal
  <1>5. \A s \in Root, j \in Retry :
           run'[s][j].state = "absent" <=> run[s][j].state = "absent"
    BY <1>1, <1>3
  <1>6. \A s \in Root, j \in Retry : Latest(s, j)' <=> Latest(s, j)
    BY <1>5, LatestStays
  <1>7. /\ \A d \in Consumer : d # c => held'[d] = held[d]
        /\ held'[c] = IF row.state = "running" THEN held[c] ELSE NoClaim
    BY DEF Move, TaskInv, TaskTypeOK
  <1> QED BY <1>1, <1>3, <1>4, <1>6, <1>7 DEF OwnerMoves, r, k

\* heartbeat and progress leave the run running.
LEMMA StaysRunning ==
    ASSUME TaskInv, NEW c \in Consumer,
           \/ Heartbeat(c)
           \/ \E phase \in {"preparing", "reconciling"} : Progress(c, phase)
    PROVE  MailTaskStep /\ Owns(c) /\ OwnerMoves(c, "running")
  <1>1. Owns(c)
    BY DEF Heartbeat, Progress
  <1>2. Row(c) \in Run /\ Row(c).state = "running"
    BY <1>1, OwnerRow DEF RowOK
  <1>3. CASE Heartbeat(c)
    <2> DEFINE row == [Row(c) EXCEPT !.lease = LeaseTicks]
    <2>1. row \in Run /\ row.state = "running" /\ row.fence = Row(c).fence
      BY <1>2, BoundsAreNatural DEF Run
    <2>2. Move(c, row)
      BY <1>3 DEF Heartbeat
    <2> HIDE DEF row
    <2>3. OwnerMoves(c, "running")
      BY <1>1, <2>1, <2>2, MoveIsOwnerMoves
    <2> QED BY <1>1, <1>3, <2>3, ConsumerSide
  <1>4. ASSUME NEW phase \in {"preparing", "reconciling"}, Progress(c, phase)
        PROVE  MailTaskStep /\ OwnerMoves(c, "running")
    <2> DEFINE row == [Row(c) EXCEPT !.phase = phase]
    <2>1. row \in Run /\ row.state = "running" /\ row.fence = Row(c).fence
      BY <1>2, MailPhases DEF Run
    <2>2. Move(c, row)
      BY <1>4 DEF Progress
    <2> HIDE DEF row
    <2>3. OwnerMoves(c, "running")
      BY <1>1, <2>1, <2>2, MoveIsOwnerMoves
    <2> QED BY <1>4, <2>3, ConsumerSide
  <1> QED BY <1>1, <1>3, <1>4

\* complete, permanent_failure and safe_cancel end the run.
LEMMA FinishEnds ==
    ASSUME TaskInv, NEW c \in Consumer, NEW new \in Terminal, Finish(c, new)
    PROVE  MailTaskStep /\ OwnerMoves(c, new)
  <1> DEFINE row == [Row(c) EXCEPT !.state = new, !.lease = 0]
  <1>1. Owns(c) /\ Move(c, row)
    BY DEF Finish
  <1>2. Row(c) \in Run
    BY <1>1, OwnerRow DEF RowOK
  <1>3. row \in Run /\ row.state = new /\ row.fence = Row(c).fence
    BY <1>2 DEF Run, States
  <1>4. new # "absent"
    BY DEF Terminal
  <1> HIDE DEF row
  <1>5. OwnerMoves(c, new)
    BY <1>1, <1>3, <1>4, MoveIsOwnerMoves
  <1> QED BY <1>5, ConsumerSide

\* retryable_failure gives the run back.
LEMMA RetryGivesBack ==
    ASSUME TaskInv, NEW c \in Consumer, NEW wait \in 1..WaitTicks,
           RetryLater(c, wait)
    PROVE  MailTaskStep /\ OwnerMoves(c, "retry_wait")
  <1> DEFINE row == [Row(c) EXCEPT
                       !.state = "retry_wait", !.lease = 0, !.wait = wait]
  <1>1. Owns(c) /\ Move(c, row)
    BY DEF RetryLater
  <1>2. Row(c) \in Run
    BY <1>1, OwnerRow DEF RowOK
  <1>3. wait \in Nat /\ "retry_wait" \in States
    BY BoundsAreNatural DEF States, Waiting
  <1>4. row \in Run /\ row.state = "retry_wait" /\ row.fence = Row(c).fence
    BY <1>2, <1>3 DEF Run
  <1> HIDE DEF row
  <1>5. OwnerMoves(c, "retry_wait")
    BY <1>1, <1>4, MoveIsOwnerMoves
  <1> QED BY <1>5, ConsumerSide

-----------------------------------------------------------------------------
(* What a step must leave alone for each part of the invariant to stand.   *)

\* Consumer d keeps the attempt it has in its hands, at most moving on from
\* submitted to sending...
JobKept(d) ==
    /\ held'[d] = held[d]
    /\ job'[d].attempt = job[d].attempt
    /\ \/ job'[d].pc = job[d].pc
       \/ job[d].pc = "submitted" /\ job'[d].pc = "sending"
    /\ InFlight(d) =>
          /\ job[d].attempt \notin ruledOut'[held[d].root]
          /\ job'[d].pc = "submitted" =>
                wire'[held[d].root][job[d].attempt] = "none"

\* ...or has none after the step.
JobLeft(d) ==
    /\ job'[d].pc \notin {"submitted", "sending"}
    /\ job'[d].pc # "idle" => held'[d] # NoClaim

\* No attempt is started, and nobody becomes the submitter of one.
NoSubmission ==
    \A r \in Root :
        /\ msg'[r].attempt = msg[r].attempt
        /\ msg'[r].state \in Uncertain => msg[r].state \in Uncertain
        /\ msg'[r].state = "submitting" =>
              msg[r].state = "submitting" /\ msg'[r].worker = msg[r].worker

\* The ledger of message r, where nothing happens on the wire.
LedgerKept(r) ==
    /\ msg'[r].attempt = msg[r].attempt
    /\ wire'[r] = wire[r]
    /\ ruledOut'[r] = ruledOut[r]
    /\ answered[r] \subseteq answered'[r]
    /\ msg'[r].state \in Unsent \cup {"permanent_failure", "cancelled"} =>
          \/ msg[r].state \in Unsent \cup {"permanent_failure", "cancelled"}
          \/ msg[r].attempt = 0
          \/ msg[r].attempt \in answered'[r]
    /\ msg'[r].state = "delivered" =>
          msg[r].state = "delivered" \/ msg[r].attempt \in answered'[r]

\* The attempts in flight stay distinct and in doubt.
LEMMA FlightsFrame ==
    ASSUME TaskInv, FlightsOK, NoSubmission,
           \A d \in Consumer : JobKept(d) \/ JobLeft(d)
    PROVE  FlightsOK'
  <1>1. \A d \in Consumer : job'[d].pc # "idle" => held'[d] # NoClaim
    BY DEF FlightsOK, JobKept, JobLeft
  <1>2. ASSUME NEW d \in Consumer, InFlight(d)'
        PROVE  /\ JobKept(d) /\ InFlight(d)
               /\ held[d].root \in Root /\ held'[d].root = held[d].root
    <2>1. JobKept(d) /\ InFlight(d)
      BY <1>2 DEF JobKept, JobLeft, InFlight
    <2>2. held[d] # NoClaim
      BY <2>1 DEF FlightsOK, InFlight
    <2>3. held[d].root \in Root
      BY <2>2 DEF TaskInv, TaskTypeOK, Claims
    <2> QED BY <2>1, <2>3 DEF JobKept
  <1>3. ASSUME NEW d \in Consumer, InFlight(d)'
        PROVE  /\ job'[d].attempt \in Attempt
               /\ job'[d].attempt <= Mail(d)'.attempt
               /\ job'[d].attempt \notin ruledOut'[held'[d].root]
               /\ job'[d].pc = "submitted"
                     => wire'[held'[d].root][job'[d].attempt] = "none"
               /\ Mail(d)'.state = "submitting" /\ Mail(d)'.worker = d
                     => job'[d].attempt = Mail(d)'.attempt
    <2>1. /\ JobKept(d) /\ InFlight(d)
          /\ held[d].root \in Root /\ held'[d].root = held[d].root
      BY <1>2, <1>3
    <2>2. /\ job[d].attempt \in Attempt /\ job[d].attempt <= Mail(d).attempt
          /\ Mail(d).state = "submitting" /\ Mail(d).worker = d
                => job[d].attempt = Mail(d).attempt
      BY <2>1 DEF FlightsOK
    <2>3. Mail(d)' = msg'[held[d].root] /\ Mail(d) = msg[held[d].root]
      BY <2>1 DEF Mail
    <2>4. /\ Mail(d)'.attempt = Mail(d).attempt
          /\ Mail(d)'.state = "submitting" => Mail(d).state = "submitting"
                                          /\ Mail(d)'.worker = Mail(d).worker
      BY <2>1, <2>3 DEF NoSubmission
    <2> QED BY <2>1, <2>2, <2>4 DEF JobKept
  <1>4. ASSUME NEW c \in Consumer, NEW d \in Consumer,
               InFlight(c)', InFlight(d)', held'[c].root = held'[d].root,
               job'[c].attempt = job'[d].attempt
        PROVE  c = d
    BY <1>2, <1>4 DEF FlightsOK, JobKept
  <1> QED BY <1>1, <1>3, <1>4 DEF FlightsOK

\* The ledger of a message stands.
LEMMA LedgerFrame ==
    ASSUME NEW r \in Root, LedgerOK(r), LedgerKept(r)
    PROVE  LedgerOK(r)'
  <1>1. Accepted[r] = {a \in Attempt : wire[r][a] = "accepted"}
        /\ Accepted'[r] = {a \in Attempt : wire'[r][a] = "accepted"}
    BY DEF Accepted
  <1>2. Accepted'[r] = Accepted[r]
    BY <1>1 DEF LedgerKept
  <1> QED BY <1>2 DEF LedgerOK, LedgerKept, Sure

\* At most one message of the Family stays uncertain.
LEMMA UncertainFrame ==
    ASSUME OneUncertainPerFamily, NoSubmission
    PROVE  OneUncertainPerFamily'
  BY DEF OneUncertainPerFamily, NoSubmission

\* The parts of the invariant that no step but a submission, an outcome or a
\* helper's own step touches, put together.
LEMMA FrameHolds ==
    ASSUME DeliveryInv, MailTaskStep, DeliveryTypeOK', NoSubmission,
           \A r \in Root : MailOK(msg'[r], occurrence'[r], paused'),
           \A r \in Root : LedgerKept(r),
           \A d \in Consumer : JobKept(d) \/ JobLeft(d),
           RunsFollow'
    PROVE  DeliveryInv'
  <1>1. TaskInv' /\ NoneOpen'
    BY TaskStepHolds DEF DeliveryInv
  <1>2. FlightsOK' /\ OneUncertainPerFamily'
    BY FlightsFrame, UncertainFrame DEF DeliveryInv
  <1>3. \A r \in Root : LedgerOK(r)'
    BY LedgerFrame DEF DeliveryInv
  <1> QED BY <1>1, <1>2, <1>3 DEF DeliveryInv

-----------------------------------------------------------------------------
(* Steps that touch the task and the consumer's program only.              *)

\* Writing a new program counter.
LEMMA GotoJob ==
    ASSUME job \in [Consumer -> Job], NEW c \in Consumer, NEW pc \in Pc,
           Goto(c, pc)
    PROVE  /\ job' \in [Consumer -> Job]
           /\ job'[c].pc = pc
           /\ \A d \in Consumer : d # c => job'[d] = job[d]
  BY DEF Goto, Job

\* The handler ends.
LEMMA LeaveJob ==
    ASSUME job \in [Consumer -> Job], NEW c \in Consumer, Leave(c)
    PROVE  /\ job' \in [Consumer -> Job]
           /\ job'[c].pc = "idle"
           /\ \A d \in Consumer : d # c => job'[d] = job[d]
  BY DEF Leave, Idle, Job, Pc

\* A consumer that a step does not concern keeps its flight.
LEMMA OthersKept ==
    ASSUME FlightsOK, NEW d \in Consumer,
           held'[d] = held[d], job'[d].attempt = job[d].attempt,
           job'[d].pc = job[d].pc, wire' = wire, ruledOut' = ruledOut
    PROVE  JobKept(d)
  BY DEF FlightsOK, JobKept, InFlight

\* Journaling a hold keeps the counters' type.
LEMMA DeferralsTyped ==
    ASSUME deferrals \in [Root -> [Retry -> Nat]],
           NEW r \in Root, NEW k \in Retry,
           CountDeferral(r, k) \/ UNCHANGED deferrals
    PROVE  deferrals' \in [Root -> [Retry -> Nat]]
  BY DEF CountDeferral

\* A step of the task and the program only keeps the invariant when it keeps
\* the other consumers' programs and what the chain's latest run allows.
LEMMA QuietHolds ==
    ASSUME DeliveryInv, MailTaskStep, RunsFollow',
           UNCHANGED <<msg, occurrence, wire, environment, history>>,
           deferrals' \in [Root -> [Retry -> Nat]],
           job' \in [Consumer -> Job],
           \A d \in Consumer : JobKept(d) \/ JobLeft(d)
    PROVE  DeliveryInv'
  <1>1. DeliveryTypeOK'
    BY DEF DeliveryInv, DeliveryTypeOK, environment, history
  <1>2. NoSubmission /\ \A r \in Root : LedgerKept(r)
    BY DEF NoSubmission, LedgerKept, history
  <1>3. \A r \in Root : MailOK(msg'[r], occurrence'[r], paused')
    BY DEF DeliveryInv, environment
  <1> QED BY <1>1, <1>2, <1>3, FrameHolds

\* What an owner's task transition to state new asks of the message.
Allowed(c, new) ==
    \/ new = "running"
    \/ new = "retry_wait" /\ Mail(c).state \in Unsent
    \/ new = "failed" /\ Mail(c).state \in
                            Unsent \cup {"permanent_failure", "delivery_unknown"}
    \/ new \in Terminal /\ Mail(c).state \in {"delivered", "cancelled"}

\* The rows after an allowed transition still let every message move on.
LEMMA OwnerFollows ==
    ASSUME RunsFollow, NEW c \in Consumer, NEW new, OwnerMoves(c, new),
           Allowed(c, new), msg' = msg
    PROVE  RunsFollow'
  <1> DEFINE r == held[c].root
             k == held[c].retry
  <1>1. /\ r \in Root /\ k \in Retry /\ Latest(r, k)
        /\ run[r][k].state = "running" /\ run'[r][k].state = new
        /\ run'[r][k].fence = run[r][k].fence
        /\ \A s \in Root, j \in Retry :
              s # r \/ j # k => run'[s][j] = run[s][j]
        /\ \A s \in Root, j \in Retry : Latest(s, j)' <=> Latest(s, j)
    BY DEF OwnerMoves
  <1>2. Mail(c) = msg[r]
    BY DEF Mail
  <1> HIDE DEF r, k
  <1>3. Strand(msg[r], k, run'[r][k])
    <2>1. Strand(msg[r], k, run[r][k])
      BY <1>1 DEF RunsFollow
    <2> QED BY <1>1, <1>2, <2>1 DEF Strand, Allowed, Unsent, Terminal
  <1>4. ASSUME NEW s \in Root, NEW j \in Retry, Latest(s, j)'
        PROVE  Strand(msg'[s], j, run'[s][j])
    BY <1>1, <1>3, <1>4 DEF RunsFollow
  <1> QED BY <1>4 DEF RunsFollow

\* An owner's allowed transition keeps the invariant, whatever its program
\* counter becomes outside the provider call.
LEMMA OwnerQuiet ==
    ASSUME DeliveryInv, MailTaskStep, NEW c \in Consumer, NEW new,
           OwnerMoves(c, new), Allowed(c, new), held[c] # NoClaim,
           UNCHANGED <<msg, occurrence, wire, environment, history>>,
           deferrals' \in [Root -> [Retry -> Nat]],
           job' \in [Consumer -> Job],
           job'[c].pc \notin {"submitted", "sending"},
           new # "running" => job'[c].pc = "idle",
           \A d \in Consumer : d # c => job'[d] = job[d]
    PROVE  DeliveryInv'
  <1>1. RunsFollow'
    BY OwnerFollows DEF DeliveryInv
  <1>2. wire' = wire /\ ruledOut' = ruledOut
    BY DEF history
  <1>3. ASSUME NEW d \in Consumer, d # c PROVE JobKept(d)
    <2>1. held'[d] = held[d] /\ job'[d] = job[d]
      BY <1>3 DEF OwnerMoves
    <2> QED BY <1>2, <2>1, OthersKept DEF DeliveryInv
  <1>4. JobLeft(c)
    BY DEF JobLeft, OwnerMoves
  <1> QED BY <1>1, <1>3, <1>4, QuietHolds

\* _execute's first effect and the first half of _defer_held.
LEMMA ReadHolds ==
    ASSUME DeliveryInv, NEW c \in Consumer, ReadMessage(c) \/ HoldBack(c)
    PROVE  DeliveryInv'
  <1>1. /\ job \in [Consumer -> Job]
        /\ deferrals' \in [Root -> [Retry -> Nat]]
        /\ UNCHANGED <<msg, occurrence, wire, environment, history>>
    BY DEF DeliveryInv, DeliveryTypeOK, ReadMessage, HoldBack
  <1>2. \E phase \in {"preparing", "reconciling"} : Progress(c, phase)
    BY DEF ReadMessage, HoldBack
  <1>3. MailTaskStep /\ Owns(c) /\ OwnerMoves(c, "running")
    BY <1>2, StaysRunning DEF DeliveryInv
  <1>4. held[c] # NoClaim /\ Allowed(c, "running")
    BY <1>3 DEF Owns, Allowed
  <1>5. /\ job' \in [Consumer -> Job]
        /\ job'[c].pc \notin {"submitted", "sending"}
        /\ \A d \in Consumer : d # c => job'[d] = job[d]
    <2>1. CASE \E pc \in {"nosend", "ready", "deferring"} : Goto(c, pc)
      BY <1>1, <2>1, GotoJob DEF Pc
    <2>2. CASE /\ Mail(c).state \in Settled
               /\ job' = [job EXCEPT ![c].pc = "settled",
                                     ![c].seen = Mail(c).state]
      <3>1. "settled" \in Pc
        BY DEF Pc
      <3> QED BY <1>1, <2>2, <3>1 DEF Job
    <2> QED BY <2>1, <2>2 DEF ReadMessage, HoldBack
  <1> QED BY <1>1, <1>3, <1>4, <1>5, OwnerQuiet

\* The lease renewal beside the dispatch.
LEMMA RenewHolds ==
    ASSUME DeliveryInv, NEW c \in Consumer, RenewMail(c)
    PROVE  DeliveryInv'
  <1>1. /\ job' = job /\ deferrals' = deferrals
        /\ UNCHANGED <<msg, occurrence, wire, environment, history>>
    BY DEF RenewMail, mailVars
  <1>2. MailTaskStep /\ OwnerMoves(c, "running")
    BY StaysRunning DEF DeliveryInv, RenewMail
  <1>3. RunsFollow'
    BY <1>1, <1>2, OwnerFollows DEF DeliveryInv, Allowed
  <1>4. ASSUME NEW d \in Consumer PROVE JobKept(d)
    <2>1. held'[d] = held[d]
      BY <1>2 DEF OwnerMoves
    <2> QED BY <1>1, <2>1, OthersKept DEF DeliveryInv, history
  <1>5. deferrals' \in [Root -> [Retry -> Nat]] /\ job' \in [Consumer -> Job]
    BY <1>1 DEF DeliveryInv, DeliveryTypeOK
  <1> QED BY <1>1, <1>2, <1>3, <1>4, <1>5, QuietHolds

\* A held or failing preparation, and the task transition after an outcome.
LEMMA GiveBackHolds ==
    ASSUME DeliveryInv, NEW c \in Consumer, NEW wait \in 1..WaitTicks,
           Park(c, wait) \/ PreparationFails(c, wait) \/ Conclude(c, wait)
    PROVE  DeliveryInv'
  <1>1. /\ job \in [Consumer -> Job]
        /\ UNCHANGED <<msg, occurrence, wire, environment, history>>
        /\ Leave(c)
    BY DEF DeliveryInv, DeliveryTypeOK, Park, PreparationFails, Conclude
  <1>2. /\ job' \in [Consumer -> Job]
        /\ job'[c].pc = "idle"
        /\ \A d \in Consumer : d # c => job'[d] = job[d]
    BY <1>1, LeaveJob
  <1>3. Owns(c)
    BY DEF Park, PreparationFails, Conclude, RetryLater, Finish
  <1>4. held[c] # NoClaim /\ held[c].root \in Root /\ held[c].retry \in Retry
    BY <1>3, OwnerRow DEF DeliveryInv, Owns
  <1>5. deferrals' \in [Root -> [Retry -> Nat]]
    BY <1>4, DeferralsTyped
       DEF DeliveryInv, DeliveryTypeOK, Park, PreparationFails, Conclude
  <1>6. \/ RetryLater(c, wait) /\ Mail(c).state \in Unsent
        \/ \E new \in Terminal : Finish(c, new) /\ Allowed(c, new)
    BY DEF Park, PreparationFails, Conclude, Allowed, Terminal
  <1>7. CASE RetryLater(c, wait) /\ Mail(c).state \in Unsent
    <2>1. MailTaskStep /\ OwnerMoves(c, "retry_wait") /\ Allowed(c, "retry_wait")
      BY <1>7, RetryGivesBack DEF DeliveryInv, Allowed
    <2> QED BY <1>1, <1>2, <1>4, <1>5, <2>1, OwnerQuiet
  <1>8. ASSUME NEW new \in Terminal, Finish(c, new), Allowed(c, new)
        PROVE  DeliveryInv'
    <2>1. MailTaskStep /\ OwnerMoves(c, new)
      BY <1>8, FinishEnds DEF DeliveryInv
    <2> QED BY <1>1, <1>2, <1>4, <1>5, <1>8, <2>1, OwnerQuiet
  <1> QED BY <1>6, <1>7, <1>8

\* _finish_no_send: a cancelled message ends its run, any other is held.
LEMMA FinishNoSendHolds ==
    ASSUME DeliveryInv, NEW c \in Consumer, FinishNoSend(c)
    PROVE  DeliveryInv'
  <1>1. /\ job \in [Consumer -> Job]
        /\ deferrals' \in [Root -> [Retry -> Nat]]
        /\ UNCHANGED <<msg, occurrence, wire, environment, history>>
    BY DEF DeliveryInv, DeliveryTypeOK, FinishNoSend
  <1>2. CASE Mail(c).state = "cancelled" /\ Finish(c, "cancelled") /\ Leave(c)
    <2>1. /\ MailTaskStep /\ OwnerMoves(c, "cancelled")
          /\ Allowed(c, "cancelled") /\ held[c] # NoClaim
      <3>1. TaskInv /\ "cancelled" \in Terminal
        BY DEF DeliveryInv, Terminal
      <3>2. MailTaskStep /\ OwnerMoves(c, "cancelled")
        BY <1>2, <3>1, FinishEnds, Zenon
      <3> QED BY <1>2, <3>1, <3>2 DEF Allowed, Finish, Owns
    <2>2. /\ job' \in [Consumer -> Job] /\ job'[c].pc = "idle"
          /\ \A d \in Consumer : d # c => job'[d] = job[d]
      BY <1>1, <1>2, LeaveJob
    <2> QED BY <1>1, <2>1, <2>2, OwnerQuiet, SMTT(30)
  <1>3. CASE Progress(c, "reconciling") /\ Goto(c, "deferring")
    <2>1. MailTaskStep /\ Owns(c) /\ OwnerMoves(c, "running")
      BY <1>3, StaysRunning DEF DeliveryInv
    <2>2. held[c] # NoClaim /\ Allowed(c, "running")
      BY <2>1 DEF Owns, Allowed
    <2>3. /\ job' \in [Consumer -> Job] /\ job'[c].pc = "deferring"
          /\ \A d \in Consumer : d # c => job'[d] = job[d]
      BY <1>1, <1>3, GotoJob DEF Pc
    <2> QED BY <1>1, <2>1, <2>2, <2>3, OwnerQuiet
  <1> QED BY <1>2, <1>3 DEF FinishNoSend

\* What the claim of a waiting run does to the rows.
LEMMA ClaimMoves ==
    ASSUME TaskInv, NEW c \in Consumer, NEW r \in Root, NEW k \in Retry,
           Claim(c, r, k)
    PROVE  /\ run[r][k].state \in Waiting
           /\ run'[r][k].state = "running"
           /\ \A s \in Root, j \in Retry :
                 s # r \/ j # k => run'[s][j] = run[s][j]
           /\ \A s \in Root, j \in Retry : Latest(s, j)' <=> Latest(s, j)
           /\ held'[c] # NoClaim
           /\ \A d \in Consumer : d # c => held'[d] = held[d]
  <1> DEFINE row == [run[r][k] EXCEPT
                       !.state = "running", !.worker = c,
                       !.fence = run[r][k].fence + 1, !.attempt = @ + 1,
                       !.phase = "starting", !.lease = LeaseTicks]
             claim == [root |-> r, retry |-> k, fence |-> run[r][k].fence + 1]
  <1>1. /\ run[r][k] \in Run
        /\ run[r][k].fence + 1 \in Nat /\ run[r][k].attempt + 1 \in Nat
    BY DEF TaskInv, TaskTypeOK, Run
  <1>2. row \in Run /\ row.state = "running"
    <2>1. row \in Run
      BY <1>1, ClaimedRow, BoundsAreNatural
    <2> QED BY <1>1, <2>1 DEF Run
  <1>3. claim \in Claims /\ claim # NoClaim
    <2>1. claim \in Claims
      BY <1>1 DEF Claims
    <2> QED BY <2>1, ConstantsDistinct
  <1>4. /\ Put(r, k, row) /\ run[r][k].state \in Waiting
        /\ held' = [held EXCEPT ![c] = claim]
    BY DEF Claim
  <1> HIDE DEF row, claim
  <1>5. /\ run'[r][k] = row
        /\ \A s \in Root, j \in Retry :
              s # r \/ j # k => run'[s][j] = run[s][j]
    BY <1>2, <1>4, PutRow DEF TaskInv, TaskTypeOK
  <1>6. run[r][k].state # "absent"
    BY <1>4 DEF Waiting
  <1>7. \A s \in Root, j \in Retry : Latest(s, j)' <=> Latest(s, j)
    BY <1>2, <1>5, <1>6, LatestStays
  <1>8. held'[c] = claim /\ \A d \in Consumer : d # c => held'[d] = held[d]
    BY <1>4 DEF TaskInv, TaskTypeOK
  <1> QED BY <1>2, <1>3, <1>4, <1>5, <1>7, <1>8

\* A claim changes nothing a message needs: a waiting run is the run of unsent
\* or finished mail only.
LEMMA ClaimHolds ==
    ASSUME DeliveryInv, NEW c \in Consumer, NEW r \in Root, NEW k \in Retry,
           ClaimMail(c, r, k)
    PROVE  DeliveryInv'
  <1>1. /\ job \in [Consumer -> Job] /\ Claim(c, r, k) /\ Goto(c, "claimed")
        /\ deferrals' \in [Root -> [Retry -> Nat]]
        /\ UNCHANGED <<msg, occurrence, wire, environment, history>>
    BY DEF DeliveryInv, DeliveryTypeOK, ClaimMail
  <1>2. /\ run[r][k].state \in Waiting
        /\ run'[r][k].state = "running"
        /\ \A s \in Root, j \in Retry :
              s # r \/ j # k => run'[s][j] = run[s][j]
        /\ \A s \in Root, j \in Retry : Latest(s, j)' <=> Latest(s, j)
        /\ held'[c] # NoClaim
        /\ \A d \in Consumer : d # c => held'[d] = held[d]
    BY <1>1, ClaimMoves DEF DeliveryInv
  <1>3. MailTaskStep
    BY <1>1, ConsumerSide DEF DeliveryInv
  <1>4. /\ job' \in [Consumer -> Job] /\ job'[c].pc = "claimed"
        /\ \A d \in Consumer : d # c => job'[d] = job[d]
    BY <1>1, GotoJob DEF Pc
  <1>5. ASSUME NEW s \in Root, NEW j \in Retry, Latest(s, j)'
        PROVE  Strand(msg'[s], j, run'[s][j])
    <2>1. Strand(msg[s], j, run[s][j]) /\ msg' = msg
      BY <1>1, <1>2, <1>5 DEF DeliveryInv, RunsFollow
    <2>2. CASE s = r /\ j = k
      BY <1>2, <2>1, <2>2 DEF Strand, Waiting
    <2> QED BY <1>2, <2>1, <2>2
  <1>6. ASSUME NEW d \in Consumer PROVE JobKept(d) \/ JobLeft(d)
    <2>1. CASE d = c
      BY <1>2, <1>4, <2>1 DEF JobLeft
    <2>2. CASE d # c
      BY <1>1, <1>2, <1>4, <2>2, OthersKept DEF DeliveryInv, history
    <2> QED BY <2>1, <2>2
  <1> QED BY <1>1, <1>3, <1>4, <1>5, <1>6, QuietHolds DEF RunsFollow

\* A consumer that dies or gives up leaves every row as it was.
LEMMA LetGoHolds ==
    ASSUME DeliveryInv, NEW c \in Consumer, LetGoMail(c)
    PROVE  DeliveryInv'
  <1>1. /\ job \in [Consumer -> Job] /\ LetGo(c) /\ Leave(c)
        /\ deferrals' \in [Root -> [Retry -> Nat]]
        /\ UNCHANGED <<msg, occurrence, wire, environment, history>>
    BY DEF DeliveryInv, DeliveryTypeOK, LetGoMail
  <1>2. run' = run /\ \A d \in Consumer : d # c => held'[d] = held[d]
    BY <1>1 DEF LetGo, DeliveryInv, TaskInv, TaskTypeOK
  <1>3. MailTaskStep
    BY <1>1, ConsumerSide DEF DeliveryInv
  <1>4. /\ job' \in [Consumer -> Job] /\ job'[c].pc = "idle"
        /\ \A d \in Consumer : d # c => job'[d] = job[d]
    BY <1>1, LeaveJob
  <1>5. RunsFollow'
    BY <1>1, <1>2 DEF DeliveryInv, RunsFollow, Latest
  <1>6. ASSUME NEW d \in Consumer PROVE JobKept(d) \/ JobLeft(d)
    <2>1. CASE d = c
      BY <1>4, <2>1 DEF JobLeft
    <2>2. CASE d # c
      BY <1>1, <1>2, <1>4, <2>2, OthersKept DEF DeliveryInv, history
    <2> QED BY <2>1, <2>2
  <1> QED BY <1>1, <1>3, <1>4, <1>5, <1>6, QuietHolds

\* What an explicit retry does to the rows: the failed latest run stays, and
\* the run it appends, queued, is the latest now.
LEMMA RetryAppends ==
    ASSUME TaskInv, NEW r \in Root, NEW k \in Retry, NEW command \in Command,
           RetryFailed(r, k, command)
    PROVE  /\ held' = held
           /\ Latest(r, k) /\ run[r][k].state = "failed"
           /\ \A s \in Root, j \in Retry : Latest(s, j)' =>
                 \/ s # r /\ Latest(s, j) /\ run'[s][j] = run[s][j]
                 \/ s = r /\ run'[s][j].state = "queued"
  <1> USE RetryIsNat
  <1> DEFINE row == NewRun(0, command)
  <1>1. row \in Run /\ row.state = "queued"
    BY PhasesKnown DEF NewRun, Run, States, Waiting
  <1>2. k + 1 \in Retry
    BY BoundsAreNatural DEF RetryFailed, Retry
  <1>3. /\ Put(r, k + 1, row) /\ held' = held
        /\ Latest(r, k) /\ run[r][k].state = "failed"
    BY DEF RetryFailed
  <1> HIDE DEF row
  <1>4. /\ run'[r][k + 1] = row
        /\ \A s \in Root, j \in Retry :
              s # r \/ j # k + 1 => run'[s][j] = run[s][j]
    BY <1>1, <1>2, <1>3, PutRow DEF TaskInv, TaskTypeOK
  <1>5. ASSUME NEW s \in Root, NEW j \in Retry, Latest(s, j)'
        PROVE  \/ s # r /\ Latest(s, j) /\ run'[s][j] = run[s][j]
               \/ s = r /\ run'[s][j].state = "queued"
    <2>1. CASE s # r
      BY <1>4, <1>5, <2>1 DEF Latest
    <2>2. CASE s = r
      <3>1. run'[r][k + 1].state # "absent"
        BY <1>1, <1>4
      <3>2. k + 1 <= j
        BY <1>2, <1>5, <2>2, <3>1 DEF Latest
      <3>3. j # k + 1 => run[r][j].state # "absent"
        BY <1>4, <1>5, <2>2 DEF Latest
      <3>4. j # k + 1 => j <= k
        BY <1>3, <3>3 DEF Latest
      <3>5. j = k + 1
        BY <3>2, <3>4
      <3> QED BY <1>1, <1>4, <2>2, <3>5
    <2> QED BY <2>1, <2>2
  <1> QED BY <1>3, <1>5

\* The Administrator's retry of unsent mail whose task failed.
LEMMA RetryUnsentHolds ==
    ASSUME DeliveryInv, NEW r \in Root, NEW k \in Retry, NEW command \in Command,
           RetryUnsent(r, k, command)
    PROVE  DeliveryInv'
  <1>1. /\ UNCHANGED <<msg, occurrence, wire, environment, history>>
        /\ job' = job /\ deferrals' = deferrals
        /\ RetryFailed(r, k, command) /\ msg[r].state \in Unsent
    BY DEF RetryUnsent, mailVars
  <1>2. /\ held' = held
        /\ \A s \in Root, j \in Retry : Latest(s, j)' =>
                 \/ s # r /\ Latest(s, j) /\ run'[s][j] = run[s][j]
                 \/ s = r /\ run'[s][j].state = "queued"
    BY <1>1, RetryAppends DEF DeliveryInv
  <1>3. RunsFollow'
    <2> SUFFICES ASSUME NEW s \in Root, NEW j \in Retry, Latest(s, j)'
                 PROVE  Strand(msg'[s], j, run'[s][j])
      BY DEF RunsFollow
    <2>1. CASE s # r /\ Latest(s, j) /\ run'[s][j] = run[s][j]
      BY <1>1, <2>1 DEF DeliveryInv, RunsFollow
    <2>2. CASE s = r /\ run'[s][j].state = "queued"
      BY <1>1, <2>2 DEF Strand, Unsent
    <2> QED BY <1>2, <2>1, <2>2
  <1>4. MailTaskStep
    BY <1>1, ServiceSide
  <1>5. \A d \in Consumer : JobKept(d)
    BY <1>1, <1>2, OthersKept DEF DeliveryInv, history
  <1>6. deferrals' \in [Root -> [Retry -> Nat]] /\ job' \in [Consumer -> Job]
    BY <1>1 DEF DeliveryInv, DeliveryTypeOK
  <1> QED BY <1>1, <1>3, <1>4, <1>5, <1>6, QuietHolds

-----------------------------------------------------------------------------
(* Steps that change messages, away from the provider.                     *)

\* Message r is well formed after the step, no attempt of it was started, and
\* its ledger stands.
RowKept(r) ==
    /\ msg'[r] \in Message
    /\ occurrence'[r] \in Occurrence
    /\ MailOK(msg'[r], occurrence'[r], paused')
    /\ msg'[r].state \in Uncertain => msg[r].state \in Uncertain
    /\ msg'[r].state = "submitting" =>
          msg[r].state = "submitting" /\ msg'[r].worker = msg[r].worker
    /\ LedgerKept(r)

\* A step that keeps every message in this sense keeps the invariant.
LEMMA RowsHold ==
    ASSUME DeliveryInv, MailTaskStep, RunsFollow',
           wire' = wire, ruledOut' = ruledOut,
           \A r \in Root : RowKept(r),
           msg' = [r \in Root |-> msg'[r]],
           occurrence' = [r \in Root |-> occurrence'[r]],
           paused' \in BOOLEAN, campaign' \in {"open", "closed", "replaced"},
           withdrawn' \in SUBSET Root,
           answered' \in [Root -> SUBSET Attempt],
           deferrals' \in [Root -> [Retry -> Nat]],
           job' \in [Consumer -> Job],
           \A d \in Consumer : JobKept(d) \/ JobLeft(d)
    PROVE  DeliveryInv'
  <1>1. msg' \in [Root -> Message]
    BY DEF RowKept
  <1>2. occurrence' \in [Root -> Occurrence]
    BY DEF RowKept
  <1>3. DeliveryTypeOK'
    BY <1>1, <1>2 DEF DeliveryInv, DeliveryTypeOK
  <1>4. NoSubmission /\ \A r \in Root : LedgerKept(r)
    BY DEF RowKept, NoSubmission, LedgerKept
  <1>5. \A r \in Root : MailOK(msg'[r], occurrence'[r], paused')
    BY DEF RowKept
  <1> QED BY <1>3, <1>4, <1>5, FrameHolds

\* A message that the step does not concern.
LEMMA SameRowKept ==
    ASSUME DeliveryInv, NEW r \in Root,
           msg'[r] = msg[r], occurrence'[r] = occurrence[r], paused' = paused,
           wire' = wire, ruledOut' = ruledOut, answered[r] \subseteq answered'[r]
    PROVE  RowKept(r)
  BY DEF DeliveryInv, DeliveryTypeOK, RowKept, LedgerKept

\* cancel_unsent on one unsent message.
LEMMA CancelledOK ==
    ASSUME NEW m \in Message, NEW o, NEW p, MailOK(m, o, p), m.state \in Unsent
    PROVE  /\ o = "pending"
           /\ Cancelled(m) \in Message
           /\ Cancelled(m).state = "cancelled"
           /\ Cancelled(m).attempt = m.attempt
           /\ \A q : MailOK(Cancelled(m), "skipped", q)
  <1>1. /\ Cancelled(m) \in Message
        /\ Cancelled(m).state = "cancelled"
        /\ Cancelled(m).attempt = m.attempt
        /\ Cancelled(m).hold = FALSE
    BY DEF Cancelled, Message, Settled
  <1> QED BY <1>1 DEF MailOK, Unsent, Uncertain

\* A cancelled message is kept: its ledger was already closed.
LEMMA CancelKept ==
    ASSUME DeliveryInv, NEW r \in Root, msg[r].state \in Unsent,
           msg'[r] = Cancelled(msg[r]), occurrence'[r] = "skipped",
           wire' = wire, ruledOut' = ruledOut, answered' = answered
    PROVE  RowKept(r) /\ msg'[r].state = "cancelled"
  <1>1. msg[r] \in Message /\ MailOK(msg[r], occurrence[r], paused)
    BY DEF DeliveryInv, DeliveryTypeOK
  <1>2. /\ msg'[r] \in Message /\ msg'[r].state = "cancelled"
        /\ msg'[r].attempt = msg[r].attempt
        /\ MailOK(msg'[r], "skipped", paused')
    BY <1>1, CancelledOK
  <1> QED BY <1>2 DEF RowKept, LedgerKept, Occurrence, Uncertain, Unsent

\* Where the rows stand still, the latest runs are judged as before.
LEMMA SameRunsFollow ==
    ASSUME RunsFollow, UNCHANGED run,
           \A s \in Root, k \in Retry :
              Latest(s, k) /\ Strand(msg[s], k, run[s][k])
                 => Strand(msg'[s], k, run[s][k])
    PROVE  RunsFollow'
  BY DEF RunsFollow, Latest

\* begin_submission where nothing is sent.
LEMMA NoSendHolds ==
    ASSUME DeliveryInv, NEW c \in Consumer,
           NoSend(c) \/ \E gone \in SUBSET Root : NotSelected(c, gone)
    PROVE  DeliveryInv'
  <1>1. /\ job \in [Consumer -> Job] /\ Goto(c, "finishing") /\ Owns(c)
        /\ UNCHANGED <<taskVars, deferrals, wire, environment, history>>
    BY DEF DeliveryInv, DeliveryTypeOK, NoSend, NotSelected
  <1>2. /\ run' = run /\ held' = held /\ wire' = wire /\ ruledOut' = ruledOut
        /\ answered' = answered /\ paused' = paused /\ campaign' = campaign
        /\ withdrawn' = withdrawn /\ deferrals' = deferrals
    BY <1>1 DEF taskVars, environment, history
  <1>3. MailTaskStep
    BY <1>1 DEF MailTaskStep
  <1>4. /\ job' \in [Consumer -> Job] /\ job'[c].pc = "finishing"
        /\ \A d \in Consumer : d # c => job'[d] = job[d]
    BY <1>1, GotoJob DEF Pc
  <1>5. ASSUME NEW d \in Consumer PROVE JobKept(d) \/ JobLeft(d)
    <2>1. CASE d = c
      BY <1>1, <1>2, <1>4, <2>1 DEF JobLeft, Owns
    <2>2. CASE d # c
      BY <1>2, <1>4, <2>2, OthersKept DEF DeliveryInv
    <2> QED BY <2>1, <2>2
  <1>6. held[c].root \in Root
    BY <1>1, OwnerRow DEF DeliveryInv
  <1>7. DEFINE r == held[c].root
  <1>8. /\ paused \in BOOLEAN /\ campaign \in {"open", "closed", "replaced"}
        /\ withdrawn \in SUBSET Root /\ answered \in [Root -> SUBSET Attempt]
        /\ deferrals \in [Root -> [Retry -> Nat]]
        /\ msg \in [Root -> Message] /\ occurrence \in [Root -> Occurrence]
    BY DEF DeliveryInv, DeliveryTypeOK
  <1>9. ASSUME /\ \A s \in Root : RowKept(s)
               /\ \A s \in Root : \/ msg'[s].state = msg[s].state
                                    /\ msg'[s].retry = msg[s].retry
                                    /\ msg'[s].fence = msg[s].fence
                                  \/ msg'[s].state = "cancelled"
               /\ msg' = [s \in Root |-> msg'[s]]
               /\ occurrence' = [s \in Root |-> occurrence'[s]]
        PROVE  DeliveryInv'
    <2>1. RunsFollow'
      BY <1>2, <1>9, SameRunsFollow DEF DeliveryInv, Strand, Unsent
    <2> QED BY <1>2, <1>3, <1>4, <1>5, <1>8, <1>9, <2>1, RowsHold
  <1>10. CASE UNCHANGED <<msg, occurrence>>
    BY <1>2, <1>8, <1>9, <1>10, SameRowKept
  <1>11. ASSUME NEW gone \in SUBSET Root, CancelMail(gone),
                \A s \in gone : msg[s].state \in Unsent
         PROVE  DeliveryInv'
    <2>1. ASSUME NEW s \in Root
          PROVE  /\ RowKept(s)
                 /\ msg'[s] = msg[s] \/ msg'[s].state = "cancelled"
      <3>1. CASE s \in gone
        <4>1. msg'[s] = Cancelled(msg[s])
          BY <1>11, <3>1 DEF CancelMail
        <4>2. occurrence[s] = "pending"
          BY <1>11, <3>1 DEF DeliveryInv, MailOK
        <4>3. occurrence'[s] = "skipped"
          BY <1>11, <3>1, <4>2 DEF CancelMail
        <4> QED BY <1>2, <1>11, <3>1, <4>1, <4>3, CancelKept
      <3>2. CASE s \notin gone
        <4>1. msg'[s] = msg[s] /\ occurrence'[s] = occurrence[s]
          BY <1>11, <3>2 DEF CancelMail
        <4> QED BY <1>2, <4>1, SameRowKept
      <3> QED BY <3>1, <3>2
    <2>2. /\ msg' = [s \in Root |-> msg'[s]]
          /\ occurrence' = [s \in Root |-> occurrence'[s]]
      BY <1>11 DEF CancelMail
    <2> QED BY <1>9, <2>1, <2>2
  <1>12. CASE /\ Disposition(r) = "delivery_paused"
              /\ Mail(c).state \in Unsent
              /\ PutMail(r, [Mail(c) EXCEPT !.hold = TRUE])
              /\ UNCHANGED occurrence
    <2> DEFINE m == [msg[r] EXCEPT !.hold = TRUE]
    <2>1. paused = TRUE
      BY <1>8, <1>12 DEF Disposition
    <2>2. /\ m \in Message /\ m.state = msg[r].state /\ m.hold = TRUE
          /\ m.attempt = msg[r].attempt /\ m.retry = msg[r].retry
          /\ m.fence = msg[r].fence /\ m.worker = msg[r].worker
      BY <1>6, <1>8 DEF Message
    <2>3. msg' = [msg EXCEPT ![r] = m] /\ msg[r].state \in Unsent
      BY <1>12 DEF PutMail, Mail
    <2> HIDE DEF m, r
    <2>4. /\ msg'[r] = m
          /\ \A s \in Root : s # r => msg'[s] = msg[s]
          /\ msg' = [s \in Root |-> msg'[s]]
      BY <1>6, <1>8, <2>2, <2>3 DEF r
    <2>5. RowKept(r)
      <3>1. MailOK(msg[r], occurrence[r], paused)
        BY <1>6 DEF DeliveryInv, r
      <3>2. MailOK(m, occurrence[r], paused)
        BY <2>1, <2>2, <2>3, <3>1 DEF MailOK
      <3>3. LedgerKept(r)
        BY <1>2, <2>2, <2>3, <2>4 DEF LedgerKept, Unsent
      <3>4. occurrence[r] \in Occurrence /\ occurrence'[r] = occurrence[r]
        BY <1>6, <1>8, <1>12 DEF r
      <3> QED BY <1>2, <2>2, <2>4, <3>2, <3>3, <3>4 DEF RowKept
    <2>6. ASSUME NEW s \in Root
          PROVE  /\ RowKept(s)
                 /\ msg'[s].state = msg[s].state
                 /\ msg'[s].retry = msg[s].retry
                 /\ msg'[s].fence = msg[s].fence
      <3>1. CASE s = r
        BY <2>2, <2>4, <2>5, <3>1
      <3>2. CASE s # r
        BY <1>2, <1>12, <2>4, <3>2, SameRowKept
      <3> QED BY <3>1, <3>2
    <2>7. occurrence' = [s \in Root |-> occurrence'[s]]
      BY <1>8, <1>12
    <2> QED BY <1>9, <2>4, <2>6, <2>7
  <1>13. CASE NoSend(c)
    <2>1. Mail(c).state \in Unsent
      BY <1>13 DEF NoSend
    <2>2. CASE Disposition(r) = "delivery_paused"
               /\ PutMail(r, [Mail(c) EXCEPT !.hold = TRUE])
               /\ UNCHANGED occurrence
      BY <1>12, <2>1, <2>2
    <2>3. CASE CancelMail({r})
      BY <1>6, <1>11, <2>1, <2>3 DEF Mail
    <2> QED BY <1>10, <1>13, <2>2, <2>3 DEF NoSend
  <1>14. ASSUME NEW gone \in SUBSET Root, NotSelected(c, gone)
         PROVE  DeliveryInv'
    BY <1>11, <1>14 DEF NotSelected, Pending
  <1> QED BY <1>13, <1>14

\* One message and its occurrence are replaced.
LEMMA OneRow ==
    ASSUME msg \in [Root -> Message], occurrence \in [Root -> Occurrence],
           NEW r \in Root, NEW m \in Message, NEW o \in Occurrence,
           PutMail(r, m), PutOccurrence(r, o)
    PROVE  /\ msg'[r] = m /\ occurrence'[r] = o
           /\ \A s \in Root : s # r => msg'[s] = msg[s]
                                    /\ occurrence'[s] = occurrence[s]
           /\ msg' = [s \in Root |-> msg'[s]]
           /\ occurrence' = [s \in Root |-> occurrence'[s]]
  BY DEF PutMail, PutOccurrence

\* A step that replaces one message, outside the provider call, keeps the
\* invariant when the message's own row and runs do.
LEMMA OneRowHolds ==
    ASSUME DeliveryInv, MailTaskStep, RunsFollow',
           NEW r \in Root, NEW m \in Message, NEW o \in Occurrence,
           PutMail(r, m), PutOccurrence(r, o), RowKept(r),
           job' = job, held' = held, wire' = wire, ruledOut' = ruledOut,
           paused' = paused, campaign' = campaign,
           withdrawn' \in SUBSET Root,
           answered' \in [Root -> SUBSET Attempt],
           \A s \in Root : answered[s] \subseteq answered'[s],
           deferrals' \in [Root -> [Retry -> Nat]]
    PROVE  DeliveryInv'
  <1>1. /\ msg \in [Root -> Message] /\ occurrence \in [Root -> Occurrence]
        /\ job \in [Consumer -> Job] /\ paused \in BOOLEAN
        /\ campaign \in {"open", "closed", "replaced"}
    BY DEF DeliveryInv, DeliveryTypeOK
  <1>2. /\ \A s \in Root : s # r => msg'[s] = msg[s]
                                  /\ occurrence'[s] = occurrence[s]
        /\ msg' = [s \in Root |-> msg'[s]]
        /\ occurrence' = [s \in Root |-> occurrence'[s]]
    BY <1>1, OneRow
  <1>3. \A s \in Root : s # r => RowKept(s)
    BY <1>2, SameRowKept
  <1>4. \A s \in Root : RowKept(s)
    BY <1>3
  <1>5. \A d \in Consumer : JobKept(d)
    BY OthersKept DEF DeliveryInv
  <1> QED BY <1>1, <1>2, <1>4, <1>5, RowsHold

\* An uncertain attempt is a number the ledger can hold.
LEMMA UncertainAttempt ==
    ASSUME DeliveryInv, NEW r \in Root, msg[r].state \in Uncertain
    PROVE  msg[r].attempt \in Attempt
  <1>1. msg[r].attempt \in Nat /\ MaxSend \in Nat
    BY DeliveryBounds DEF DeliveryInv, DeliveryTypeOK, Message
  <1>2. msg[r].attempt <= MaxSend /\ msg[r].attempt > 0
    BY DEF DeliveryInv, MailOK
  <1> QED BY <1>1, <1>2 DEF Attempt

\* The Administrator's answer is added to the ledger.
LEMMA AnswerTyped ==
    ASSUME DeliveryInv, NEW r \in Root, msg[r].state \in Uncertain, Answered(r)
    PROVE  /\ answered' \in [Root -> SUBSET Attempt]
           /\ \A s \in Root : answered[s] \subseteq answered'[s]
           /\ msg[r].attempt \in answered'[r]
  <1>1. answered \in [Root -> SUBSET Attempt] /\ msg[r].attempt \in Attempt
    BY UncertainAttempt DEF DeliveryInv, DeliveryTypeOK
  <1> QED BY <1>1 DEF Answered

\* accept and confirm-unsent resolutions of an unknown delivery.
LEMMA ResolveHolds ==
    ASSUME DeliveryInv, NEW r \in Root, NEW k \in Retry,
           AcceptUnknown(r, k) \/ ConfirmUnsent(r, k)
    PROVE  DeliveryInv'
  <1>1. PICK state \in {"delivered", "permanent_failure"} :
           /\ PutMail(r, [msg[r] EXCEPT !.state = state])
           /\ PutOccurrence(r, OccurrenceOf(state))
    BY DEF AcceptUnknown, ConfirmUnsent, OccurrenceOf
  <1>2. /\ msg[r].state = "delivery_unknown" /\ Answered(r)
        /\ UNCHANGED <<taskVars, deferrals, job, wire, environment, ruledOut>>
    BY DEF AcceptUnknown, ConfirmUnsent
  <1>3. /\ run' = run /\ held' = held /\ wire' = wire /\ ruledOut' = ruledOut
        /\ paused' = paused /\ campaign' = campaign /\ job' = job
        /\ withdrawn' = withdrawn /\ deferrals' = deferrals
    BY <1>2 DEF taskVars, environment
  <1>4. /\ answered' \in [Root -> SUBSET Attempt]
        /\ \A s \in Root : answered[s] \subseteq answered'[s]
        /\ msg[r].attempt \in answered'[r]
    BY <1>2, AnswerTyped DEF Uncertain
  <1> DEFINE m == [msg[r] EXCEPT !.state = state]
             o == OccurrenceOf(state)
  <1>5. /\ msg \in [Root -> Message] /\ occurrence \in [Root -> Occurrence]
        /\ msg[r] \in Message
    BY DEF DeliveryInv, DeliveryTypeOK
  <1>6. /\ m \in Message /\ m.state = state /\ m.attempt = msg[r].attempt
        /\ m.retry = msg[r].retry /\ m.hold = msg[r].hold
    BY <1>5 DEF Message, Settled
  <1>7. /\ o \in Occurrence
        /\ state = "delivered" => o = "succeeded"
        /\ state = "permanent_failure" => o = "failed"
    BY DEF OccurrenceOf, Occurrence
  <1> HIDE DEF m, o
  <1>8. msg'[r] = m /\ occurrence'[r] = o
        /\ \A s \in Root : s # r => msg'[s] = msg[s]
    BY <1>1, <1>5, <1>6, <1>7, OneRow DEF m, o
  <1>9. RowKept(r)
    <2>1. MailOK(msg[r], occurrence[r], paused)
      BY DEF DeliveryInv
    <2>2. MailOK(m, o, paused)
      BY <1>2, <1>6, <1>7, <2>1 DEF MailOK, Unsent, Uncertain
    <2>3. LedgerKept(r)
      BY <1>3, <1>4, <1>6, <1>8 DEF LedgerKept
    <2> QED BY <1>3, <1>6, <1>7, <1>8, <2>2, <2>3 DEF RowKept, Uncertain
  <1>10. RunsFollow'
    <2>1. ASSUME NEW s \in Root, NEW j \in Retry, Strand(msg[s], j, run[s][j])
          PROVE  Strand(msg'[s], j, run[s][j])
      <3>1. CASE s # r
        BY <1>8, <2>1, <3>1
      <3>2. CASE s = r
        BY <1>2, <1>6, <1>8, <2>1, <3>2 DEF Strand, Unsent
      <3> QED BY <3>1, <3>2
    <2> QED BY <1>3, <2>1, SameRunsFollow DEF DeliveryInv
  <1>11. MailTaskStep
    BY <1>2 DEF MailTaskStep
  <1>12. withdrawn' \in SUBSET Root /\ deferrals' \in [Root -> [Retry -> Nat]]
    BY <1>3 DEF DeliveryInv, DeliveryTypeOK
  <1> QED BY <1>1, <1>3, <1>4, <1>6, <1>7, <1>9, <1>10, <1>11, <1>12, OneRowHolds
          DEF m, o

\* aa_delivery_new_hold: a message returned to unsent is well formed, and held
\* during a pause.
LEMMA RequeuedOK ==
    ASSUME NEW m \in Message, NEW o, NEW p, MailOK(m, o, p), paused \in BOOLEAN,
           NEW state \in Unsent
    PROVE  /\ Requeued(m, state) \in Message
           /\ Requeued(m, state).state = state
           /\ Requeued(m, state).attempt = m.attempt
           /\ MailOK(Requeued(m, state), "pending", paused)
  <1>1. /\ Requeued(m, state) \in Message
        /\ Requeued(m, state).state = state
        /\ Requeued(m, state).attempt = m.attempt
        /\ Requeued(m, state).hold = paused
    BY DEF Requeued, Message
  <1> QED BY <1>1 DEF MailOK, Unsent, Uncertain

\* A message returns to unsent while its chain gets a new, queued latest run:
\* preparation, a resend, or the retry of a definitive failure.
LEMMA QueueHolds ==
    ASSUME DeliveryInv, NEW r \in Root, MailTaskStep,
           PutMail(r, Requeued(msg[r], "pending")), PutOccurrence(r, "pending"),
           \/ msg[r].state \in {"none", "permanent_failure"}
           \/ msg[r].attempt \in answered'[r],
           answered' \in [Root -> SUBSET Attempt],
           \A s \in Root : answered[s] \subseteq answered'[s],
           UNCHANGED <<deferrals, job, wire, environment, ruledOut>>,
           held' = held,
           \A s \in Root, j \in Retry : Latest(s, j)' =>
              \/ s # r /\ Latest(s, j) /\ run'[s][j] = run[s][j]
              \/ s = r /\ run'[s][j].state = "queued"
    PROVE  DeliveryInv'
  <1> DEFINE m == Requeued(msg[r], "pending")
  <1>1. /\ msg \in [Root -> Message] /\ occurrence \in [Root -> Occurrence]
        /\ msg[r] \in Message /\ paused \in BOOLEAN
        /\ MailOK(msg[r], occurrence[r], paused)
        /\ withdrawn \in SUBSET Root /\ deferrals \in [Root -> [Retry -> Nat]]
    BY DEF DeliveryInv, DeliveryTypeOK
  <1>2. "pending" \in Unsent /\ "pending" \in Occurrence
    BY DEF Unsent, Occurrence
  <1>3. /\ m \in Message /\ m.state = "pending" /\ m.attempt = msg[r].attempt
        /\ MailOK(m, "pending", paused)
    BY <1>1, <1>2, RequeuedOK
  <1> HIDE DEF m
  <1>4. /\ msg'[r] = m /\ occurrence'[r] = "pending"
        /\ \A s \in Root : s # r => msg'[s] = msg[s]
    BY <1>1, <1>2, <1>3, OneRow DEF m
  <1>5. /\ wire' = wire /\ ruledOut' = ruledOut /\ paused' = paused
        /\ campaign' = campaign /\ job' = job /\ withdrawn' = withdrawn
        /\ deferrals' = deferrals
    BY DEF environment
  <1>6. RowKept(r)
    <2>1. msg[r].state = "none" => msg[r].attempt = 0
      BY <1>1 DEF MailOK
    <2>2. LedgerKept(r)
      BY <1>3, <1>4, <1>5, <2>1 DEF LedgerKept
    <2> QED BY <1>2, <1>3, <1>4, <1>5, <2>2 DEF RowKept, Uncertain
  <1>7. RunsFollow'
    <2> SUFFICES ASSUME NEW s \in Root, NEW j \in Retry, Latest(s, j)'
                 PROVE  Strand(msg'[s], j, run'[s][j])
      BY DEF RunsFollow
    <2>1. CASE s # r /\ Latest(s, j) /\ run'[s][j] = run[s][j]
      BY <1>4, <2>1 DEF DeliveryInv, RunsFollow
    <2>2. CASE s = r /\ run'[s][j].state = "queued"
      BY <1>3, <1>4, <2>2 DEF Strand
    <2> QED BY <2>1, <2>2
  <1> QED BY <1>1, <1>2, <1>3, <1>5, <1>6, <1>7, OneRowHolds DEF m

\* The Administrator's resend and the retry of a definitive failure.
LEMMA ResendHolds ==
    ASSUME DeliveryInv, NEW r \in Root, NEW k \in Retry, NEW command \in Command,
           Resend(r, k, command) \/ RetryFailedMail(r, k, command)
    PROVE  DeliveryInv'
  <1>1. /\ RetryFailed(r, k, command)
        /\ PutMail(r, Requeued(msg[r], "pending")) /\ PutOccurrence(r, "pending")
        /\ UNCHANGED <<deferrals, job, wire, environment, ruledOut>>
    BY DEF Resend, RetryFailedMail, history
  <1>2. /\ held' = held
        /\ \A s \in Root, j \in Retry : Latest(s, j)' =>
                 \/ s # r /\ Latest(s, j) /\ run'[s][j] = run[s][j]
                 \/ s = r /\ run'[s][j].state = "queued"
    BY <1>1, RetryAppends DEF DeliveryInv
  <1>3. MailTaskStep
    BY <1>1, ServiceSide
  <1>4. /\ \/ msg[r].state \in {"none", "permanent_failure"}
           \/ msg[r].attempt \in answered'[r]
        /\ answered' \in [Root -> SUBSET Attempt]
        /\ \A s \in Root : answered[s] \subseteq answered'[s]
    <2>1. CASE Resend(r, k, command)
      BY <2>1, AnswerTyped DEF Resend, Uncertain
    <2>2. CASE RetryFailedMail(r, k, command)
      <3>1. answered' = answered /\ msg[r].state = "permanent_failure"
        BY <2>2 DEF RetryFailedMail, history
      <3> QED BY <3>1 DEF DeliveryInv, DeliveryTypeOK
    <2> QED BY <2>1, <2>2
  <1> QED BY <1>1, <1>2, <1>3, <1>4, QueueHolds

\* Preparation writes a message, its occurrence and its task together.
LEMMA CreateHolds ==
    ASSUME DeliveryInv, NEW r \in Root, NEW wait \in 0..WaitTicks,
           Create(r, wait)
    PROVE  DeliveryInv'
  <1> USE RetryIsNat
  <1> DEFINE row == NewRun(wait, NoCommand)
  <1>1. /\ PutMail(r, Requeued(msg[r], "pending")) /\ PutOccurrence(r, "pending")
        /\ UNCHANGED <<deferrals, job, wire, environment, ruledOut>>
        /\ answered' = answered /\ msg[r].state = "none"
        /\ Put(r, 0, row) /\ held' = held /\ run[r][0].state = "absent"
        /\ Enqueue(r, wait)
    BY DEF Create, Enqueue, history
  <1>2. wait \in Nat
    BY BoundsAreNatural
  <1>3. row \in Run /\ row.state = "queued"
    BY <1>2, PhasesKnown DEF NewRun, Run, States, Waiting
  <1> HIDE DEF row
  <1>4. /\ run'[r][0] = row
        /\ \A s \in Root, j \in Retry :
              s # r \/ j # 0 => run'[s][j] = run[s][j]
    BY <1>1, <1>3, PutRow DEF DeliveryInv, TaskInv, TaskTypeOK
  <1>5. \A j \in Retry : j # 0 => run[r][j].state = "absent"
    <2>1. \A j \in Retry : 0 < j /\ run[r][j].state # "absent"
                              => run[r][0].state = "failed"
      BY DEF DeliveryInv, TaskInv, OnlyLatestLives
    <2>2. \A j \in Retry : j # 0 => 0 < j
      OBVIOUS
    <2> QED BY <1>1, <2>1, <2>2
  <1>6. ASSUME NEW s \in Root, NEW j \in Retry, Latest(s, j)'
        PROVE  \/ s # r /\ Latest(s, j) /\ run'[s][j] = run[s][j]
               \/ s = r /\ run'[s][j].state = "queued"
    <2>1. CASE s # r
      BY <1>4, <1>6, <2>1 DEF Latest
    <2>2. CASE s = r
      BY <1>3, <1>4, <1>5, <1>6, <2>2 DEF Latest
    <2> QED BY <2>1, <2>2
  <1>7. MailTaskStep
    BY <1>1, ServiceSide
  <1>8. answered' \in [Root -> SUBSET Attempt]
    BY <1>1 DEF DeliveryInv, DeliveryTypeOK
  <1> QED BY <1>1, <1>6, <1>7, <1>8, QueueHolds

\* What recovery does to the rows of a chain.
LEMMA RecoverMoves ==
    ASSUME TaskInv, NEW r \in Root, NEW k \in Retry, NEW plan \in Plans,
           NEW wait \in 1..WaitTicks, Recover(r, k, plan, wait)
    PROVE  /\ Latest(r, k) /\ \A j \in Retry : Latest(r, j) => j = k
           /\ run[r][k].state \in {"running", "abandoned"}
           /\ run'[r][k].state = PlanState(plan)
           /\ \A s \in Root, j \in Retry :
                 s # r \/ j # k => run'[s][j] = run[s][j]
           /\ \A s \in Root, j \in Retry : Latest(s, j)' <=> Latest(s, j)
           /\ held' = held
  <1> DEFINE fence == IF Expired(r, k) THEN run[r][k].fence + 1
                      ELSE run[r][k].fence
             delay == IF plan = "recovery_retry" THEN wait ELSE run[r][k].wait
             row == [run[r][k] EXCEPT !.state = PlanState(plan),
                                      !.fence = fence, !.wait = delay]
  <1>1. /\ run[r][k] \in Run
        /\ run[r][k].fence \in Nat /\ run[r][k].wait \in Nat /\ wait \in Nat
    BY BoundsAreNatural DEF TaskInv, TaskTypeOK, Run
  <1>2. fence \in Nat /\ delay \in Nat
    BY <1>1
  <1>3. PlanState(plan) \in States /\ PlanState(plan) # "absent"
    BY DEF Plans, PlanState, States, Terminal, Waiting
  <1>4. Put(r, k, row) /\ held' = held
        /\ run[r][k].state \in {"running", "abandoned"}
    BY DEF Recover, Expired
  <1> HIDE DEF fence, delay
  <1>5. row \in Run /\ row.state = PlanState(plan)
    BY <1>1, <1>2, <1>3 DEF Run
  <1> HIDE DEF row
  <1>6. /\ run'[r][k] = row
        /\ \A s \in Root, j \in Retry :
              s # r \/ j # k => run'[s][j] = run[s][j]
    BY <1>4, <1>5, PutRow DEF TaskInv, TaskTypeOK
  <1>7. Latest(r, k) /\ \A j \in Retry : Latest(r, j) => j = k
    BY <1>4, LiveIsLatest DEF Terminal
  <1>8. \A s \in Root, j \in Retry : Latest(s, j)' <=> Latest(s, j)
    BY <1>3, <1>4, <1>5, <1>6, LatestStays
  <1> QED BY <1>4, <1>5, <1>6, <1>7, <1>8

\* What recovery_plan decides for each state of a message.
LEMMA PlanOf ==
    ASSUME NEW r \in Root, NEW k \in Retry, msg[r] \in Message,
           msg[r].state # "none"
    PROVE  /\ RecoveryPlan(r, k) \in Plans
           /\ msg[r].state = "submitting" =>
                 PlanState(RecoveryPlan(r, k)) =
                    IF msg[r].deadline > 0 THEN "abandoned" ELSE "failed"
           /\ msg[r].state \in {"delivery_unknown", "permanent_failure"} =>
                 PlanState(RecoveryPlan(r, k)) = "failed"
           /\ msg[r].state \in Unsent =>
                 PlanState(RecoveryPlan(r, k)) \in {"failed", "retry_wait"}
  <1>1. msg[r].state \in {"submitting"} \cup Unsent \cup Settled
    BY DEF Message
  <1> QED BY <1>1 DEF RecoveryPlan, PlanState, Plans, Unsent, Settled

\* recover_delivery: a submission whose owner is gone becomes uncertain only
\* after the provider deadline; nothing else about a message changes.
LEMMA RecoverHolds ==
    ASSUME DeliveryInv, NEW r \in Root, NEW k \in Retry,
           NEW wait \in 1..WaitTicks, RecoverMail(r, k, wait)
    PROVE  DeliveryInv'
  <1> DEFINE plan == RecoveryPlan(r, k)
  <1>1. /\ msg \in [Root -> Message] /\ occurrence \in [Root -> Occurrence]
        /\ msg[r] \in Message /\ msg[r].deadline \in Nat
        /\ job \in [Consumer -> Job] /\ withdrawn \in SUBSET Root
        /\ answered \in [Root -> SUBSET Attempt]
    BY DEF DeliveryInv, DeliveryTypeOK, Message
  <1>2. /\ msg[r].state # "none" /\ Recover(r, k, plan, wait)
        /\ UNCHANGED <<job, wire, environment, history>>
    BY DEF RecoverMail
  <1>3. /\ plan \in Plans
        /\ msg[r].state = "submitting" =>
              PlanState(plan) = IF msg[r].deadline > 0 THEN "abandoned"
                                ELSE "failed"
        /\ msg[r].state \in {"delivery_unknown", "permanent_failure"} =>
              PlanState(plan) = "failed"
        /\ msg[r].state \in Unsent => PlanState(plan) \in {"failed", "retry_wait"}
    BY <1>1, <1>2, PlanOf
  <1> HIDE DEF plan
  <1>4. /\ Latest(r, k) /\ \A j \in Retry : Latest(r, j) => j = k
        /\ run[r][k].state \in {"running", "abandoned"}
        /\ run'[r][k].state = PlanState(plan)
        /\ \A s \in Root, j \in Retry :
              s # r \/ j # k => run'[s][j] = run[s][j]
        /\ \A s \in Root, j \in Retry : Latest(s, j)' <=> Latest(s, j)
        /\ held' = held
    BY <1>2, <1>3, RecoverMoves DEF DeliveryInv
  <1>5. MailTaskStep
    BY <1>2, <1>3, ServiceSide
  <1>6. /\ wire' = wire /\ ruledOut' = ruledOut /\ paused' = paused
        /\ campaign' = campaign /\ job' = job /\ withdrawn' = withdrawn
        /\ answered' = answered
    BY <1>2 DEF environment, history
  <1>7. deferrals' \in [Root -> [Retry -> Nat]]
    BY DeferralsTyped DEF DeliveryInv, DeliveryTypeOK, RecoverMail
  <1>8. Strand(msg[r], k, run[r][k])
    BY <1>4 DEF DeliveryInv, RunsFollow
  <1>9. CASE msg[r].state = "submitting" /\ msg[r].deadline = 0
    <2> DEFINE m == [msg[r] EXCEPT !.state = "delivery_unknown"]
    <2>1. PutMail(r, m) /\ PutOccurrence(r, "delivery_unknown")
      BY <1>9 DEF RecoverMail
    <2>2. /\ m \in Message /\ m.state = "delivery_unknown"
          /\ m.attempt = msg[r].attempt /\ m.retry = msg[r].retry
          /\ m.hold = msg[r].hold
      BY <1>1 DEF Message, Settled
    <2>3. "delivery_unknown" \in Occurrence
      BY DEF Occurrence
    <2> HIDE DEF m
    <2>4. /\ msg'[r] = m /\ occurrence'[r] = "delivery_unknown"
          /\ \A s \in Root : s # r => msg'[s] = msg[s]
      BY <1>1, <2>1, <2>2, <2>3, OneRow
    <2>5. RowKept(r)
      <3>1. MailOK(msg[r], occurrence[r], paused)
        BY DEF DeliveryInv
      <3>2. MailOK(m, "delivery_unknown", paused)
        BY <1>9, <2>2, <3>1 DEF MailOK, Unsent, Uncertain
      <3>3. LedgerKept(r)
        BY <1>6, <2>2, <2>4 DEF LedgerKept, Unsent
      <3> QED BY <1>6, <1>9, <2>2, <2>3, <2>4, <3>2, <3>3 DEF RowKept, Uncertain
    <2>6. Strand(m, k, run'[r][k])
      BY <1>3, <1>4, <1>8, <1>9, <2>2 DEF Strand, Unsent
    <2>7. RunsFollow'
      <3> SUFFICES ASSUME NEW s \in Root, NEW j \in Retry, Latest(s, j)'
                   PROVE  Strand(msg'[s], j, run'[s][j])
        BY DEF RunsFollow
      <3>1. CASE s = r
        BY <1>4, <2>4, <2>6, <3>1
      <3>2. CASE s # r
        BY <1>4, <2>4, <3>2 DEF DeliveryInv, RunsFollow
      <3> QED BY <3>1, <3>2
    <2> QED BY <1>1, <1>4, <1>5, <1>6, <1>7, <2>1, <2>2, <2>3, <2>5, <2>7,
               OneRowHolds
  <1>10. CASE ~(msg[r].state = "submitting" /\ msg[r].deadline = 0)
    <2>1. msg' = msg /\ occurrence' = occurrence
      BY <1>10 DEF RecoverMail
    <2>2. Strand(msg[r], k, run'[r][k])
      BY <1>1, <1>3, <1>4, <1>8, <1>10 DEF Strand
    <2>3. RunsFollow'
      <3> SUFFICES ASSUME NEW s \in Root, NEW j \in Retry, Latest(s, j)'
                   PROVE  Strand(msg'[s], j, run'[s][j])
        BY DEF RunsFollow
      <3>1. CASE s = r
        BY <1>4, <2>1, <2>2, <3>1
      <3>2. CASE s # r
        BY <1>4, <2>1, <3>2 DEF DeliveryInv, RunsFollow
      <3> QED BY <3>1, <3>2
    <2>4. \A d \in Consumer : JobKept(d)
      BY <1>4, <1>6, OthersKept DEF DeliveryInv
    <2> QED BY <1>1, <1>2, <1>5, <1>6, <1>7, <2>1, <2>3, <2>4, QuietHolds
  <1> QED BY <1>9, <1>10

-----------------------------------------------------------------------------
(* The campaign around the messages, and time.                             *)

\* The fields that the ledger and the runs look at stay.
SameMail(r) ==
    /\ msg'[r] \in Message
    /\ msg'[r].state = msg[r].state /\ msg'[r].attempt = msg[r].attempt
    /\ msg'[r].retry = msg[r].retry /\ msg'[r].fence = msg[r].fence
    /\ msg'[r].worker = msg[r].worker

\* A message of which only delays, deadlines and the hold change.
LEMMA SameMailKept ==
    ASSUME DeliveryInv, NEW r \in Root, SameMail(r),
           occurrence'[r] = occurrence[r],
           msg'[r].hold <=> paused' /\ msg[r].state \in Unsent,
           wire' = wire, ruledOut' = ruledOut, answered' = answered
    PROVE  RowKept(r)
  <1>1. MailOK(msg[r], occurrence[r], paused) /\ occurrence[r] \in Occurrence
    BY DEF DeliveryInv, DeliveryTypeOK
  <1>2. MailOK(msg'[r], occurrence'[r], paused')
    BY <1>1 DEF MailOK, SameMail
  <1>3. LedgerKept(r)
    BY DEF LedgerKept, SameMail
  <1> QED BY <1>1, <1>2, <1>3 DEF RowKept, SameMail

\* The pause commits together with the holds of every unsent message.
LEMMA PauseHolds ==
    ASSUME DeliveryInv, Pause
    PROVE  DeliveryInv'
  <1>1. /\ paused' = TRUE
        /\ UNCHANGED <<taskVars, occurrence, deferrals, job, wire, campaign,
                       withdrawn, history>>
        /\ msg' = [r \in Root |-> [msg[r] EXCEPT
                      !.hold = @ \/ msg[r].state \in Unsent]]
    BY DEF Pause
  <1>2. /\ run' = run /\ held' = held /\ ruledOut' = ruledOut
        /\ answered' = answered
    BY <1>1 DEF taskVars, history
  <1>3. /\ msg \in [Root -> Message] /\ occurrence \in [Root -> Occurrence]
        /\ job \in [Consumer -> Job] /\ withdrawn \in SUBSET Root
        /\ campaign \in {"open", "closed", "replaced"}
        /\ answered \in [Root -> SUBSET Attempt]
        /\ deferrals \in [Root -> [Retry -> Nat]]
    BY DEF DeliveryInv, DeliveryTypeOK
  <1>4. ASSUME NEW r \in Root
        PROVE  SameMail(r) /\ RowKept(r)
    <2> DEFINE hold == msg[r].hold \/ msg[r].state \in Unsent
               m == [msg[r] EXCEPT !.hold = hold]
    <2>1. msg'[r] = m /\ hold \in BOOLEAN /\ msg[r] \in Message
      BY <1>1, <1>3
    <2>2. hold <=> msg[r].state \in Unsent
      BY DEF DeliveryInv, MailOK
    <2> HIDE DEF hold
    <2>3. SameMail(r) /\ msg'[r].hold = hold
      BY <2>1 DEF SameMail, Message
    <2> QED BY <1>1, <1>2, <2>2, <2>3, SameMailKept
  <1>5. msg' = [r \in Root |-> msg'[r]]
    BY <1>1
  <1>6. RunsFollow'
    BY <1>2, <1>4, SameRunsFollow DEF DeliveryInv, Strand, SameMail
  <1>7. MailTaskStep
    BY <1>1 DEF MailTaskStep
  <1>8. \A d \in Consumer : JobKept(d)
    BY <1>1, <1>2, OthersKept DEF DeliveryInv
  <1> QED BY <1>1, <1>2, <1>3, <1>4, <1>5, <1>6, <1>7, <1>8, RowsHold

\* No message row is touched when the campaign's scope ends.
LEMMA EndScopeHolds ==
    ASSUME DeliveryInv, NEW scope \in {"closed", "replaced"}, EndScope(scope)
    PROVE  DeliveryInv'
  <1>1. /\ campaign' = scope /\ paused' = paused
        /\ UNCHANGED <<taskVars, msg, occurrence, deferrals, job, wire,
                       withdrawn, history>>
    BY DEF EndScope
  <1>2. /\ run' = run /\ held' = held /\ ruledOut' = ruledOut
        /\ answered' = answered
    BY <1>1 DEF taskVars, history
  <1>3. /\ msg \in [Root -> Message] /\ occurrence \in [Root -> Occurrence]
        /\ job \in [Consumer -> Job] /\ withdrawn \in SUBSET Root
        /\ paused \in BOOLEAN
        /\ answered \in [Root -> SUBSET Attempt]
        /\ deferrals \in [Root -> [Retry -> Nat]]
    BY DEF DeliveryInv, DeliveryTypeOK
  <1>4. \A r \in Root : RowKept(r)
    BY <1>1, <1>2, SameRowKept
  <1>5. RunsFollow'
    BY <1>1, <1>2, SameRunsFollow DEF DeliveryInv
  <1>6. MailTaskStep
    BY <1>1 DEF MailTaskStep
  <1>7. \A d \in Consumer : JobKept(d)
    BY <1>1, <1>2, OthersKept DEF DeliveryInv
  <1>8. /\ msg' = [r \in Root |-> msg'[r]]
        /\ occurrence' = [r \in Root |-> occurrence'[r]]
    BY <1>1, <1>3
  <1> QED BY <1>1, <1>2, <1>3, <1>4, <1>5, <1>6, <1>7, <1>8, RowsHold

\* What ending waiting runs does to the rows.
LEMMA CancelMoves ==
    ASSUME NEW gone \in SUBSET Root, CancelRuns(gone)
    PROVE  /\ held' = held
           /\ \A s \in Root, j \in Retry :
                 \/ run'[s][j] = run[s][j]
                 \/ s \in gone /\ run[s][j].state \in Waiting
           /\ TaskInv => \A s \in Root, j \in Retry :
                            Latest(s, j)' <=> Latest(s, j)
  <1>1. /\ held' = held
        /\ \A s \in Root, j \in Retry :
              \/ run'[s][j] = run[s][j]
              \/ /\ s \in gone /\ run[s][j].state \in Waiting
                 /\ run'[s][j] = [run[s][j] EXCEPT !.state = "cancelled"]
    BY DEF CancelRuns
  <1>2. ASSUME TaskInv
        PROVE  \A s \in Root, j \in Retry :
                  run'[s][j].state = "absent" <=> run[s][j].state = "absent"
    <2> SUFFICES ASSUME NEW s \in Root, NEW j \in Retry
                 PROVE  run'[s][j].state = "absent" <=> run[s][j].state = "absent"
      OBVIOUS
    <2>1. run[s][j] \in Run
      BY <1>2 DEF TaskInv, TaskTypeOK
    <2>2. [run[s][j] EXCEPT !.state = "cancelled"].state = "cancelled"
      BY <2>1 DEF Run
    <2> QED BY <1>1, <2>2 DEF Waiting
  <1> QED BY <1>1, <1>2, LatestStays

\* Resume waits for every uncertain delivery, lifts the holds, and ends what
\* its recovery plan coalesces or skips together with its waiting runs.
LEMMA ResumeHolds ==
    ASSUME DeliveryInv, NEW gone \in SUBSET Root, Resume(gone)
    PROVE  DeliveryInv'
  <1>1. /\ paused' = FALSE /\ CancelRuns(gone) /\ gone \subseteq Pending
        /\ UNCHANGED <<deferrals, job, wire, campaign, withdrawn, history>>
        /\ msg' = [r \in Root |-> IF r \in gone THEN Cancelled(msg[r])
                                  ELSE [msg[r] EXCEPT !.hold = FALSE]]
        /\ occurrence' = [r \in Root |-> IF r \in gone THEN "skipped"
                                         ELSE occurrence[r]]
    BY DEF Resume
  <1>2. ruledOut' = ruledOut /\ answered' = answered
    BY <1>1 DEF history
  <1>3. /\ msg \in [Root -> Message] /\ occurrence \in [Root -> Occurrence]
        /\ job \in [Consumer -> Job] /\ withdrawn \in SUBSET Root
        /\ campaign \in {"open", "closed", "replaced"}
        /\ answered \in [Root -> SUBSET Attempt]
        /\ deferrals \in [Root -> [Retry -> Nat]]
    BY DEF DeliveryInv, DeliveryTypeOK
  <1>4. /\ held' = held
        /\ \A s \in Root, j \in Retry :
              run'[s][j] = run[s][j] \/ s \in gone
        /\ \A s \in Root, j \in Retry : Latest(s, j)' <=> Latest(s, j)
    BY <1>1, CancelMoves DEF DeliveryInv
  <1>5. ASSUME NEW r \in Root
        PROVE  /\ RowKept(r)
               /\ r \in gone => msg'[r].state = "cancelled"
               /\ r \notin gone => SameMail(r)
    <2>1. CASE r \in gone
      <3>1. /\ msg'[r] = Cancelled(msg[r]) /\ occurrence'[r] = "skipped"
            /\ msg[r].state \in Unsent
        BY <1>1, <2>1 DEF Pending
      <3> QED BY <1>1, <1>2, <2>1, <3>1, CancelKept
    <2>2. CASE r \notin gone
      <3>1. /\ msg'[r] = [msg[r] EXCEPT !.hold = FALSE]
            /\ occurrence'[r] = occurrence[r] /\ msg[r] \in Message
        BY <1>1, <1>3, <2>2
      <3>2. SameMail(r) /\ msg'[r].hold = FALSE
        BY <3>1 DEF SameMail, Message
      <3> QED BY <1>1, <1>2, <2>2, <3>1, <3>2, SameMailKept
    <2> QED BY <2>1, <2>2
  <1>6. RunsFollow'
    <2> SUFFICES ASSUME NEW s \in Root, NEW j \in Retry, Latest(s, j)'
                 PROVE  Strand(msg'[s], j, run'[s][j])
      BY DEF RunsFollow
    <2>1. CASE s \in gone
      BY <1>5, <2>1 DEF Strand, Unsent
    <2>2. CASE s \notin gone
      <3>1. Strand(msg[s], j, run[s][j]) /\ run'[s][j] = run[s][j]
        BY <1>4, <2>2 DEF DeliveryInv, RunsFollow
      <3> QED BY <1>5, <2>2, <3>1 DEF Strand, SameMail
    <2> QED BY <2>1, <2>2
  <1>7. /\ msg' = [r \in Root |-> msg'[r]]
        /\ occurrence' = [r \in Root |-> occurrence'[r]]
    BY <1>1
  <1>8. MailTaskStep
    BY <1>1 DEF MailTaskStep
  <1>9. \A d \in Consumer : JobKept(d)
    BY <1>1, <1>2, <1>4, OthersKept DEF DeliveryInv
  <1> QED BY <1>1, <1>2, <1>3, <1>5, <1>6, <1>7, <1>8, <1>9, RowsHold

\* schedule_cancel ends unsent mail with its waiting runs, and leaves mail
\* that failed or arrived as it is, with the run its resolution asks for.
LEMMA WithdrawHolds ==
    ASSUME DeliveryInv, NEW r \in Root, Withdraw(r)
    PROVE  DeliveryInv'
  <1> DEFINE m == IF msg[r].state \in Unsent THEN Cancelled(msg[r]) ELSE msg[r]
             o == IF occurrence[r] \in {"pending", "running"}
                  THEN "skipped" ELSE occurrence[r]
  <1>1. /\ PutMail(r, m) /\ PutOccurrence(r, o) /\ CancelRuns({r})
        /\ withdrawn' = withdrawn \cup {r}
        /\ msg[r].state \notin Uncertain \cup {"none"}
        /\ UNCHANGED <<deferrals, job, wire, paused, campaign, history>>
    BY DEF Withdraw
  <1>2. ruledOut' = ruledOut /\ answered' = answered
    BY <1>1 DEF history
  <1>3. /\ msg \in [Root -> Message] /\ occurrence \in [Root -> Occurrence]
        /\ msg[r] \in Message /\ occurrence[r] \in Occurrence
        /\ withdrawn' \in SUBSET Root
        /\ answered \in [Root -> SUBSET Attempt]
        /\ deferrals \in [Root -> [Retry -> Nat]]
        /\ MailOK(msg[r], occurrence[r], paused)
    BY <1>1 DEF DeliveryInv, DeliveryTypeOK
  <1>4. /\ held' = held
        /\ \A s \in Root, j \in Retry :
              \/ run'[s][j] = run[s][j]
              \/ s \in {r} /\ run[s][j].state \in Waiting
        /\ \A s \in Root, j \in Retry : Latest(s, j)' <=> Latest(s, j)
    BY <1>1, CancelMoves DEF DeliveryInv
  <1>5. o \in Occurrence /\ m \in Message
    BY <1>3, CancelledOK DEF Occurrence
  <1> HIDE DEF m, o
  <1>6. /\ msg'[r] = m /\ occurrence'[r] = o
        /\ \A s \in Root : s # r => msg'[s] = msg[s]
    BY <1>1, <1>3, <1>5, OneRow
  <1>7. CASE msg[r].state \in Unsent
    <2>1. occurrence[r] = "pending"
      BY <1>3, <1>7 DEF MailOK
    <2>2. m = Cancelled(msg[r]) /\ o = "skipped"
      BY <1>7, <2>1 DEF m, o
    <2>3. RowKept(r) /\ msg'[r].state = "cancelled"
      BY <1>1, <1>2, <1>6, <1>7, <2>2, CancelKept
    <2>4. RunsFollow'
      <3> SUFFICES ASSUME NEW s \in Root, NEW j \in Retry, Latest(s, j)'
                   PROVE  Strand(msg'[s], j, run'[s][j])
        BY DEF RunsFollow
      <3>1. CASE s = r
        BY <2>3, <3>1 DEF Strand, Unsent
      <3>2. CASE s # r
        BY <1>4, <1>6, <3>2 DEF DeliveryInv, RunsFollow
      <3> QED BY <3>1, <3>2
    <2>5. MailTaskStep
      BY <1>1 DEF MailTaskStep
    <2> QED BY <1>1, <1>2, <1>3, <1>4, <1>5, <2>3, <2>4, <2>5, OneRowHolds
  <1>8. CASE msg[r].state \notin Unsent
    <2>1. occurrence[r] \notin {"pending", "running"}
      BY <1>1, <1>3, <1>8 DEF MailOK, Uncertain
    <2>2. m = msg[r] /\ o = occurrence[r]
      BY <1>8, <2>1 DEF m, o
    <2>3. RowKept(r)
      BY <1>1, <1>2, <1>6, <2>2, SameRowKept
    <2>4. RunsFollow'
      <3> SUFFICES ASSUME NEW s \in Root, NEW j \in Retry, Latest(s, j)'
                   PROVE  Strand(msg'[s], j, run'[s][j])
        BY DEF RunsFollow
      <3>1. Strand(msg[s], j, run[s][j])
        BY <1>4 DEF DeliveryInv, RunsFollow
      <3>2. msg'[s] = msg[s]
        BY <1>6, <2>2
      <3>3. CASE run'[s][j] = run[s][j]
        BY <3>1, <3>2, <3>3
      <3>4. CASE s = r /\ run[s][j].state \in Waiting
        BY <1>1, <1>8, <3>1, <3>2, <3>4 DEF Strand, Waiting, Uncertain
      <3> QED BY <1>4, <3>3, <3>4
    <2>5. MailTaskStep
      BY <1>1 DEF MailTaskStep
    <2> QED BY <1>1, <1>2, <1>3, <1>4, <1>5, <2>3, <2>4, <2>5, OneRowHolds
  <1> QED BY <1>7, <1>8

\* PostgreSQL's clock changes deadlines and delays only.
LEMMA TickHolds ==
    ASSUME DeliveryInv, MailTick
    PROVE  DeliveryInv'
  <1>1. /\ Tick
        /\ msg' = [r \in Root |-> [msg[r] EXCEPT !.deadline = Elapse(@),
                                                 !.wait = Elapse(@)]]
        /\ job' = [c \in Consumer |-> [job[c] EXCEPT !.deadline = Elapse(@)]]
        /\ UNCHANGED <<occurrence, deferrals, wire, environment, history>>
    BY DEF MailTick
  <1>2. /\ ruledOut' = ruledOut /\ answered' = answered /\ paused' = paused
        /\ campaign' = campaign /\ withdrawn' = withdrawn
    BY <1>1 DEF environment, history
  <1>3. /\ msg \in [Root -> Message] /\ occurrence \in [Root -> Occurrence]
        /\ job \in [Consumer -> Job] /\ withdrawn \in SUBSET Root
        /\ paused \in BOOLEAN /\ campaign \in {"open", "closed", "replaced"}
        /\ answered \in [Root -> SUBSET Attempt]
        /\ deferrals \in [Root -> [Retry -> Nat]]
    BY DEF DeliveryInv, DeliveryTypeOK
  <1>4. ASSUME NEW n \in Nat PROVE Elapse(n) \in Nat
    BY DEF Elapse
  <1>5. ASSUME NEW r \in Root
        PROVE  SameMail(r) /\ RowKept(r)
    <2> DEFINE deadline == Elapse(msg[r].deadline)
               wait == Elapse(msg[r].wait)
    <2>1. /\ msg'[r] = [msg[r] EXCEPT !.deadline = deadline, !.wait = wait]
          /\ msg[r] \in Message
      BY <1>1, <1>3
    <2>2. deadline \in Nat /\ wait \in Nat
      BY <1>4, <2>1 DEF Message
    <2> HIDE DEF deadline, wait
    <2>3. SameMail(r) /\ msg'[r].hold = msg[r].hold
      BY <2>1, <2>2 DEF SameMail, Message
    <2>4. msg[r].hold <=> paused /\ msg[r].state \in Unsent
      BY DEF DeliveryInv, MailOK
    <2> QED BY <1>1, <1>2, <2>3, <2>4, SameMailKept
  <1>6. /\ msg' = [r \in Root |-> msg'[r]]
        /\ occurrence' = [r \in Root |-> occurrence'[r]]
    BY <1>1, <1>3
  <1>7. ASSUME NEW c \in Consumer
        PROVE  /\ job'[c] \in Job
               /\ job'[c].pc = job[c].pc /\ job'[c].attempt = job[c].attempt
    <2> DEFINE deadline == Elapse(job[c].deadline)
    <2>1. job'[c] = [job[c] EXCEPT !.deadline = deadline] /\ job[c] \in Job
      BY <1>1, <1>3
    <2>2. deadline \in Nat
      BY <1>4, <2>1 DEF Job
    <2> HIDE DEF deadline
    <2> QED BY <2>1, <2>2 DEF Job
  <1>8. job' \in [Consumer -> Job]
    BY <1>1, <1>7
  <1>9. held' = held /\ \A r \in Root, k \in Retry :
           run'[r][k].state = run[r][k].state /\ run'[r][k].fence = run[r][k].fence
    BY <1>1, TickRows DEF Tick, DeliveryInv
  <1>10. RunsFollow'
    <2> SUFFICES ASSUME NEW s \in Root, NEW j \in Retry, Latest(s, j)'
                 PROVE  Strand(msg'[s], j, run'[s][j])
      BY DEF RunsFollow
    <2>1. Latest(s, j)
      BY <1>9, LatestStays
    <2>2. Strand(msg[s], j, run[s][j])
      BY <2>1 DEF DeliveryInv, RunsFollow
    <2> QED BY <1>5, <1>9, <2>2 DEF Strand, SameMail
  <1>11. MailTaskStep
    BY <1>1 DEF Tick, MailTaskStep, TaskNext
  <1>12. \A d \in Consumer : JobKept(d)
    BY <1>1, <1>2, <1>7, <1>9, OthersKept DEF DeliveryInv
  <1> QED BY <1>1, <1>2, <1>3, <1>5, <1>6, <1>8, <1>10, <1>11, <1>12, RowsHold

-----------------------------------------------------------------------------
(* The provider call.                                                      *)

\* One attempt's stage changes.
LEMMA OneStage ==
    ASSUME wire \in [Root -> [Attempt -> Stage]],
           NEW r \in Root, NEW a \in Attempt, NEW stage \in Stage,
           wire' = [wire EXCEPT ![r][a] = stage]
    PROVE  /\ wire' \in [Root -> [Attempt -> Stage]]
           /\ wire'[r][a] = stage
           /\ \A b \in Attempt : b # a => wire'[r][b] = wire[r][b]
           /\ \A s \in Root : s # r => wire'[s] = wire[s]
  OBVIOUS

\* A helper's step for an attempt that is known to its message and not ruled
\* out, whoever still listens.
LEMMA WireHolds ==
    ASSUME DeliveryInv, NEW r \in Root, NEW a \in Attempt, NEW stage \in Stage,
           wire' = [wire EXCEPT ![r][a] = stage],
           a \notin ruledOut[r], a <= msg[r].attempt, wire[r][a] # "accepted",
           UNCHANGED <<taskVars, msg, occurrence, deferrals, environment, history>>,
           job' \in [Consumer -> Job], \A d \in Consumer : JobKept(d)
    PROVE  DeliveryInv'
  <1>1. /\ run' = run /\ held' = held /\ msg' = msg /\ occurrence' = occurrence
        /\ ruledOut' = ruledOut /\ answered' = answered /\ paused' = paused
        /\ campaign' = campaign /\ withdrawn' = withdrawn
        /\ deferrals' = deferrals
    BY DEF taskVars, environment, history
  <1>2. /\ wire' \in [Root -> [Attempt -> Stage]]
        /\ wire'[r][a] = stage
        /\ \A b \in Attempt : b # a => wire'[r][b] = wire[r][b]
        /\ \A s \in Root : s # r => wire'[s] = wire[s]
    BY OneStage DEF DeliveryInv, DeliveryTypeOK
  <1>3. DeliveryTypeOK'
    BY <1>1, <1>2 DEF DeliveryInv, DeliveryTypeOK
  <1>4. ASSUME NEW s \in Root PROVE LedgerOK(s)'
    <2>1. CASE s # r
      <3>1. LedgerKept(s)
        BY <1>1, <1>2, <2>1 DEF LedgerKept
      <3> QED BY <3>1, LedgerFrame DEF DeliveryInv
    <2>2. CASE s = r
      <3>1. LedgerOK(r)
        BY DEF DeliveryInv
      <3>2. Accepted[r] \subseteq Accepted'[r]
        BY <1>2 DEF Accepted
      <3>3. \A b \in ruledOut[r] : b \in Attempt /\ wire'[r][b] = wire[r][b]
        BY <1>2 DEF DeliveryInv, DeliveryTypeOK
      <3> QED BY <1>1, <1>2, <2>2, <3>1, <3>2, <3>3 DEF LedgerOK, Sure
    <2> QED BY <2>1, <2>2
  <1>5. FlightsOK' /\ OneUncertainPerFamily'
    <2>1. NoSubmission
      BY <1>1 DEF NoSubmission
    <2> QED BY <2>1, FlightsFrame, UncertainFrame DEF DeliveryInv
  <1>6. TaskInv' /\ NoneOpen'
    BY TaskStepHolds DEF DeliveryInv, MailTaskStep
  <1>7. RunsFollow'
    BY <1>1, SameRunsFollow DEF DeliveryInv
  <1> QED BY <1>1, <1>3, <1>4, <1>5, <1>6, <1>7 DEF DeliveryInv

\* What is known of the attempt a consumer has in its hands.
LEMMA FlightKnown ==
    ASSUME DeliveryInv, NEW c \in Consumer, InFlight(c)
    PROVE  /\ held[c].root \in Root
           /\ job[c].attempt \in Attempt
           /\ job[c].attempt <= msg[held[c].root].attempt
           /\ job[c].attempt \notin ruledOut[held[c].root]
           /\ job[c].pc = "submitted"
                 => wire[held[c].root][job[c].attempt] = "none"
  <1>1. held[c] # NoClaim
    BY DEF DeliveryInv, FlightsOK, InFlight
  <1>2. held[c].root \in Root
    BY <1>1 DEF DeliveryInv, TaskInv, TaskTypeOK, Claims
  <1> QED BY <1>2 DEF DeliveryInv, FlightsOK, Mail

\* Handing the request to the helper.
LEMMA LaunchHolds ==
    ASSUME DeliveryInv, NEW c \in Consumer, Launch(c)
    PROVE  DeliveryInv'
  <1> DEFINE r == held[c].root
             a == job[c].attempt
  <1>1. /\ job[c].pc = "submitted" /\ Goto(c, "sending")
        /\ wire' = [wire EXCEPT ![r][a] = "connecting"]
        /\ UNCHANGED <<taskVars, msg, occurrence, deferrals, environment, history>>
    BY DEF Launch
  <1>2. /\ r \in Root /\ a \in Attempt /\ a <= msg[r].attempt
        /\ a \notin ruledOut[r] /\ wire[r][a] = "none"
    BY <1>1, FlightKnown DEF InFlight
  <1>3. held' = held /\ ruledOut' = ruledOut
    BY <1>1 DEF taskVars, history
  <1>4. /\ job' \in [Consumer -> Job] /\ job'[c].pc = "sending"
        /\ job'[c].attempt = job[c].attempt
        /\ \A d \in Consumer : d # c => job'[d] = job[d]
    <2>1. job \in [Consumer -> Job] /\ "sending" \in Pc
      BY DEF DeliveryInv, DeliveryTypeOK, Pc
    <2> QED BY <1>1, <2>1 DEF Goto, Job
  <1>5. "connecting" \in Stage
    BY DEF Stage
  <1>6. ASSUME NEW d \in Consumer PROVE JobKept(d)
    <2>1. CASE d = c
      BY <1>1, <1>2, <1>3, <1>4, <2>1 DEF JobKept
    <2>2. CASE d # c
      <3>1. job'[d] = job[d] /\ held'[d] = held[d]
        BY <1>3, <1>4, <2>2
      <3>2. ASSUME InFlight(d)
            PROVE  /\ job[d].attempt \notin ruledOut'[held[d].root]
                   /\ job[d].pc = "submitted" =>
                         wire'[held[d].root][job[d].attempt] = "none"
        <4>1. /\ held[d].root \in Root /\ job[d].attempt \in Attempt
              /\ job[d].attempt \notin ruledOut[held[d].root]
              /\ job[d].pc = "submitted"
                    => wire[held[d].root][job[d].attempt] = "none"
          BY <3>2, FlightKnown
        <4>2. ~(held[d].root = r /\ job[d].attempt = a)
          BY <1>1, <2>2, <3>2 DEF DeliveryInv, FlightsOK, InFlight
        <4>3. wire'[held[d].root][job[d].attempt]
                 = wire[held[d].root][job[d].attempt]
          BY <1>1, <1>2, <1>5, <4>1, <4>2, OneStage
             DEF DeliveryInv, DeliveryTypeOK
        <4> QED BY <1>3, <4>1, <4>3
      <3> QED BY <3>1, <3>2 DEF JobKept
    <2> QED BY <2>1, <2>2
  <1> HIDE DEF r, a
  <1> QED BY <1>1, <1>2, <1>4, <1>5, <1>6, WireHolds

\* The helper writes "started", and the provider decides, whoever listens.
LEMMA TransmitHolds ==
    ASSUME DeliveryInv, NEW r \in Root, NEW a \in Attempt, Transmit(r, a)
    PROVE  DeliveryInv'
  <1>1. PICK stage \in {"started", "accepted", "refused"} :
           wire' = [wire EXCEPT ![r][a] = stage]
    BY DEF Transmit
  <1>2. /\ wire[r][a] \in {"connecting", "started"} /\ job' = job
        /\ UNCHANGED <<taskVars, msg, occurrence, deferrals, environment, history>>
    BY DEF Transmit
  <1>3. a \notin ruledOut[r] /\ a <= msg[r].attempt
    BY <1>2 DEF DeliveryInv, LedgerOK
  <1>4. stage \in Stage
    BY DEF Stage
  <1>5. held' = held /\ ruledOut' = ruledOut
    BY <1>2 DEF taskVars, history
  <1>6. job' \in [Consumer -> Job]
    BY <1>2 DEF DeliveryInv, DeliveryTypeOK
  <1>7. ASSUME NEW d \in Consumer PROVE JobKept(d)
    <2>1. ASSUME InFlight(d)
          PROVE  /\ job[d].attempt \notin ruledOut'[held[d].root]
                 /\ job[d].pc = "submitted" =>
                       wire'[held[d].root][job[d].attempt] = "none"
      <3>1. /\ held[d].root \in Root /\ job[d].attempt \in Attempt
            /\ job[d].attempt \notin ruledOut[held[d].root]
            /\ job[d].pc = "submitted"
                  => wire[held[d].root][job[d].attempt] = "none"
        BY <2>1, FlightKnown
      <3>2. job[d].pc = "submitted" =>
               wire'[held[d].root][job[d].attempt]
                  = wire[held[d].root][job[d].attempt]
        BY <1>1, <1>2, <1>4, <3>1, OneStage DEF DeliveryInv, DeliveryTypeOK
      <3> QED BY <1>5, <3>1, <3>2
    <2> QED BY <1>2, <1>5, <2>1 DEF JobKept
  <1> QED BY <1>1, <1>2, <1>3, <1>4, <1>6, <1>7, WireHolds

\* begin_submission: the attempt is committed, bound to this claim, before any
\* byte leaves.  The attempt before it is no longer in doubt, and no other
\* message of the Family is uncertain.
LEMMA SubmitHolds ==
    ASSUME DeliveryInv, NEW c \in Consumer, NEW gone \in SUBSET Root,
           Submit(c, gone)
    PROVE  DeliveryInv'
  <1> DEFINE r == held[c].root
             k == held[c].retry
             n == msg[r].attempt + 1
             m == [msg[r] EXCEPT !.state = "submitting", !.attempt = n,
                                 !.retry = k, !.fence = held[c].fence,
                                 !.worker = c, !.deadline = DeadlineTicks,
                                 !.hold = FALSE]
             flight == [Idle EXCEPT !.pc = "submitted", !.attempt = n,
                                    !.deadline = DeadlineTicks]
  <1>1. /\ Owns(c) /\ msg[r].state \in Unsent /\ msg[r].attempt < MaxSend
        /\ Clear(r) /\ gone \subseteq Pending \ {r}
        /\ msg' = [s \in Root |-> CASE s = r -> m
                                    [] s \in gone -> Cancelled(msg[s])
                                    [] OTHER -> msg[s]]
        /\ occurrence' = [s \in Root |-> CASE s = r -> "running"
                                           [] s \in gone -> "skipped"
                                           [] OTHER -> occurrence[s]]
        /\ job' = [job EXCEPT ![c] = flight]
        /\ UNCHANGED <<taskVars, deferrals, wire, environment, history>>
    BY DEF Submit, Mail
  <1>2. /\ run' = run /\ held' = held /\ wire' = wire /\ ruledOut' = ruledOut
        /\ answered' = answered /\ paused' = paused /\ campaign' = campaign
        /\ withdrawn' = withdrawn /\ deferrals' = deferrals
    BY <1>1 DEF taskVars, environment, history
  <1>3. /\ msg \in [Root -> Message] /\ occurrence \in [Root -> Occurrence]
        /\ job \in [Consumer -> Job]
    BY DEF DeliveryInv, DeliveryTypeOK
  <1>4. /\ r \in Root /\ k \in Retry /\ held[c].fence \in Nat
        /\ run[r][k].state = "running" /\ run[r][k].fence = held[c].fence
        /\ Latest(r, k) /\ \A j \in Retry : Latest(r, j) => j = k
    <2>1. r \in Root /\ k \in Retry /\ run[r][k].state = "running"
          /\ run[r][k].fence = held[c].fence
      BY <1>1, OwnerRow DEF DeliveryInv, Owns, Row
    <2>2. held[c].fence \in Nat
      BY <1>1 DEF DeliveryInv, TaskInv, TaskTypeOK, Claims, Owns
    <2>3. TaskInv /\ run[r][k].state \notin Terminal \cup {"absent"}
      BY <2>1 DEF DeliveryInv, Terminal
    <2> QED BY <2>1, <2>2, <2>3, LiveIsLatest
  <1>5. /\ msg[r] \in Message /\ msg[r].attempt \in Nat /\ n \in Nat
        /\ n \in Attempt /\ MaxSend \in Nat /\ DeadlineTicks \in Nat
        /\ MailOK(msg[r], occurrence[r], paused)
    <2>1. msg[r] \in Message /\ MailOK(msg[r], occurrence[r], paused)
      BY <1>4 DEF DeliveryInv, DeliveryTypeOK
    <2>2. msg[r].attempt \in Nat
      BY <2>1 DEF Message
    <2> QED BY <1>1, <2>1, <2>2, DeliveryBounds DEF Attempt
  <1> HIDE DEF r, k, n
  <1>6. /\ m \in Message /\ m.state = "submitting" /\ m.attempt = n
        /\ m.retry = k /\ m.fence = held[c].fence /\ m.worker = c
        /\ m.hold = FALSE
    BY <1>4, <1>5 DEF Message
  <1>7. /\ flight \in Job /\ flight.pc = "submitted" /\ flight.attempt = n
    BY <1>5 DEF Idle, Job, Pc
  <1> HIDE DEF m, flight
  <1>8. /\ msg'[r] = m /\ occurrence'[r] = "running"
        /\ \A s \in Root : s \in gone => /\ msg'[s] = Cancelled(msg[s])
                                         /\ occurrence'[s] = "skipped"
        /\ \A s \in Root : s # r /\ s \notin gone =>
              msg'[s] = msg[s] /\ occurrence'[s] = occurrence[s]
    <2>1. r \notin gone
      BY <1>1
    <2> QED BY <1>1, <1>4, <2>1
  <1>9. /\ job' \in [Consumer -> Job] /\ job'[c] = flight
        /\ \A d \in Consumer : d # c => job'[d] = job[d]
    BY <1>1, <1>3, <1>7
  <1>10. ASSUME NEW s \in Root, s # r PROVE RowKept(s)
    <2>1. CASE s \in gone
      <3>1. msg[s].state \in Unsent
        BY <1>1, <2>1 DEF Pending
      <3> QED BY <1>2, <1>8, <2>1, <3>1, CancelKept
    <2>2. CASE s \notin gone
      BY <1>2, <1>8, <1>10, <2>2, SameRowKept
    <2> QED BY <2>1, <2>2
  <1>11. MailOK(msg'[r], occurrence'[r], paused')
    BY <1>1, <1>5, <1>6, <1>8 DEF MailOK, Unsent, Uncertain, n
  <1>12. DeliveryTypeOK'
    <2>1. \A s \in Root : msg'[s] \in Message /\ occurrence'[s] \in Occurrence
      BY <1>6, <1>8, <1>10 DEF RowKept, Occurrence
    <2>2. /\ msg' = [s \in Root |-> msg'[s]]
          /\ occurrence' = [s \in Root |-> occurrence'[s]]
      BY <1>1
    <2>3. msg' \in [Root -> Message] /\ occurrence' \in [Root -> Occurrence]
      BY <2>1, <2>2
    <2> QED BY <1>2, <1>9, <2>3 DEF DeliveryInv, DeliveryTypeOK
  <1>13. ASSUME NEW s \in Root, s = r PROVE LedgerOK(s)'
    <2>1. LedgerOK(r)
      BY <1>4 DEF DeliveryInv
    <2>2. \A a \in Attempt : a < n => a < msg[r].attempt \/ a = msg[r].attempt
      BY <1>5 DEF Attempt, n
    <2>3. \A a \in Attempt : a = msg[r].attempt => Sure(r, a)
      BY <1>1, <1>5, <2>1 DEF LedgerOK, Attempt
    <2>4. \A a \in Attempt : a < n => a \in ruledOut'[r] \cup answered'[r]
      BY <1>2, <2>1, <2>2, <2>3 DEF LedgerOK, Sure
    <2>5. \A a \in Attempt : a <= msg[r].attempt => a <= n
      BY <1>5 DEF Attempt, n
    <2>6. ruledOut[r] \subseteq Attempt
      BY <1>4 DEF DeliveryInv, DeliveryTypeOK
    <2> QED BY <1>2, <1>6, <1>8, <1>13, <2>1, <2>4, <2>5, <2>6
            DEF LedgerOK, Sure, Unsent
  <1>14. \A s \in Root : LedgerOK(s)'
    BY <1>10, <1>13, LedgerFrame DEF DeliveryInv, RowKept
  <1>15. OneUncertainPerFamily'
    <2>1. ASSUME NEW s \in Root, s # r PROVE msg'[s].state \notin Uncertain
      BY <1>1, <1>10, <2>1 DEF Clear, RowKept
    <2> QED BY <2>1 DEF OneUncertainPerFamily
  <1>16. RunsFollow'
    <2>1. ASSUME NEW s \in Root, NEW j \in Retry, Latest(s, j),
                 Strand(msg[s], j, run[s][j])
          PROVE  Strand(msg'[s], j, run[s][j])
      <3>1. CASE s = r
        <4>1. j = k
          BY <1>4, <2>1, <3>1
        <4> QED BY <1>4, <1>6, <1>8, <3>1, <4>1 DEF Strand, Unsent
      <3>2. CASE s \in gone
        <4>1. msg'[s].state = "cancelled"
          <5>1. msg[s].state \in Unsent
            BY <1>1, <3>2 DEF Pending
          <5> QED BY <1>2, <1>8, <3>2, <5>1, CancelKept
        <4> QED BY <4>1 DEF Strand, Unsent
      <3>3. CASE s # r /\ s \notin gone
        BY <1>8, <2>1, <3>3
      <3> QED BY <3>1, <3>2, <3>3
    <2> QED BY <1>2, <2>1, SameRunsFollow DEF DeliveryInv
  <1>17. ASSUME NEW d \in Consumer, d # c, InFlight(d)'
         PROVE  /\ InFlight(d) /\ held[d].root \in Root
                /\ job'[d] = job[d] /\ held'[d] = held[d]
                /\ msg[held[d].root].attempt <= msg'[held[d].root].attempt
                /\ held[d].root = r => job[d].attempt < n
                /\ msg'[held[d].root].state = "submitting"
                      /\ msg'[held[d].root].worker = d
                      => job[d].attempt = msg'[held[d].root].attempt
    <2>1. job'[d] = job[d] /\ held'[d] = held[d] /\ InFlight(d)
      BY <1>2, <1>9, <1>17 DEF InFlight
    <2>2. /\ held[d].root \in Root /\ job[d].attempt \in Attempt
          /\ job[d].attempt <= msg[held[d].root].attempt
      BY <2>1, FlightKnown
    <2>3. CASE held[d].root = r
      <3>1. job[d].attempt < n /\ msg[r].attempt <= n
        BY <1>5, <2>2, <2>3 DEF Attempt, n
      <3> QED BY <1>6, <1>8, <1>17, <2>1, <2>2, <2>3, <3>1
    <2>4. CASE held[d].root # r
      <3>1. /\ msg'[held[d].root].attempt = msg[held[d].root].attempt
            /\ msg'[held[d].root].state = "submitting" =>
                  /\ msg[held[d].root].state = "submitting"
                  /\ msg'[held[d].root].worker = msg[held[d].root].worker
        BY <1>10, <2>2, <2>4 DEF RowKept, LedgerKept
      <3>2. msg[held[d].root].state = "submitting"
               /\ msg[held[d].root].worker = d
               => job[d].attempt = msg[held[d].root].attempt
        BY <2>1 DEF DeliveryInv, FlightsOK, Mail
      <3>3. msg[held[d].root].attempt \in Nat
        BY <1>3, <2>2 DEF Message
      <3> QED BY <2>1, <2>2, <2>4, <3>1, <3>2, <3>3
    <2> QED BY <2>3, <2>4
  <1>18. FlightsOK'
    <2>1. ASSUME NEW d \in Consumer, job'[d].pc # "idle"
          PROVE  held'[d] # NoClaim
      BY <1>1, <1>2, <1>9, <2>1 DEF DeliveryInv, FlightsOK, Owns
    <2>2. /\ n \notin ruledOut[r] /\ wire[r][n] = "none"
      <3>1. LedgerOK(r)
        BY <1>4 DEF DeliveryInv
      <3>2. ~(n <= msg[r].attempt)
        BY <1>5 DEF n
      <3> QED BY <1>5, <3>1, <3>2 DEF LedgerOK
    <2>3. ASSUME NEW d \in Consumer, InFlight(d)'
          PROVE  /\ job'[d].attempt \in Attempt
                 /\ job'[d].attempt <= Mail(d)'.attempt
                 /\ job'[d].attempt \notin ruledOut'[held'[d].root]
                 /\ job'[d].pc = "submitted"
                       => wire'[held'[d].root][job'[d].attempt] = "none"
                 /\ Mail(d)'.state = "submitting" /\ Mail(d)'.worker = d
                       => job'[d].attempt = Mail(d)'.attempt
      <3>1. CASE d = c
        <4>1. Mail(c)' = m /\ held'[c].root = r /\ job'[c].attempt = n
          BY <1>2, <1>7, <1>8, <1>9 DEF Mail, r
        <4>2. n <= n
          BY <1>5
        <4> QED BY <1>2, <1>5, <1>6, <2>2, <3>1, <4>1, <4>2
      <3>2. CASE d # c
        <4>1. /\ InFlight(d) /\ held[d].root \in Root
              /\ job'[d] = job[d] /\ held'[d] = held[d]
              /\ msg[held[d].root].attempt <= msg'[held[d].root].attempt
              /\ msg'[held[d].root].state = "submitting"
                    /\ msg'[held[d].root].worker = d
                    => job[d].attempt = msg'[held[d].root].attempt
          BY <1>17, <2>3, <3>2
        <4>2. /\ job[d].attempt \in Attempt
              /\ job[d].attempt <= msg[held[d].root].attempt
              /\ job[d].attempt \notin ruledOut[held[d].root]
              /\ job[d].pc = "submitted"
                    => wire[held[d].root][job[d].attempt] = "none"
          BY <4>1, FlightKnown
        <4>3. job[d].attempt \in Nat /\ msg[held[d].root].attempt \in Nat
              /\ msg'[held[d].root].attempt \in Nat
          BY <1>3, <1>12, <4>1, <4>2 DEF Attempt, Message, DeliveryTypeOK
        <4>4. job[d].attempt <= msg'[held[d].root].attempt
          BY <4>1, <4>2, <4>3
        <4> QED BY <1>2, <4>1, <4>2, <4>4 DEF Mail
      <3> QED BY <3>1, <3>2
    <2>4. ASSUME NEW d \in Consumer, NEW e \in Consumer,
                 InFlight(d)', InFlight(e)', held'[d].root = held'[e].root,
                 job'[d].attempt = job'[e].attempt
          PROVE  d = e
      <3>1. CASE d = c /\ e # c
        BY <1>2, <1>5, <1>7, <1>9, <1>17, <2>4, <3>1 DEF r
      <3>2. CASE d # c /\ e = c
        BY <1>2, <1>5, <1>7, <1>9, <1>17, <2>4, <3>2 DEF r
      <3>3. CASE d # c /\ e # c
        BY <1>17, <2>4, <3>3 DEF DeliveryInv, FlightsOK
      <3> QED BY <3>1, <3>2, <3>3
    <2> QED BY <2>1, <2>3, <2>4 DEF FlightsOK
  <1>19. TaskInv' /\ NoneOpen'
    BY <1>1, TaskStepHolds DEF DeliveryInv, MailTaskStep
  <1>20. \A s \in Root : MailOK(msg'[s], occurrence'[s], paused')
    BY <1>10, <1>11 DEF RowKept
  <1> QED BY <1>12, <1>14, <1>15, <1>16, <1>18, <1>19, <1>20 DEF DeliveryInv

\* What an outcome says: the state it puts the message in, and what must have
\* become of the attempt for the consumer to conclude it.
LEMMA OutcomeKnown ==
    ASSUME DeliveryInv, NEW c \in Consumer, InFlight(c),
           NEW outcome \in {"accepted", "transient", "limited", "permanent",
                            "unknown"},
           NEW spent \in BOOLEAN, outcome \in Outcomes(c)
    PROVE  LET before == wire[held[c].root][job[c].attempt]
               state == Target(outcome, spent)
           IN  /\ Killed(before) \in Stage
               /\ Killed(before) = "accepted" <=> before = "accepted"
               /\ state \in {"delivered", "delivery_unknown",
                             "permanent_failure", "retry_wait"}
               /\ state = "delivered" => before = "accepted"
               /\ state \in {"permanent_failure", "retry_wait"} =>
                     Killed(before) \in {"none", "refused", "unsent"}
  <1> DEFINE before == wire[held[c].root][job[c].attempt]
             state == Target(outcome, spent)
  <1>1. /\ before \in Stage
        /\ job[c].pc = "submitted" => before = "none"
    BY FlightKnown DEF DeliveryInv, DeliveryTypeOK
  <1>2. /\ state \in {"delivered", "delivery_unknown",
                      "permanent_failure", "retry_wait"}
        /\ state = "delivered" => outcome = "accepted"
        /\ state \in {"permanent_failure", "retry_wait"} =>
              outcome \in {"transient", "limited", "permanent"}
    BY DEF Target
  <1>3. /\ outcome = "accepted" => before = "accepted"
        /\ outcome \in {"transient", "limited", "permanent"} =>
              before \in {"none", "connecting", "refused"}
    BY <1>1 DEF Outcomes, Stage
  <1> HIDE DEF before, state
  <1>4. /\ Killed(before) \in Stage
        /\ Killed(before) = "accepted" <=> before = "accepted"
        /\ before \in {"none", "connecting", "refused"} =>
              Killed(before) \in {"none", "refused", "unsent"}
    BY <1>1 DEF Killed, Stage
  <1> QED BY <1>2, <1>3, <1>4 DEF before, state

\* The row an outcome leaves.
OutcomeMail(m, state, wait, limited) ==
    IF state = "retry_wait"
    THEN [Requeued(m, state) EXCEPT
            !.wait = wait, !.spared = IF limited THEN @ + 1 ELSE @]
    ELSE [m EXCEPT !.state = state]

\* That row is well formed and agrees with the schedule's record of it.
LEMMA OutcomeRow ==
    ASSUME NEW m \in Message, NEW o, MailOK(m, o, paused), paused \in BOOLEAN,
           m.state = "submitting", NEW wait \in Nat, NEW limited \in BOOLEAN,
           NEW state \in {"delivered", "delivery_unknown", "permanent_failure",
                          "retry_wait"}
    PROVE  LET row == OutcomeMail(m, state, wait, limited) IN
           /\ row \in Message
           /\ row.state = state /\ row.attempt = m.attempt
           /\ row.retry = m.retry /\ row.fence = m.fence
           /\ OccurrenceOf(state) \in Occurrence
           /\ MailOK(row, OccurrenceOf(state), paused)
  <1> DEFINE row == OutcomeMail(m, state, wait, limited)
  <1>1. m.hold = FALSE /\ m.attempt <= MaxSend /\ m.attempt > 0
    BY DEF MailOK, Unsent, Uncertain, Message
  <1>2. CASE state = "retry_wait"
    <2> DEFINE back == Requeued(m, state)
               spared == IF limited THEN back.spared + 1 ELSE back.spared
    <2>1. /\ back \in Message /\ back.state = state /\ back.attempt = m.attempt
          /\ back.retry = m.retry /\ back.fence = m.fence /\ back.hold = paused
      BY <1>2 DEF Requeued, Message, Unsent
    <2> HIDE DEF back
    <2>4. spared \in Nat /\ row = [back EXCEPT !.wait = wait, !.spared = spared]
      BY <1>2, <2>1 DEF Message, OutcomeMail, back
    <2> HIDE DEF spared, row
    <2>2. /\ row \in Message /\ row.state = state /\ row.attempt = m.attempt
          /\ row.retry = m.retry /\ row.fence = m.fence /\ row.hold = paused
      BY <2>1, <2>4 DEF Message
    <2>3. OccurrenceOf(state) = "pending"
      BY <1>2 DEF OccurrenceOf
    <2> QED BY <1>1, <1>2, <2>2, <2>3
            DEF MailOK, Unsent, Uncertain, Occurrence, row
  <1>3. CASE state # "retry_wait"
    <2>1. row = [m EXCEPT !.state = state]
      BY <1>3 DEF OutcomeMail
    <2> HIDE DEF row
    <2>2. /\ row \in Message /\ row.state = state /\ row.attempt = m.attempt
          /\ row.retry = m.retry /\ row.fence = m.fence /\ row.hold = FALSE
      BY <1>1, <1>3, <2>1 DEF Message, Settled
    <2>3. OccurrenceOf(state) = CASE state = "delivered" -> "succeeded"
                                  [] state = "delivery_unknown" ->
                                        "delivery_unknown"
                                  [] state = "permanent_failure" -> "failed"
      BY <1>3 DEF OccurrenceOf
    <2> QED BY <1>1, <1>3, <2>2, <2>3
            DEF MailOK, Unsent, Uncertain, Occurrence, row
  <1> QED BY <1>2, <1>3

\* finish_submission: the outcome is recorded under the exact claim that
\* submitted the attempt, and an attempt it rules out has no helper left that
\* could still be accepted.
LEMMA SettleHolds ==
    ASSUME DeliveryInv, NEW c \in Consumer, SettleSome(c)
    PROVE  DeliveryInv'
  <1>1. PICK outcome \in {"accepted", "transient", "limited", "permanent",
                          "unknown"},
             spent \in BOOLEAN, wait \in 1..WaitTicks :
                Settle(c, outcome, spent, wait)
    BY DEF SettleSome
  <1> DEFINE r == held[c].root
             k == held[c].retry
             n == job[c].attempt
             state == Target(outcome, spent)
             limited == outcome = "limited"
             row == OutcomeMail(msg[r], state, wait, limited)
             occ == OccurrenceOf(state)
             stage == Killed(wire[r][n])
             done == [Idle EXCEPT !.pc = "settled", !.seen = state]
  <1>2. /\ InFlight(c) /\ outcome \in Outcomes(c)
        /\ msg[r].state = "submitting" /\ msg[r].retry = k
        /\ msg[r].fence = held[c].fence /\ msg[r].worker = c
        /\ PutMail(r, row) /\ PutOccurrence(r, occ)
        /\ job' = [job EXCEPT ![c] = done]
        /\ ruledOut' = IF state \in {"retry_wait", "permanent_failure"}
                       THEN [ruledOut EXCEPT ![r] = @ \cup {msg[r].attempt}]
                       ELSE ruledOut
        /\ UNCHANGED <<deferrals, environment, answered>>
    BY <1>1 DEF Settle, Mail, InFlight, OutcomeMail
  <1>3. wire' = [wire EXCEPT ![r][n] = Killed(@)]
    BY <1>1 DEF Settle
  <1>4. Progress(c, "reconciling") \/ (Owns(c) /\ UNCHANGED taskVars)
    BY <1>1 DEF Settle
  <1>5. /\ msg \in [Root -> Message] /\ occurrence \in [Root -> Occurrence]
        /\ job \in [Consumer -> Job] /\ wire \in [Root -> [Attempt -> Stage]]
        /\ ruledOut \in [Root -> SUBSET Attempt] /\ paused \in BOOLEAN
    BY DEF DeliveryInv, DeliveryTypeOK
  <1>6. /\ r \in Root /\ n \in Attempt /\ n \notin ruledOut[r]
        /\ n = msg[r].attempt
        /\ msg[r] \in Message /\ MailOK(msg[r], occurrence[r], paused)
        /\ LedgerOK(r)
    <2>1. r \in Root /\ n \in Attempt /\ n \notin ruledOut[r]
      BY <1>2, FlightKnown
    <2>2. n = msg[r].attempt
      BY <1>2 DEF DeliveryInv, FlightsOK, Mail
    <2> QED BY <1>5, <2>1, <2>2 DEF DeliveryInv
  <1>7. /\ deferrals' = deferrals /\ paused' = paused /\ campaign' = campaign
        /\ withdrawn' = withdrawn /\ answered' = answered
    BY <1>2 DEF environment
  <1>8. /\ MailTaskStep /\ held[c] # NoClaim
        /\ held'[c] = held[c] /\ \A d \in Consumer : held'[d] = held[d]
        /\ k \in Retry /\ \A j \in Retry : Latest(r, j) => j = k
        /\ run'[r][k].state = "running"
        /\ run'[r][k].fence = run[r][k].fence
        /\ \A s \in Root, j \in Retry :
              s # r \/ j # k => run'[s][j] = run[s][j]
        /\ \A s \in Root, j \in Retry : Latest(s, j)' <=> Latest(s, j)
    <2>1. CASE Progress(c, "reconciling")
      <3>1. MailTaskStep /\ Owns(c) /\ OwnerMoves(c, "running")
        BY <2>1, StaysRunning DEF DeliveryInv
      <3> QED BY <1>6, <3>1 DEF OwnerMoves, Owns
    <2>2. CASE Owns(c) /\ UNCHANGED taskVars
      <3>1. run' = run /\ held' = held
        BY <2>2 DEF taskVars
      <3>2. k \in Retry /\ run[r][k].state = "running"
        BY <2>2, OwnerRow DEF DeliveryInv
      <3>3. \A j \in Retry : Latest(r, j) => j = k
        BY <1>6, <3>2, LiveIsLatest DEF DeliveryInv, Terminal
      <3>4. held[c] # NoClaim
        BY <2>2 DEF Owns
      <3> QED BY <2>2, <3>1, <3>2, <3>3, <3>4 DEF MailTaskStep, Latest
    <2> QED BY <1>4, <2>1, <2>2
  <1>9. /\ stage \in Stage
        /\ stage = "accepted" <=> wire[r][n] = "accepted"
        /\ state \in {"delivered", "delivery_unknown", "permanent_failure",
                      "retry_wait"}
        /\ state = "delivered" => wire[r][n] = "accepted"
        /\ state \in {"permanent_failure", "retry_wait"} =>
              stage \in {"none", "refused", "unsent"}
    BY <1>2, OutcomeKnown, Zenon
  <1>10. wait \in Nat /\ limited \in BOOLEAN
    BY BoundsAreNatural
  <1> HIDE DEF r, k, n, state, limited
  <1>11. /\ row \in Message /\ row.state = state
         /\ row.attempt = msg[r].attempt /\ row.retry = msg[r].retry
         /\ row.fence = msg[r].fence /\ occ \in Occurrence
         /\ MailOK(row, occ, paused)
    BY <1>2, <1>5, <1>6, <1>9, <1>10, OutcomeRow
  <1>12. done \in Job /\ done.pc = "settled"
    BY <1>9 DEF Idle, Job, Pc, Settled
  <1> HIDE DEF row, occ, done
  <1>13. wire' = [wire EXCEPT ![r][n] = stage]
    BY <1>3, <1>5, <1>6
  <1> HIDE DEF stage
  <1>14. /\ wire' \in [Root -> [Attempt -> Stage]]
         /\ wire'[r][n] = stage
         /\ \A b \in Attempt : b # n => wire'[r][b] = wire[r][b]
         /\ \A s \in Root : s # r => wire'[s] = wire[s]
    BY <1>5, <1>6, <1>9, <1>13, OneStage
  <1>15. /\ msg'[r] = row /\ occurrence'[r] = occ
         /\ \A s \in Root : s # r => msg'[s] = msg[s]
                                  /\ occurrence'[s] = occurrence[s]
         /\ msg' = [s \in Root |-> msg'[s]]
         /\ occurrence' = [s \in Root |-> occurrence'[s]]
    BY <1>2, <1>5, <1>6, <1>11, OneRow
  <1>16. /\ job' \in [Consumer -> Job] /\ job'[c] = done
         /\ \A d \in Consumer : d # c => job'[d] = job[d]
    BY <1>2, <1>5, <1>12
  <1>17. /\ ruledOut' \in [Root -> SUBSET Attempt]
         /\ \A s \in Root : s # r => ruledOut'[s] = ruledOut[s]
         /\ state \in {"retry_wait", "permanent_failure"} =>
               ruledOut'[r] = ruledOut[r] \cup {n}
         /\ state \notin {"retry_wait", "permanent_failure"} =>
               ruledOut'[r] = ruledOut[r]
    BY <1>2, <1>5, <1>6
  <1>18. DeliveryTypeOK'
    <2>1. \A s \in Root : msg'[s] \in Message /\ occurrence'[s] \in Occurrence
      BY <1>5, <1>11, <1>15
    <2>2. msg' \in [Root -> Message] /\ occurrence' \in [Root -> Occurrence]
      BY <1>15, <2>1
    <2> QED BY <1>7, <1>14, <1>16, <1>17, <2>2 DEF DeliveryInv, DeliveryTypeOK
  <1>19. \A s \in Root : MailOK(msg'[s], occurrence'[s], paused')
    BY <1>7, <1>11, <1>15 DEF DeliveryInv
  <1>20. ASSUME NEW s \in Root, s = r PROVE LedgerOK(s)'
    <2>1. \A a \in Attempt : wire'[s][a] # "none" => a <= msg'[s].attempt
      <3>1. n <= n
        BY <1>6 DEF Attempt
      <3> QED BY <1>6, <1>11, <1>14, <1>15, <1>20, <3>1 DEF LedgerOK
    <2>2. \A a \in ruledOut'[s] :
             a <= msg'[s].attempt /\ wire'[s][a] \in {"none", "refused", "unsent"}
      <3>1. n <= n
        BY <1>6 DEF Attempt
      <3>2. \A a \in ruledOut[r] : a \in Attempt /\ wire'[r][a] = wire[r][a]
        BY <1>5, <1>6, <1>14
      <3> QED BY <1>6, <1>9, <1>11, <1>14, <1>15, <1>17, <1>20, <3>1, <3>2
              DEF LedgerOK
    <2>3. \A a \in Attempt : a < msg'[s].attempt => Sure(s, a)'
      BY <1>6, <1>7, <1>11, <1>15, <1>17, <1>20 DEF LedgerOK, Sure
    <2>4. msg'[s].state \in Unsent \cup {"permanent_failure", "cancelled"}
             => msg'[s].attempt = 0 \/ Sure(s, msg[s].attempt)'
      BY <1>6, <1>9, <1>11, <1>15, <1>17, <1>20 DEF Sure, Unsent
    <2>5. msg'[s].state = "delivered" =>
             msg'[s].attempt \in Accepted'[s] \cup answered'[s]
      BY <1>6, <1>9, <1>11, <1>14, <1>15, <1>20 DEF Accepted
    <2> QED BY <2>1, <2>2, <2>3, <2>4, <2>5 DEF LedgerOK
  <1>21. \A s \in Root : LedgerOK(s)'
    <2>1. ASSUME NEW s \in Root, s # r PROVE LedgerKept(s)
      BY <1>7, <1>14, <1>15, <1>17, <2>1 DEF LedgerKept
    <2> QED BY <1>20, <2>1, LedgerFrame DEF DeliveryInv
  <1>22. NoSubmission
    BY <1>2, <1>9, <1>11, <1>15 DEF NoSubmission, Uncertain
  <1>23. ASSUME NEW d \in Consumer, d # c PROVE JobKept(d)
    <2>1. job'[d] = job[d] /\ held'[d] = held[d]
      BY <1>8, <1>16, <1>23
    <2>2. ASSUME InFlight(d)
          PROVE  /\ job[d].attempt \notin ruledOut'[held[d].root]
                 /\ job[d].pc = "submitted" =>
                       wire'[held[d].root][job[d].attempt] = "none"
      <3>1. /\ held[d].root \in Root /\ job[d].attempt \in Attempt
            /\ job[d].attempt \notin ruledOut[held[d].root]
            /\ job[d].pc = "submitted"
                  => wire[held[d].root][job[d].attempt] = "none"
        BY <2>2, FlightKnown
      <3>2. ~(held[d].root = r /\ job[d].attempt = n)
        BY <1>2, <1>23, <2>2 DEF DeliveryInv, FlightsOK, r, n
      <3> QED BY <1>14, <1>17, <3>1, <3>2
    <2> QED BY <2>1, <2>2 DEF JobKept
  <1>24. JobLeft(c)
    BY <1>8, <1>12, <1>16 DEF JobLeft
  <1>25. FlightsOK' /\ OneUncertainPerFamily'
    BY <1>22, <1>23, <1>24, FlightsFrame, UncertainFrame DEF DeliveryInv
  <1>26. RunsFollow'
    <2>1. ASSUME NEW s \in Root, NEW j \in Retry, Latest(s, j)'
          PROVE  Strand(msg'[s], j, run'[s][j])
      <3>1. Latest(s, j)
        BY <1>8, <2>1
      <3>2. CASE s = r
        <4>1. j = k
          BY <1>8, <3>1, <3>2
        <4> QED BY <1>2, <1>8, <1>9, <1>11, <1>15, <3>2, <4>1 DEF Strand, Unsent
      <3>3. CASE s # r
        BY <1>8, <1>15, <3>1, <3>3 DEF DeliveryInv, RunsFollow
      <3> QED BY <3>2, <3>3
    <2> QED BY <2>1 DEF RunsFollow
  <1>27. TaskInv' /\ NoneOpen'
    BY <1>8, TaskStepHolds DEF DeliveryInv
  <1> QED BY <1>18, <1>19, <1>21, <1>25, <1>26, <1>27 DEF DeliveryInv

-----------------------------------------------------------------------------
(* The invariant of the whole.                                             *)

\* Nothing exists yet: no message, no attempt, no flight.
LEMMA MailInitHolds == DeliveryInit => DeliveryInv
  <1> SUFFICES ASSUME DeliveryInit PROVE DeliveryInv
    OBVIOUS
  <1> USE DeliveryBounds, RetryIsNat
  <1>1. TaskInv
    BY InitHolds DEF DeliveryInit
  <1>2. NoneOpen
    BY DEF DeliveryInit, TaskInit, NoneOpen
  <1>3. NoMessage \in Message /\ Idle \in Job
    <2>1. 0 \in Retry
      BY DEF Retry
    <2> QED BY <2>1 DEF NoMessage, Message, Idle, Job, Pc
  <1>4. DeliveryTypeOK
    BY <1>3 DEF DeliveryInit, DeliveryTypeOK, Occurrence, Stage
  <1>10. ASSUME NEW r \in Root
         PROVE  /\ msg[r] = NoMessage /\ occurrence[r] = "none" /\ ~paused
                /\ ruledOut[r] = {} /\ answered[r] = {}
                /\ \A a \in Attempt : wire[r][a] = "none"
    BY DEF DeliveryInit
  <1>5. ASSUME NEW r \in Root PROVE MailOK(msg[r], occurrence[r], paused)
    <2>1. /\ msg[r].state = "none" /\ msg[r].attempt = 0 /\ ~msg[r].hold
      BY <1>10 DEF NoMessage
    <2>2. occurrence[r] = "none" /\ ~paused
      BY <1>10
    <2> QED BY <2>1, <2>2 DEF MailOK, Unsent, Uncertain
  <1>6. OneUncertainPerFamily
    BY DEF DeliveryInit, NoMessage, OneUncertainPerFamily, Uncertain
  <1>7. RunsFollow
    BY DEF DeliveryInit, NoMessage, RunsFollow, Strand, Unsent
  <1>8. ASSUME NEW r \in Root PROVE LedgerOK(r)
    <2>1. msg[r].state = "none" /\ msg[r].attempt = 0
      BY <1>10 DEF NoMessage
    <2>2. \A a \in Attempt : ~(a < 0)
      BY DEF Attempt
    <2> QED BY <1>10, <2>1, <2>2 DEF LedgerOK, Unsent
  <1>9. FlightsOK
    BY DEF DeliveryInit, Idle, FlightsOK, InFlight
  <1> QED BY <1>1, <1>2, <1>4, <1>5, <1>6, <1>7, <1>8, <1>9 DEF DeliveryInv

\* Seen from the task engine, every step here is one of its own, or ends the
\* waiting runs of withdrawn mail.
LEMMA MailStepIsTaskStep ==
    ASSUME DeliveryInv, [DeliveryNext]_vars
    PROVE  MailTaskStep
  <1>8. TaskInv
    BY DEF DeliveryInv
  <1>1. ASSUME NEW c \in Consumer, Dispatch(c) PROVE MailTaskStep
    <2>1. CASE \E r \in Root, k \in Retry : ClaimMail(c, r, k)
      BY <2>1, <1>8, ConsumerSide DEF ClaimMail
    <2>2. CASE RenewMail(c) \/ ReadMessage(c) \/ HoldBack(c)
      BY <2>2, <1>8, ConsumerSide DEF RenewMail, ReadMessage, HoldBack
    <2>3. CASE \E wait \in 1..WaitTicks :
                  Park(c, wait) \/ PreparationFails(c, wait) \/ Conclude(c, wait)
      BY <2>3, <1>8, ConsumerSide DEF Park, PreparationFails, Conclude, Terminal
    <2>4. CASE FinishNoSend(c)
      BY <2>4, <1>8, ConsumerSide DEF FinishNoSend, Terminal
    <2>5. CASE LetGoMail(c)
      BY <2>5, <1>8, ConsumerSide DEF LetGoMail
    <2>6. CASE \/ NoSend(c) \/ Launch(c)
               \/ \E gone \in SUBSET Root : NotSelected(c, gone)
               \/ \E gone \in SUBSET Root : Submit(c, gone)
      BY <2>6 DEF NoSend, Launch, NotSelected, Submit, MailTaskStep
    <2>7. CASE SettleSome(c)
      <3>1. Progress(c, "reconciling") \/ UNCHANGED taskVars
        BY <2>7 DEF SettleSome, Settle
      <3> QED BY <3>1, <1>8, ConsumerSide DEF MailTaskStep
    <2> QED BY <1>1, <2>1, <2>2, <2>3, <2>4, <2>5, <2>6, <2>7 DEF Dispatch
  <1>2. ASSUME NEW r \in Root, NEW k \in Retry, RecoverSomeMail(r, k)
        PROVE  MailTaskStep
    <2>1. PICK wait \in 1..WaitTicks : Recover(r, k, RecoveryPlan(r, k), wait)
      BY <1>2 DEF RecoverSomeMail, RecoverMail
    <2>2. RecoveryPlan(r, k) \in Plans
      <3>1. msg[r] \in Message /\ msg[r].state # "none"
        BY <1>2 DEF DeliveryInv, DeliveryTypeOK, RecoverSomeMail, RecoverMail
      <3> QED BY <3>1, PlanOf
    <2> QED BY <2>1, <2>2, ServiceSide
  <1>3. ASSUME NEW r \in Root, Administer(r) PROVE MailTaskStep
    <2>1. CASE \E wait \in 0..WaitTicks : Create(r, wait)
      <3>1. 0 \in Retry
        BY RetryIsNat DEF Retry
      <3> QED BY <2>1, <3>1, ServiceSide DEF Create
    <2>2. CASE \E k \in Retry : AcceptUnknown(r, k) \/ ConfirmUnsent(r, k)
      BY <2>2 DEF AcceptUnknown, ConfirmUnsent, MailTaskStep
    <2>3. CASE \E k \in Retry, command \in Command :
                  \/ Resend(r, k, command) \/ RetryFailedMail(r, k, command)
                  \/ RetryUnsent(r, k, command)
      BY <2>3, ServiceSide DEF Resend, RetryFailedMail, RetryUnsent
    <2>4. CASE Withdraw(r)
      BY <2>4 DEF Withdraw, MailTaskStep
    <2> QED BY <1>3, <2>1, <2>2, <2>3, <2>4 DEF Administer
  <1>4. ASSUME Control PROVE MailTaskStep
    BY <1>4 DEF Control, Pause, Resume, EndScope, MailTaskStep
  <1>5. ASSUME MailTick PROVE MailTaskStep
    <2>1. Tick
      BY <1>5, Zenon DEF MailTick
    <2>2. UNCHANGED <<held, open, effects>>
      BY <2>1, Zenon DEF Tick
    <2> QED BY <2>1, <2>2 DEF MailTaskStep, TaskNext
  <1>6. ASSUME NEW r \in Root, NEW a \in Attempt, Transmit(r, a)
        PROVE  MailTaskStep
    BY <1>6 DEF Transmit, MailTaskStep
  <1>7. ASSUME UNCHANGED vars PROVE MailTaskStep
    BY <1>7 DEF vars, MailTaskStep
  <1> QED BY <1>1, <1>2, <1>3, <1>4, <1>5, <1>6, <1>7 DEF DeliveryNext

\* Every step of the consumers, the helpers, recovery, the Administrator, the
\* campaign's controls and the clock keeps the invariant.
LEMMA MailNextHolds ==
    ASSUME DeliveryInv, [DeliveryNext]_vars
    PROVE  DeliveryInv' /\ RowsStand
  <1>1. ASSUME NEW c \in Consumer, Dispatch(c) PROVE DeliveryInv'
    BY <1>1, ClaimHolds, RenewHolds, ReadHolds, GiveBackHolds, NoSendHolds,
       FinishNoSendHolds, SubmitHolds, LaunchHolds, SettleHolds, LetGoHolds
       DEF Dispatch
  <1>2. ASSUME NEW r \in Root, NEW a \in Attempt, Transmit(r, a)
        PROVE  DeliveryInv'
    BY <1>2, TransmitHolds
  <1>3. ASSUME NEW r \in Root, NEW k \in Retry, RecoverSomeMail(r, k)
        PROVE  DeliveryInv'
    BY <1>3, RecoverHolds DEF RecoverSomeMail
  <1>4. ASSUME NEW r \in Root, Administer(r) PROVE DeliveryInv'
    BY <1>4, CreateHolds, ResolveHolds, ResendHolds, RetryUnsentHolds,
       WithdrawHolds DEF Administer
  <1>5. ASSUME Control PROVE DeliveryInv'
    BY <1>5, PauseHolds, ResumeHolds, EndScopeHolds DEF Control
  <1>6. ASSUME MailTick PROVE DeliveryInv'
    BY <1>6, TickHolds
  <1>7. ASSUME UNCHANGED vars PROVE DeliveryInv'
    <2>1. /\ run' = run /\ held' = held /\ msg' = msg /\ job' = job
          /\ deferrals' = deferrals /\ wire' = wire
          /\ ruledOut' = ruledOut /\ UNCHANGED taskVars
          /\ UNCHANGED <<msg, occurrence, wire, environment, history>>
      BY <1>7 DEF vars, taskVars, mailVars, history
    <2>2. RunsFollow'
      BY <2>1, SameRunsFollow DEF DeliveryInv
    <2>3. \A d \in Consumer : JobKept(d)
      BY <2>1, OthersKept DEF DeliveryInv
    <2>4. deferrals' \in [Root -> [Retry -> Nat]] /\ job' \in [Consumer -> Job]
      BY <2>1 DEF DeliveryInv, DeliveryTypeOK
    <2> QED BY <2>1, <2>2, <2>3, <2>4, QuietHolds DEF MailTaskStep
  <1>8. DeliveryInv'
    BY <1>1, <1>2, <1>3, <1>4, <1>5, <1>6, <1>7 DEF DeliveryNext
  <1>9. RowsStand
    BY MailStepIsTaskStep, TaskStepHolds DEF DeliveryInv
  <1> QED BY <1>8, <1>9

\* DeliveryInv is an invariant.
THEOREM DeliveryInvHolds == DeliverySpec => []DeliveryInv
  <1>1. DeliveryInv /\ [DeliveryNext]_vars => DeliveryInv'
    BY MailNextHolds
  <1> QED BY <1>1, MailInitHolds, PTL DEF DeliverySpec

\* The outbox rows, the dispatching programs and the wire keep their types,
\* in particular no attempt counter passes the attempts the wire knows.
THEOREM MailTypesHold == DeliverySpec => []DeliveryTypeOK
  <1>1. DeliveryInv => DeliveryTypeOK
    BY DEF DeliveryInv
  <1> QED BY <1>1, DeliveryInvHolds, PTL

\* During a pause every unsent message carries the pause's hold and no other
\* does, whatever outcome, resend or recovery races the pause and its end.
THEOREM PausesHoldUnsent == DeliverySpec => []PauseHoldsUnsent
  <1>1. DeliveryInv => PauseHoldsUnsent
    <2>1. ASSUME NEW r \in Root, MailOK(msg[r], occurrence[r], paused)
          PROVE  msg[r].hold <=> paused /\ msg[r].state \in Unsent
      BY <2>1 DEF MailOK
    <2> QED BY <2>1, Zenon DEF DeliveryInv, PauseHoldsUnsent
  <1> QED BY <1>1, DeliveryInvHolds, PTL

\* The schedule's record of a message agrees with the outbox's after every
\* path that moves either, so the conflict guard never blocks a schedule.
THEOREM OccurrencesAgree == DeliverySpec => []OccurrenceAgrees
  <1>1. DeliveryInv => OccurrenceAgrees
    <2>1. ASSUME NEW r \in Root, MailOK(msg[r], occurrence[r], paused)
          PROVE  /\ msg[r].state = "delivered" => occurrence[r] = "succeeded"
                 /\ msg[r].state = "permanent_failure" =>
                       occurrence[r] = "failed"
                 /\ msg[r].state = "delivery_unknown"
                       <=> occurrence[r] = "delivery_unknown"
                 /\ msg[r].state = "submitting" <=> occurrence[r] = "running"
                 /\ msg[r].state \in Unsent <=> occurrence[r] = "pending"
                 /\ msg[r].state = "cancelled" => occurrence[r] # "succeeded"
      BY <2>1 DEF MailOK
    <2> QED BY <2>1, Zenon DEF DeliveryInv, OccurrenceAgrees
  <1> QED BY <1>1, DeliveryInvHolds, PTL

\* At most one message of a Family is on its way or of unknown outcome,
\* however many consumers prepare and submit its messages.
THEOREM UncertaintyIsAlone == DeliverySpec => []OneUncertainPerFamily
  <1>1. DeliveryInv => OneUncertainPerFamily
    BY DEF DeliveryInv
  <1> QED BY <1>1, DeliveryInvHolds, PTL

\* Whatever state a message is in, the latest run of its chain can still move
\* it on: no mail is left behind a run that no transition can leave.
THEOREM MailIsNotStranded == DeliverySpec => []NoMailStranded
  <1>1. DeliveryInv => NoMailStranded
    <2> SUFFICES ASSUME DeliveryInv, NEW r \in Root, NEW k \in Retry,
                        Latest(r, k)
                 PROVE  LET state == run[r][k].state
                        IN  CASE msg[r].state = "submitting" ->
                                    /\ k = msg[r].retry
                                    /\ state \in {"running", "abandoned"}
                                    /\ state = "running" =>
                                          run[r][k].fence = msg[r].fence
                              [] msg[r].state \in {"delivery_unknown",
                                                   "permanent_failure"} ->
                                    /\ k = msg[r].retry
                                    /\ state \in {"running", "abandoned",
                                                  "failed"}
                              [] msg[r].state \in Unsent ->
                                    state \notin {"succeeded", "cancelled"}
                              [] OTHER -> TRUE
      BY DEF NoMailStranded
    <2>1. Strand(msg[r], k, run[r][k])
      BY DEF DeliveryInv, RunsFollow
    <2> QED BY <2>1 DEF Strand, Unsent
  <1> QED BY <1>1, DeliveryInvHolds, PTL

\* What the outbox reports is true or an Administrator said it: a delivered
\* message's last attempt was accepted, and mail reported unsent, failed or
\* cancelled reached nobody by any of its attempts.
THEOREM ReportsAreTrue == DeliverySpec => []ReportIsTrue
  <1>1. DeliveryInv => ReportIsTrue
    <2> SUFFICES ASSUME DeliveryInv, NEW r \in Root
                 PROVE  /\ msg[r].state = "delivered" =>
                              msg[r].attempt \in Accepted[r] \cup answered[r]
                        /\ msg[r].state \in
                              Unsent \cup {"permanent_failure", "cancelled"} =>
                              Accepted[r] \subseteq answered[r]
      BY Zenon DEF ReportIsTrue
    <2>1. LedgerOK(r) /\ msg[r].attempt \in Nat
      BY DEF DeliveryInv, DeliveryTypeOK, Message
    <2>2. ASSUME msg[r].state \in Unsent \cup {"permanent_failure", "cancelled"},
                 NEW a \in Accepted[r]
          PROVE  a \in answered[r]
      <3>1. a \in Attempt /\ wire[r][a] = "accepted"
        BY <2>2 DEF Accepted
      <3>2. a <= msg[r].attempt /\ a \notin ruledOut[r]
        BY <2>1, <3>1 DEF LedgerOK
      <3>3. a < msg[r].attempt \/ a = msg[r].attempt
        BY <2>1, <3>1, <3>2 DEF Attempt
      <3>4. msg[r].attempt # 0
        BY <3>1, <3>3 DEF Attempt
      <3> QED BY <2>1, <2>2, <3>1, <3>2, <3>3, <3>4 DEF LedgerOK, Sure
    <2> QED BY <2>1, <2>2 DEF LedgerOK
  <1> QED BY <1>1, DeliveryInvHolds, PTL

\* Composed with mail, which also ends runs behind the engine's back, the task
\* engine keeps what it promises alone: one live run per chain, each retry
\* command bound once, each fence with one owner.
THEOREM MailKeepsChains ==
    DeliverySpec => []OnlyLatestLives /\ []CommandBindsOnce /\ []OneOwnerPerFence
  <1>1. DeliveryInv => OnlyLatestLives /\ CommandBindsOnce /\ OneOwnerPerFence
    BY DEF DeliveryInv, TaskInv
  <1> QED BY <1>1, DeliveryInvHolds, PTL

\* ...and no mail step rewrites a run that has ended, moves a fence back or
\* changes who owned it.
THEOREM MailKeepsHistory == DeliverySpec => [][RowsStand]_vars
  <1>1. DeliveryInv /\ [DeliveryNext]_vars => [RowsStand]_vars
    BY MailNextHolds
  <1> QED BY <1>1, DeliveryInvHolds, PTL DEF DeliverySpec

-----------------------------------------------------------------------------
(* The refinement of SendOnce: what it calls started is the attempt counter *)
(* of the row, and what it calls accepted is what the wire says.            *)

\* A step that starts, accepts and closes no attempt is a stutter.
LEMMA NothingSent ==
    ASSUME \A r \in Root : msg'[r].attempt = msg[r].attempt,
           Accepted' = Accepted, ruledOut' = ruledOut, answered' = answered
    PROVE  UNCHANGED SendOnce!sendVars
  <1>1. Started' = Started
    BY DEF Started
  <1> QED BY <1>1 DEF SendOnce!sendVars

\* Replacing one row by one with the same attempt.
LEMMA SameAttempt ==
    ASSUME msg \in [Root -> Message], NEW r \in Root, NEW m,
           m.attempt = msg[r].attempt, PutMail(r, m)
    PROVE  \A s \in Root : msg'[s].attempt = msg[s].attempt
  BY DEF PutMail

\* What the dispatching consumer does.
LEMMA DispatchRefines ==
    ASSUME DeliveryInv, NEW c \in Consumer, Dispatch(c)
    PROVE  [SendOnce!SendNext]_(SendOnce!sendVars)
  <1>1. /\ msg \in [Root -> Message] /\ wire \in [Root -> [Attempt -> Stage]]
        /\ ruledOut \in [Root -> SUBSET Attempt]
        /\ answered \in [Root -> SUBSET Attempt]
    BY DEF DeliveryInv, DeliveryTypeOK
  <1>2. ASSUME UNCHANGED <<msg, wire, history>>
        PROVE  [SendOnce!SendNext]_(SendOnce!sendVars)
    BY <1>2, NothingSent DEF Accepted, history
  <1>3. CASE \/ \E r \in Root, k \in Retry : ClaimMail(c, r, k)
             \/ RenewMail(c) \/ ReadMessage(c) \/ HoldBack(c)
             \/ FinishNoSend(c) \/ LetGoMail(c)
             \/ \E wait \in 1..WaitTicks :
                   Park(c, wait) \/ PreparationFails(c, wait) \/ Conclude(c, wait)
    <2>1. UNCHANGED <<msg, wire, history>>
      BY <1>3 DEF ClaimMail, RenewMail, ReadMessage, HoldBack, FinishNoSend,
                  LetGoMail, Park, PreparationFails, Conclude, mailVars
    <2> QED BY <1>2, <2>1
  <1>4. CASE NoSend(c) \/ \E gone \in SUBSET Root : NotSelected(c, gone)
    <2>1. UNCHANGED <<wire, history>> /\ Owns(c)
      BY <1>4 DEF NoSend, NotSelected
    <2>2. held[c].root \in Root
      BY <2>1, OwnerRow DEF DeliveryInv
    <2>3. ASSUME NEW gone, CancelMail(gone), NEW s \in Root
          PROVE  msg'[s].attempt = msg[s].attempt
      <3>1. msg'[s] = IF s \in gone THEN Cancelled(msg[s]) ELSE msg[s]
        BY <2>3 DEF CancelMail
      <3> QED BY <1>1, <3>1 DEF Cancelled, Message
    <2>4. ASSUME PutMail(held[c].root, [Mail(c) EXCEPT !.hold = TRUE])
          PROVE  \A s \in Root : msg'[s].attempt = msg[s].attempt
      BY <1>1, <2>2, <2>4 DEF PutMail, Mail, Message
    <2>5. \A s \in Root : msg'[s].attempt = msg[s].attempt
      BY <1>4, <2>3, <2>4 DEF NoSend, NotSelected
    <2> QED BY <2>1, <2>5, NothingSent DEF Accepted, history
  <1>5. CASE Launch(c)
    <2>1. /\ InFlight(c) /\ job[c].pc = "submitted"
          /\ wire' = [wire EXCEPT ![held[c].root][job[c].attempt] = "connecting"]
          /\ UNCHANGED <<msg, history>>
      BY <1>5 DEF Launch, InFlight
    <2>2. /\ held[c].root \in Root /\ job[c].attempt \in Attempt
          /\ wire[held[c].root][job[c].attempt] = "none"
      BY <2>1, FlightKnown
    <2>3. \A r \in Root, a \in Attempt :
             wire'[r][a] = "accepted" <=> wire[r][a] = "accepted"
      BY <1>1, <2>1, <2>2
    <2>4. Accepted' = Accepted
      BY <2>3 DEF Accepted
    <2> QED BY <2>1, <2>4, NothingSent DEF history
  <1>6. CASE \E gone \in SUBSET Root : Submit(c, gone)
    <2> DEFINE r == held[c].root
    <2>1. PICK gone \in SUBSET Root : Submit(c, gone)
      BY <1>6
    <2>2. /\ Owns(c) /\ msg[r].state \in Unsent
          /\ gone \subseteq Pending \ {r}
          /\ UNCHANGED <<wire, history>>
      BY <2>1 DEF Submit, Mail
    <2>3. r \in Root
      BY <2>2, OwnerRow DEF DeliveryInv
    <2>4. /\ msg'[r].attempt = msg[r].attempt + 1
          /\ \A s \in Root : s # r => msg'[s].attempt = msg[s].attempt
      <3> DEFINE m == [msg[r] EXCEPT !.state = "submitting",
                                     !.attempt = msg[r].attempt + 1,
                                     !.retry = held[c].retry,
                                     !.fence = held[c].fence,
                                     !.worker = c,
                                     !.deadline = DeadlineTicks,
                                     !.hold = FALSE]
      <3>1. msg' = [s \in Root |-> CASE s = r -> m
                                     [] s \in gone -> Cancelled(msg[s])
                                     [] OTHER -> msg[s]]
        BY <2>1 DEF Submit, Mail
      <3> HIDE DEF r
      <3>4. m.attempt = msg[r].attempt + 1
        BY <1>1, <2>3 DEF Message
      <3> HIDE DEF m
      <3>2. msg'[r].attempt = msg[r].attempt + 1
        <4>1. r \notin gone
          BY <2>2
        <4>2. msg'[r] = m
          BY <2>3, <3>1, <4>1
        <4> QED BY <3>4, <4>2
      <3>3. ASSUME NEW s \in Root, s # r
            PROVE  msg'[s].attempt = msg[s].attempt
        <4>1. msg'[s] = IF s \in gone THEN Cancelled(msg[s]) ELSE msg[s]
          BY <3>1, <3>3
        <4> QED BY <1>1, <4>1 DEF Cancelled, Message
      <3> QED BY <3>2, <3>3
    <2>5. msg[r].attempt = 0 \/ msg[r].attempt \in ruledOut[r] \cup answered[r]
      <3>1. LedgerOK(r)
        BY <2>3 DEF DeliveryInv
      <3> QED BY <2>2, <3>1 DEF LedgerOK, Sure
    <2> HIDE DEF r
    <2>6. Started' = [Started EXCEPT ![r] = @ + 1]
      BY <2>3, <2>4 DEF Started
    <2>7. Accepted' = Accepted /\ ruledOut' = ruledOut /\ answered' = answered
      BY <2>2 DEF Accepted, history
    <2>8. Started[r] = 0 \/ Started[r] \in ruledOut[r] \cup answered[r]
      BY <2>3, <2>5 DEF Started
    <2>9. SendOnce!Start(r)
      BY <2>6, <2>7, <2>8 DEF SendOnce!Start, SendOnce!Closed
    <2> QED BY <2>3, <2>9 DEF SendOnce!SendNext
  <1>7. CASE SettleSome(c)
    <2> DEFINE r == held[c].root
               n == job[c].attempt
    <2>1. PICK outcome \in {"accepted", "transient", "limited", "permanent",
                            "unknown"},
               spent \in BOOLEAN, wait \in 1..WaitTicks :
                  Settle(c, outcome, spent, wait)
      BY <1>7 DEF SettleSome
    <2> DEFINE state == Target(outcome, spent)
               limited == outcome = "limited"
               row == OutcomeMail(msg[r], state, wait, limited)
    <2>2. /\ InFlight(c) /\ outcome \in Outcomes(c)
          /\ msg[r].state = "submitting" /\ msg[r].worker = c
          /\ PutMail(r, row) /\ answered' = answered
          /\ ruledOut' = IF state \in {"retry_wait", "permanent_failure"}
                         THEN [ruledOut EXCEPT ![r] = @ \cup {msg[r].attempt}]
                         ELSE ruledOut
      BY <2>1 DEF Settle, Mail, InFlight, OutcomeMail
    <2>3. wire' = [wire EXCEPT ![r][n] = Killed(@)]
      BY <2>1 DEF Settle
    <2>4. /\ r \in Root /\ n \in Attempt /\ n = msg[r].attempt
          /\ msg[r] \in Message /\ MailOK(msg[r], occurrence[r], paused)
          /\ paused \in BOOLEAN /\ wait \in Nat /\ limited \in BOOLEAN
      <3>1. r \in Root /\ n \in Attempt
        BY <2>2, FlightKnown
      <3>2. n = msg[r].attempt
        BY <2>2 DEF DeliveryInv, FlightsOK, Mail
      <3> QED BY <3>1, <3>2, BoundsAreNatural DEF DeliveryInv, DeliveryTypeOK
    <2>5. /\ Killed(wire[r][n]) = "accepted" <=> wire[r][n] = "accepted"
          /\ state \in {"delivered", "delivery_unknown", "permanent_failure",
                        "retry_wait"}
          /\ state \in {"permanent_failure", "retry_wait"} =>
                Killed(wire[r][n]) \in {"none", "refused", "unsent"}
      BY <2>2, OutcomeKnown, Zenon
    <2> HIDE DEF r, n, state, limited
    <2>6. row.attempt = msg[r].attempt
      BY <2>2, <2>4, <2>5, OutcomeRow
    <2> HIDE DEF row
    <2>7. \A s \in Root : msg'[s].attempt = msg[s].attempt
      BY <1>1, <2>2, <2>4, <2>6, SameAttempt
    <2>8. \A s \in Root, a \in Attempt :
             wire'[s][a] = "accepted" <=> wire[s][a] = "accepted"
      BY <1>1, <2>3, <2>4, <2>5
    <2>9. Accepted' = Accepted /\ Started' = Started
      BY <2>7, <2>8 DEF Accepted, Started
    <2>10. CASE state \in {"retry_wait", "permanent_failure"}
      <3>1. wire[r][n] # "accepted"
        BY <2>5, <2>10
      <3>2. Started[r] = n /\ n > 0 /\ n \notin Accepted[r]
        BY <2>4, <3>1 DEF Started, Accepted, Attempt
      <3>3. ruledOut' = [ruledOut EXCEPT ![r] = @ \cup {Started[r]}]
        BY <2>2, <2>4, <2>10, <3>2
      <3>4. SendOnce!RuleOut(r)
        BY <2>2, <2>9, <3>2, <3>3 DEF SendOnce!RuleOut
      <3> QED BY <2>4, <3>4 DEF SendOnce!SendNext
    <2>11. CASE state \notin {"retry_wait", "permanent_failure"}
      BY <2>2, <2>7, <2>9, <2>11, NothingSent
    <2> QED BY <2>10, <2>11
  <1> QED BY <1>3, <1>4, <1>5, <1>6, <1>7 DEF Dispatch

\* What recovery and the Administrator do.
LEMMA ServicesRefine ==
    ASSUME DeliveryInv, NEW r \in Root, NEW k \in Retry,
           RecoverSomeMail(r, k) \/ Administer(r)
    PROVE  [SendOnce!SendNext]_(SendOnce!sendVars)
  <1>1. msg \in [Root -> Message] /\ msg[r] \in Message
    BY DEF DeliveryInv, DeliveryTypeOK
  <1>2. ASSUME UNCHANGED <<wire, history>>, NEW m, m.attempt = msg[r].attempt,
               PutMail(r, m)
        PROVE  [SendOnce!SendNext]_(SendOnce!sendVars)
    <2>1. \A s \in Root : msg'[s].attempt = msg[s].attempt
      BY <1>1, <1>2, SameAttempt
    <2> QED BY <1>2, <2>1, NothingSent DEF Accepted, history
  <1>3. ASSUME UNCHANGED <<msg, wire, history>>
        PROVE  [SendOnce!SendNext]_(SendOnce!sendVars)
    BY <1>3, NothingSent DEF Accepted, history
  <1>4. \A state : [msg[r] EXCEPT !.state = state].attempt = msg[r].attempt
    BY <1>1 DEF Message
  <1>5. /\ Requeued(msg[r], "pending").attempt = msg[r].attempt
        /\ Cancelled(msg[r]).attempt = msg[r].attempt
    BY <1>1 DEF Message, Requeued, Cancelled
  <1>6. ASSUME msg[r].state = "delivery_unknown", Answered(r), ruledOut' = ruledOut,
               wire' = wire, NEW m, m.attempt = msg[r].attempt, PutMail(r, m)
        PROVE  [SendOnce!SendNext]_(SendOnce!sendVars)
    <2>1. \A s \in Root : msg'[s].attempt = msg[s].attempt
      BY <1>1, <1>6, SameAttempt
    <2>2. Started' = Started /\ Accepted' = Accepted
      BY <1>6, <2>1 DEF Started, Accepted
    <2>3. Started[r] = msg[r].attempt /\ msg[r].attempt > 0
      <3>1. msg[r].attempt \in Attempt
        BY <1>6, UncertainAttempt DEF Uncertain
      <3> QED BY <3>1 DEF Started, Attempt
    <2>4. SendOnce!Answer(r)
      BY <1>6, <2>2, <2>3 DEF SendOnce!Answer, Answered
    <2> QED BY <2>4 DEF SendOnce!SendNext
  <1>7. CASE RecoverSomeMail(r, k)
    <2>1. /\ UNCHANGED <<wire, history>>
          /\ \/ UNCHANGED msg
             \/ PutMail(r, [msg[r] EXCEPT !.state = "delivery_unknown"])
      BY <1>7 DEF RecoverSomeMail, RecoverMail
    <2> QED BY <1>2, <1>3, <1>4, <2>1
  <1>8. CASE \E wait \in 0..WaitTicks : Create(r, wait)
    <2>1. UNCHANGED <<wire, history>> /\ PutMail(r, Requeued(msg[r], "pending"))
      BY <1>8 DEF Create
    <2> QED BY <1>2, <1>5, <2>1
  <1>9. CASE \E j \in Retry : AcceptUnknown(r, j) \/ ConfirmUnsent(r, j)
    <2>1. PICK state \in {"delivered", "permanent_failure"} :
             /\ PutMail(r, [msg[r] EXCEPT !.state = state])
             /\ msg[r].state = "delivery_unknown" /\ Answered(r)
             /\ ruledOut' = ruledOut /\ wire' = wire
      BY <1>9 DEF AcceptUnknown, ConfirmUnsent
    <2> QED BY <1>4, <1>6, <2>1
  <1>10. CASE \E j \in Retry, command \in Command : Resend(r, j, command)
    <2>1. /\ PutMail(r, Requeued(msg[r], "pending"))
          /\ msg[r].state = "delivery_unknown" /\ Answered(r)
          /\ ruledOut' = ruledOut /\ wire' = wire
      BY <1>10 DEF Resend
    <2> QED BY <1>5, <1>6, <2>1
  <1>11. CASE \E j \in Retry, command \in Command :
                 RetryFailedMail(r, j, command) \/ RetryUnsent(r, j, command)
    <2>1. /\ UNCHANGED <<wire, history>>
          /\ PutMail(r, Requeued(msg[r], "pending")) \/ UNCHANGED msg
      BY <1>11 DEF RetryFailedMail, RetryUnsent, mailVars
    <2> QED BY <1>2, <1>3, <1>5, <2>1
  <1>12. CASE Withdraw(r)
    <2>1. /\ UNCHANGED <<wire, history>>
          /\ PutMail(r, IF msg[r].state \in Unsent THEN Cancelled(msg[r])
                        ELSE msg[r])
      BY <1>12 DEF Withdraw
    <2> QED BY <1>2, <1>5, <2>1
  <1> QED BY <1>7, <1>8, <1>9, <1>10, <1>11, <1>12 DEF Administer

\* What the helper process and the provider do, and what the campaign and the
\* clock do to every row at once.
LEMMA AroundRefines ==
    ASSUME DeliveryInv,
           \/ \E r \in Root, a \in Attempt : Transmit(r, a)
           \/ Control \/ MailTick
    PROVE  [SendOnce!SendNext]_(SendOnce!sendVars)
  <1>1. msg \in [Root -> Message] /\ wire \in [Root -> [Attempt -> Stage]]
    BY DEF DeliveryInv, DeliveryTypeOK
  <1>2. ASSUME \A r \in Root : msg'[r].attempt = msg[r].attempt,
               UNCHANGED <<wire, history>>
        PROVE  [SendOnce!SendNext]_(SendOnce!sendVars)
    BY <1>2, NothingSent DEF Accepted, history
  <1>3. ASSUME NEW r \in Root, NEW a \in Attempt, Transmit(r, a)
        PROVE  [SendOnce!SendNext]_(SendOnce!sendVars)
    <2>1. PICK stage \in {"started", "accepted", "refused"} :
             wire' = [wire EXCEPT ![r][a] = stage]
      BY <1>3 DEF Transmit
    <2>2. /\ wire[r][a] \in {"connecting", "started"}
          /\ UNCHANGED <<msg, history>>
      BY <1>3 DEF Transmit
    <2>3. Started' = Started /\ ruledOut' = ruledOut /\ answered' = answered
      BY <2>2 DEF Started, history
    <2>4. CASE stage = "accepted"
      <3>1. a \in 1..msg[r].attempt /\ a \notin ruledOut[r]
        <4>1. a <= msg[r].attempt /\ a \notin ruledOut[r] /\ msg[r].attempt \in Nat
          BY <1>1, <2>2 DEF DeliveryInv, LedgerOK, Message
        <4> QED BY <4>1 DEF Attempt
      <3>2. ASSUME NEW s \in Root, NEW b \in Attempt
            PROVE  wire'[s][b] = "accepted" <=>
                      wire[s][b] = "accepted" \/ (s = r /\ b = a)
        BY <1>1, <2>1, <2>4
      <3>3. Accepted' = [Accepted EXCEPT ![r] = @ \cup {a}]
        BY <3>2 DEF Accepted
      <3>4. Started[r] = msg[r].attempt
        BY DEF Started
      <3>5. a \in 1..Started[r]
        BY <3>1, <3>4
      <3>6. SendOnce!Accept(r, a)
        BY <2>3, <3>1, <3>3, <3>5 DEF SendOnce!Accept
      <3> QED BY <3>5, <3>6 DEF SendOnce!SendNext
    <2>5. CASE stage # "accepted"
      <3>1. \A s \in Root, b \in Attempt :
               wire'[s][b] = "accepted" <=> wire[s][b] = "accepted"
        BY <1>1, <2>1, <2>2, <2>5
      <3>2. Accepted' = Accepted
        BY <3>1 DEF Accepted
      <3> QED BY <2>2, <2>3, <3>2, NothingSent
    <2> QED BY <2>4, <2>5
  <1>4. CASE Pause
    <2>1. /\ UNCHANGED <<wire, history>>
          /\ msg' = [r \in Root |-> [msg[r] EXCEPT
                       !.hold = @ \/ msg[r].state \in Unsent]]
      BY <1>4 DEF Pause
    <2>2. ASSUME NEW r \in Root PROVE msg'[r].attempt = msg[r].attempt
      BY <1>1, <2>1 DEF Message
    <2> QED BY <1>2, <2>1, <2>2
  <1>5. ASSUME NEW gone \in SUBSET Root, Resume(gone)
        PROVE  [SendOnce!SendNext]_(SendOnce!sendVars)
    <2>1. /\ UNCHANGED <<wire, history>>
          /\ msg' = [r \in Root |-> IF r \in gone THEN Cancelled(msg[r])
                                    ELSE [msg[r] EXCEPT !.hold = FALSE]]
      BY <1>5 DEF Resume
    <2>2. ASSUME NEW r \in Root PROVE msg'[r].attempt = msg[r].attempt
      <3>1. msg'[r] = IF r \in gone THEN Cancelled(msg[r])
                      ELSE [msg[r] EXCEPT !.hold = FALSE]
        BY <2>1
      <3> QED BY <1>1, <3>1 DEF Message, Cancelled
    <2> QED BY <1>2, <2>1, <2>2
  <1>6. CASE \E scope \in Controls \cap {"closed", "replaced"} : EndScope(scope)
    <2>1. UNCHANGED <<msg, wire, history>>
      BY <1>6 DEF EndScope
    <2> QED BY <1>2, <2>1
  <1>7. CASE MailTick
    <2>1. msg' = [r \in Root |-> [msg[r] EXCEPT !.deadline = Elapse(@),
                                                !.wait = Elapse(@)]]
      BY <1>7, Zenon DEF MailTick
    <2>2. UNCHANGED <<occurrence, deferrals, wire, environment, history>>
      BY <1>7, Zenon DEF MailTick
    <2>3. ASSUME NEW r \in Root PROVE msg'[r].attempt = msg[r].attempt
      <3>1. msg'[r] = [msg[r] EXCEPT !.deadline = Elapse(@), !.wait = Elapse(@)]
        BY <2>1, Zenon
      <3> QED BY <1>1, <3>1 DEF Message
    <2> QED BY <1>2, <2>2, <2>3
  <1> QED BY <1>3, <1>4, <1>5, <1>6, <1>7 DEF Control

\* Initially no attempt was started.
LEMMA InitRefines == DeliveryInit => SendOnce!SendInit
  <1> SUFFICES ASSUME DeliveryInit PROVE SendOnce!SendInit
    OBVIOUS
  <1>1. Started = [r \in Root |-> 0]
    BY DEF DeliveryInit, Started, NoMessage
  <1>2. Accepted = [r \in Root |-> {}]
    BY DEF DeliveryInit, Accepted
  <1>3. ruledOut = [r \in Root |-> {}] /\ answered = [r \in Root |-> {}]
    BY DEF DeliveryInit
  <1> QED BY <1>1, <1>2, <1>3 DEF SendOnce!SendInit

\* The outbox, its workers, its helper processes, recovery and the
\* Administrator together implement SendOnce, for any number of messages,
\* consumers and attempts: a further attempt starts only when the one before
\* it is known not to have been accepted, or an Administrator answered for it.
THEOREM MailSendsOnce == DeliverySpec => SendsOnce
  <1>1. DeliveryInv /\ [DeliveryNext]_vars
           => [SendOnce!SendNext]_(SendOnce!sendVars)
    <2> SUFFICES ASSUME DeliveryInv, [DeliveryNext]_vars
                 PROVE  [SendOnce!SendNext]_(SendOnce!sendVars)
      OBVIOUS
    <2>1. CASE UNCHANGED vars
      <3>1. UNCHANGED <<msg, wire, history>>
        BY <2>1 DEF vars, mailVars
      <3> QED BY <3>1, NothingSent DEF Accepted, history
    <2>2. ASSUME NEW r \in Root, Administer(r)
          PROVE  [SendOnce!SendNext]_(SendOnce!sendVars)
      <3>1. 0 \in Retry
        BY RetryIsNat
      <3> QED BY <2>2, <3>1, ServicesRefine
    <2> QED BY <2>1, <2>2, DispatchRefines, ServicesRefine, AroundRefines
            DEF DeliveryNext
  <1> QED BY <1>1, InitRefines, DeliveryInvHolds, PTL
          DEF DeliverySpec, SendsOnce, SendOnce!SendSpec

=============================================================================
