------------------------------ MODULE MCSource ------------------------------
(* What the small instances of the source refreshes share (MCTruth,        *)
(* MCEnds).  The executor and the producer of refreshes share no variable, *)
(* so each is run beside the other's initial state.                        *)
EXTENDS SourceRefresh, RefreshSlots, TLC

CONSTANT Refused   \* a refresh whose load was refused before the run begins

\* Processes, windows and the other requests are interchangeable.
SourceSymmetry ==
  Permutations(Workers) \union Permutations(Requests \ {Refused})
    \union Permutations(Windows)

\* The state after Refused was loaded under fence 2 and refused.
RefusedInit ==
  /\ scope \in Windows
  /\ req = [r \in Requests |->
              [state |-> IF r = Refused THEN "failed" ELSE "absent",
               window |-> scope, tf |-> IF r = Refused THEN 1 ELSE 0,
               live |-> FALSE, attempt |-> IF r = Refused THEN 1 ELSE 0]]
  /\ lease = [owner |-> None, tf |-> 1, fence |-> 2, phase |-> "idle",
              held |-> FALSE, ext |-> FALSE]
  /\ snap = [f \in {2} |-> [r |-> Refused, tf |-> 1, base |-> 0,
                            state |-> "rejected", gen |-> 0, acc |-> 0]]
  /\ current = [snap |-> 0, gen |-> 0]
  /\ worker = [w \in Workers |-> IdleWorker]
  /\ calls = {}
  /\ refusal = 2
  /\ acceptance = [of |-> 0, live |-> FALSE]
  /\ faults = 0 /\ changes = 0

VARIABLE part   \* whose steps this behaviour takes

BothParts ==
  \/ part = "refresh" /\ SourceNext /\ UNCHANGED <<part, refreshVars>>
  \/ part = "slots" /\ SlotsNext /\ UNCHANGED <<part, sourceVars>>

allVars == <<part, sourceVars, refreshVars>>
=============================================================================
