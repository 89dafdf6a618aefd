------------------------------- MODULE MCEnds -------------------------------
(* Small instances of the refreshes of source data and of the mail         *)
(* circuit for TLC.  They share no variable, so each is run beside a state *)
(* of the other in which nothing moves: no refresh has been asked for, and *)
(* every consumer is inside its first send.                                *)
EXTENDS MCSource, MailCircuit

EveryConsumerSends ==
  /\ circuit = [c \in Consumer |-> Fresh]
  /\ pc = [c \in Consumer |-> "sending"]
  /\ mine = [c \in Consumer |-> NoHalt] /\ marker = NoHalt
  /\ aside = [c \in Consumer |-> NoHalt] /\ written = {} /\ made = 0
  /\ recorded = {} /\ cleared = {} /\ restarts = 0 /\ markerFaults = 0

MCInit ==
  /\ SourceInit /\ SlotsInit
  /\ \/ part = "refresh" /\ EveryConsumerSends
     \/ part = "slots" /\ EveryConsumerSends /\ scope = CHOOSE v \in Windows : TRUE
     \/ part = "circuit" /\ CircuitInit /\ scope = CHOOSE v \in Windows : TRUE

\* A restart of the container and a failing marker file, not both; one of the
\* consumers meets sending limits.
Limited == CHOOSE c \in Consumer : TRUE

CircuitBound ==
  /\ restarts' + markerFaults' <= 1
  /\ \A c \in Consumer \ {Limited} : ~circuit'[c].limited

MCNext ==
  \/ part \in {"refresh", "slots"} /\ BothParts /\ UNCHANGED circuitVars
  \/ part = "circuit" /\ CircuitNext /\ CircuitBound /\ UNCHANGED allVars

MCSpec ==
  MCInit /\ [][MCNext]_<<allVars, circuitVars>> /\ SourceFair /\ CircuitFair
=============================================================================
