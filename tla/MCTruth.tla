------------------------------ MODULE MCTruth ------------------------------
(* Small instances of the refreshes of source data and of two Family       *)
(* messages for TLC.  They share no variable, so each is run beside the    *)
(* others' initial state.  The consumers are the workers' values and the   *)
(* messages those of the requests not refused, so that SourceSymmetry is   *)
(* theirs too.                                                             *)
EXTENDS MCSource, Delivery

MCInit ==
  /\ part \in {"refresh", "slots", "mail"}
  /\ RefusedInit /\ SlotsInit /\ DeliveryInit

\* One of the messages is withdrawn, the other beside it, or their scope ends.
OneEnd ==
  /\ \A r, s \in withdrawn' : r = s
  /\ withdrawn' # {} => campaign' = "open"

MCNext ==
  \/ part \in {"refresh", "slots"} /\ BothParts /\ UNCHANGED vars
  \/ part = "mail" /\ DeliveryNext /\ OneEnd /\ UNCHANGED allVars

MCSpec == MCInit /\ [][MCNext]_<<allVars, vars>>
=============================================================================
