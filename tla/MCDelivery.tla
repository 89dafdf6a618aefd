----------------------------- MODULE MCDelivery -----------------------------
(* A small instance of one Family message for TLC, with its provider       *)
(* attempts, retries and resolutions.  The campaign pauses before the      *)
(* first attempt, if at all; MCTruth has the later pauses.                 *)
EXTENDS Delivery

PausedEarly == paused' /\ ~paused => \A r \in Root : msg[r].attempt = 0

MCNext == DeliveryNext /\ PausedEarly

MCSpec == DeliveryInit /\ [][MCNext]_vars /\ DeliveryFair
=============================================================================
