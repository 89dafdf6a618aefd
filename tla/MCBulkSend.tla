----------------------------- MODULE MCBulkSend -----------------------------
(* Small instances of the bulk send and of the limits around every send    *)
(* for TLC: the bulk send with one consumer and batches of two messages,   *)
(* or with two consumers that take turns at one message; one execution's   *)
(* lease; the retries of one message; and the daily sending limit.  They   *)
(* share no variable, so each is run beside the others' initial states.    *)
EXTENDS BulkSend, LeaseRenewal, MailGiveUp, DailyCount, TLC

CONSTANTS OtherConsumer, OtherMessage

\* The processes that share the daily limit are interchangeable.
MCSymmetry == Permutations(Sender)

VARIABLE part   \* whose steps this behaviour takes

MCInit ==
  /\ part \in {"batch", "turns", "lease", "retries", "daily"}
  /\ BulkInit /\ LeaseInit /\ GiveUpInit /\ DailyInit

MCNext ==
  \/ /\ part = "batch" /\ BulkNext /\ pc'[OtherConsumer] = "idle"
     /\ UNCHANGED <<part, leaseVars, giveUpVars, dailyVars>>
  \/ /\ part = "turns" /\ BulkNext /\ mail'[OtherMessage].state = "waiting"
     /\ UNCHANGED <<part, leaseVars, giveUpVars, dailyVars>>
  \/ /\ part = "lease" /\ LeaseNext
     /\ UNCHANGED <<part, vars, giveUpVars, dailyVars>>
  \/ /\ part = "retries" /\ GiveUpNext
     /\ UNCHANGED <<part, vars, leaseVars, dailyVars>>
  \/ /\ part = "daily" /\ DailyNext
     /\ UNCHANGED <<part, vars, leaseVars, giveUpVars>>

MCSpec ==
  MCInit /\ [][MCNext]_<<part, vars, leaseVars, giveUpVars, dailyVars>>
=============================================================================
