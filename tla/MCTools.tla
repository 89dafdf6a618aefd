------------------------------ MODULE MCTools ------------------------------
(* Small instances of the command-line tools for TLC: the Constant Contact *)
(* synchronization, its daily report and the cron runner.  They share no   *)
(* variable, so each is run beside a state of the others in which nothing  *)
(* moves: an account with nobody in it, no run in the report's window, and *)
(* no runner started.  The report is run for two days of one mapping and   *)
(* for one day of two.                                                     *)
EXTENDS ContactSync, OptOutReport, CronJobs

CONSTANT Newcomer   \* an address that starts on no list

VARIABLE part   \* whose steps this behaviour takes

MCInit ==
    /\ part \in {"sync", "days", "lists", "cron"}
    /\ ContactInit /\ ReportInit /\ JobsInit
    /\ cc.lists[Newcomer] = {} /\ cc.named \subseteq Emails \ {Newcomer}
    /\ part # "sync" => cc.contacts = {} /\ \A t \in Targets : wants[t] = {}

OneMapping == \A r \in Run : view'[r] \subseteq {1}

\* At most one of the runners is signalled.
OneSignalled == \A r, q \in Runner : signals'[r] > 0 /\ signals'[q] > 0 => r = q

MCNext ==
    /\ UNCHANGED part
    /\ \/ part = "sync" /\ ContactNext /\ UNCHANGED <<reportVars, cronVars>>
       \/ part = "days" /\ ReportNext /\ OneMapping /\ UNCHANGED <<contactVars, cronVars>>
       \/ part = "lists" /\ ReportNext /\ today' = 1 /\ UNCHANGED <<contactVars, cronVars>>
       \/ part = "cron" /\ JobsNext /\ OneSignalled /\ UNCHANGED <<contactVars, reportVars>>

MCSpec ==
    /\ MCInit /\ [][MCNext]_<<part, contactVars, reportVars, cronVars>>
    /\ WF_contactVars(part = "sync" /\ SyncStep)
    /\ \A r \in Runner : WF_cronVars(Proceed(r))
=============================================================================
