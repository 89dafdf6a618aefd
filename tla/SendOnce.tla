------------------------------ MODULE SendOnce ------------------------------
(***************************************************************************)
(* What the outbox promises about one message, whatever crashes between    *)
(* its transactions: a further provider attempt starts only when the one   *)
(* before it is known not to have been accepted, or an Administrator has   *)
(* answered for it.  This is the contract jobs/delivery_states.py states   *)
(* in words ("naming a reconciliation or resend action is not evidence     *)
(* that an uncertain delivery may be retried"); Delivery implements it.    *)
(***************************************************************************)
EXTENDS Naturals

CONSTANTS
    Message    \* outbox messages

VARIABLES
    started,   \* attempts handed to the provider so far
    accepted,  \* attempts the provider accepted: mail a Family receives
    ruledOut,  \* attempts the system recorded as definitively not accepted
    answered   \* attempts an Administrator answered for

sendVars == <<started, accepted, ruledOut, answered>>

SendInit ==
    /\ started = [m \in Message |-> 0]
    /\ accepted = [m \in Message |-> {}]
    /\ ruledOut = [m \in Message |-> {}]
    /\ answered = [m \in Message |-> {}]

\* The attempt in doubt is closed by evidence or by an answer.
Closed(m) == started[m] \in ruledOut[m] \cup answered[m]

Start(m) ==
    /\ started[m] = 0 \/ Closed(m)
    /\ started' = [started EXCEPT ![m] = @ + 1]
    /\ UNCHANGED <<accepted, ruledOut, answered>>

\* The provider accepts; nothing bounds how late.
Accept(m, a) ==
    /\ a \in 1..started[m]
    /\ a \notin ruledOut[m]
    /\ accepted' = [accepted EXCEPT ![m] = @ \cup {a}]
    /\ UNCHANGED <<started, ruledOut, answered>>

RuleOut(m) ==
    /\ started[m] > 0
    /\ started[m] \notin accepted[m]
    /\ ruledOut' = [ruledOut EXCEPT ![m] = @ \cup {started[m]}]
    /\ UNCHANGED <<started, accepted, answered>>

Answer(m) ==
    /\ started[m] > 0
    /\ answered' = [answered EXCEPT ![m] = @ \cup {started[m]}]
    /\ UNCHANGED <<started, accepted, ruledOut>>

SendNext ==
    \E m \in Message :
        \/ Start(m)
        \/ \E a \in 1..started[m] : Accept(m, a)
        \/ RuleOut(m)
        \/ Answer(m)

SendSpec == SendInit /\ [][SendNext]_sendVars

-----------------------------------------------------------------------------
\* A Family receives a message twice only if an Administrator answered for
\* every earlier copy: an accepted attempt that is not the last one is in
\* answered, and nothing recorded as not accepted ever was.
DuplicateNeedsConsent ==
    \A m \in Message : \A a \in accepted[m] :
        /\ a \notin ruledOut[m]
        /\ a < started[m] => a \in answered[m]
=============================================================================
