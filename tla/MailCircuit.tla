----------------------------- MODULE MailCircuit -----------------------------
(***************************************************************************)
(* The Family mail circuit of the mail-dispatch container                  *)
(* (jobs/family_mail_delivery_tasks.py, DeliveryCircuit), the stop marker  *)
(* its consumer processes share (installer_health.py), and the record and  *)
(* clear of a halt (jobs/mail_halt.py, mail_halt_clear.py).                *)
(*                                                                         *)
(* A consumer is one single-threaded process: it admits a message, sends   *)
(* it and observes the outcome, or makes an idle pass.  Every step here is *)
(* one access to what the consumers share (the marker file, the database)  *)
(* with the process-local work around it.  A marker file is known by the   *)
(* identity its creator made for it, whether or not its contents have been *)
(* written; NoHalt stands for a missing file and for None.                 *)
(***************************************************************************)
EXTENDS Naturals, FiniteSets, FiniteSetsExt

CONSTANTS
    Consumer,     \* the container's mail consumer processes
    NoHalt,
    MaxHalts,     \* bound: halt identities made
    MaxRestarts,  \* bound: restarts of the container
    MaxMarkerFaults     \* bound: marker files that cannot be created or written

ASSUME CircuitAssumption ==
    /\ MaxHalts \in Nat /\ MaxRestarts \in Nat /\ MaxMarkerFaults \in Nat
    /\ NoHalt \notin 1..MaxHalts

\* The main process and at most one companion, which starts no other
\* (runtime_process.py, companion_type and MailConsumer).
ASSUME TwoProcesses ==
    \A c, d, e \in Consumer : c = d \/ d = e \/ c = e

VARIABLES
    circuit,   \* each process's DeliveryCircuit
    pc,        \* where each process stands between two shared accesses
    mine,      \* the identity a process is writing or has just lifted
    marker,    \* the file at shared_stop
    aside,     \* the file each process has renamed aside
    written,   \* the marker files whose contents are complete
    made,      \* how many identities exist
    recorded,  \* stewardship_mail_halt
    cleared,   \* stewardship_mail_halt_clear
    restarts,
    markerFaults

files == <<marker, aside, written>>
tables == <<recorded, cleared>>
circuitVars == <<circuit, pc, mine, files, made, tables, restarts, markerFaults>>

Halt == 1..MaxHalts
MaybeHalt == Halt \cup {NoHalt}
Health == {"healthy", "unobserved", "unavailable", "systemic"}
Pc == {"idle", "sending", "seen", "claim", "held", "write", "rename", "inspect",
       "putback"}

\* DeliveryCircuit.__init__.  cooling stands for monotonic() < probe_after,
\* paused for monotonic() < recover_after, limited for limit_remaining() > 0.
Fresh ==
    [stopped |-> FALSE, halted |-> FALSE, failures |-> 0, cooling |-> FALSE,
     paused |-> FALSE, limited |-> FALSE, halt |-> NoHalt]

CircuitInit ==
    /\ circuit = [c \in Consumer |-> Fresh]
    /\ pc = [c \in Consumer |-> "idle"]
    /\ mine = [c \in Consumer |-> NoHalt]
    /\ marker = NoHalt
    /\ aside = [c \in Consumer |-> NoHalt]
    /\ written = {}
    /\ made = 0
    /\ recorded = {}
    /\ cleared = {}
    /\ restarts = 0
    /\ markerFaults = 0

-----------------------------------------------------------------------------
Goto(c, place) == pc' = [pc EXCEPT ![c] = place]
Become(c, state) == circuit' = [circuit EXCEPT ![c] = state]

\* read_stop and read_marker: the identity a file names, if it can be read.
Named(file) == IF file \in written THEN file ELSE NoHalt

Stuck(c) == [circuit[c] EXCEPT !.stopped = TRUE, !.halted = TRUE]

-----------------------------------------------------------------------------
(* Admission: blocks_new_send                                              *)

\* The cooldown has ended: one probe, whose failure would be the third.
Recovered(s) ==
    IF s.halted /\ ~s.stopped /\ ~s.paused
    THEN [s EXCEPT !.halted = FALSE, !.failures = 2, !.cooling = FALSE]
    ELSE s

\* No marker is there: what this process knows decides.
Admit(c) ==
    /\ pc[c] = "idle"
    /\ circuit[c].stopped \/ marker = NoHalt
    /\ LET s == Recovered(circuit[c])
       IN /\ Become(c, s)
          /\ IF s.halted \/ s.cooling \/ s.limited
             THEN UNCHANGED pc
             ELSE Goto(c, "sending")
    /\ UNCHANGED <<mine, files, made, tables, restarts, markerFaults>>

\* _follow_shared_stop: the marker exists, and is then read.
SeeMarker(c) ==
    /\ pc[c] = "idle"
    /\ ~circuit[c].stopped
    /\ marker # NoHalt
    /\ Goto(c, "seen")
    /\ UNCHANGED <<circuit, mine, files, made, tables, restarts, markerFaults>>

Follow(c) ==
    /\ pc[c] = "seen"
    /\ Become(c, [Stuck(c) EXCEPT !.halt = Named(marker)])
    /\ Goto(c, "idle")
    /\ UNCHANGED <<mine, files, made, tables, restarts, markerFaults>>

-----------------------------------------------------------------------------
(* Outcomes: observe and hold                                              *)

\* What an outcome that does not stop or pause leaves behind.
Counted(s, health) ==
    CASE health = "unobserved" -> s
      [] health = "unavailable" ->
             [s EXCEPT !.failures = Min({3, s.failures + 1}), !.cooling = TRUE]
      [] OTHER -> [s EXCEPT !.failures = 0, !.cooling = FALSE]

Tripped(s, health) ==
    health = "systemic" \/ (health = "unavailable" /\ s.failures = 3)

\* A pause starts once: a circuit already halted keeps its recover_after.
Reacted(s, health) ==
    IF Tripped(s, health)
    THEN [s EXCEPT !.halted = TRUE, !.paused = s.paused \/ ~s.halted,
                   !.stopped = s.stopped \/ health = "systemic"]
    ELSE s

\* A SYSTEMIC outcome goes on to _share_stop; only a sending circuit that has
\* not stopped gets here, since a stopped one admits nothing.
Observe(c, health, limit) ==
    /\ pc[c] = "sending"
    /\ LET s == Reacted(Counted(circuit[c], health), health)
       IN Become(c, [s EXCEPT !.limited = s.limited \/ limit])
    /\ Goto(c, IF health = "systemic" THEN "claim" ELSE "idle")
    /\ UNCHANGED <<mine, files, made, tables, restarts, markerFaults>>

\* probe_after, recover_after or limit_until passes.
CoolingEnds(c) ==
    /\ circuit[c].cooling
    /\ Become(c, [circuit[c] EXCEPT !.cooling = FALSE])
    /\ UNCHANGED <<pc, mine, files, made, tables, restarts, markerFaults>>

PauseEnds(c) ==
    /\ circuit[c].paused
    /\ Become(c, [circuit[c] EXCEPT !.paused = FALSE])
    /\ UNCHANGED <<pc, mine, files, made, tables, restarts, markerFaults>>

LimitEnds(c) ==
    /\ circuit[c].limited
    /\ Become(c, [circuit[c] EXCEPT !.limited = FALSE])
    /\ UNCHANGED <<pc, mine, files, made, tables, restarts, markerFaults>>

-----------------------------------------------------------------------------
(* _share_stop and claim_stop                                              *)

\* Mutant: a create that is not exclusive replaces the other's marker.
ClaimMarkerAnyway(c) ==
    /\ pc[c] = "claim"
    /\ made < MaxHalts
    /\ made' = made + 1
    /\ marker' = made + 1
    /\ mine' = [mine EXCEPT ![c] = made + 1]
    /\ Goto(c, "write")
    /\ UNCHANGED <<circuit, aside, written, tables, restarts, markerFaults>>

\* The exclusive create succeeds; the contents follow in a later step.
ClaimMarker(c) ==
    /\ pc[c] = "claim"
    /\ marker = NoHalt
    /\ made < MaxHalts
    /\ made' = made + 1
    /\ marker' = made + 1
    /\ mine' = [mine EXCEPT ![c] = made + 1]
    /\ Goto(c, "write")
    /\ UNCHANGED <<circuit, aside, written, tables, restarts, markerFaults>>

\* The contents reach the file the descriptor was opened on, wherever it is
\* by now.
WriteMarker(c) ==
    /\ pc[c] = "write"
    /\ written' = written \cup {mine[c]}
    /\ Become(c, [circuit[c] EXCEPT !.halt = mine[c]])
    /\ mine' = [mine EXCEPT ![c] = NoHalt]
    /\ Goto(c, "idle")
    /\ UNCHANGED <<marker, aside, made, tables, restarts, markerFaults>>

\* FileExistsError; then the other process's contents, if they can be read.
MarkerHeld(c) ==
    /\ pc[c] = "claim"
    /\ marker # NoHalt
    /\ Goto(c, "held")
    /\ UNCHANGED <<circuit, mine, files, made, tables, restarts, markerFaults>>

TakeHeld(c) ==
    /\ pc[c] = "held"
    /\ Become(c, [circuit[c] EXCEPT !.halt = Named(marker)])
    /\ Goto(c, "idle")
    /\ UNCHANGED <<mine, files, made, tables, restarts, markerFaults>>

\* The directory or the file cannot be created, or the contents not written:
\* the process keeps the identity it made.
ClaimFails(c) ==
    /\ pc[c] = "claim"
    /\ markerFaults < MaxMarkerFaults /\ made < MaxHalts
    /\ made' = made + 1
    /\ Become(c, [circuit[c] EXCEPT !.halt = made + 1])
    /\ markerFaults' = markerFaults + 1
    /\ Goto(c, "idle")
    /\ UNCHANGED <<mine, files, tables, restarts>>

WriteFails(c) ==
    /\ pc[c] = "write"
    /\ markerFaults < MaxMarkerFaults
    /\ Become(c, [circuit[c] EXCEPT !.halt = mine[c]])
    /\ mine' = [mine EXCEPT ![c] = NoHalt]
    /\ markerFaults' = markerFaults + 1
    /\ Goto(c, "idle")
    /\ UNCHANGED <<files, made, tables, restarts>>

-----------------------------------------------------------------------------
(* The idle pass: sync, current_halt and lift                              *)

\* current_halt reads the marker again for a halt that has no identity yet.
Identify(c) ==
    /\ pc[c] = "idle"
    /\ circuit[c].stopped
    /\ circuit[c].halt = NoHalt
    /\ Named(marker) # NoHalt
    /\ Become(c, [circuit[c] EXCEPT !.halt = Named(marker)])
    /\ UNCHANGED <<pc, mine, files, made, tables, restarts, markerFaults>>

\* lift, as far as the process's own state goes.
Lifted(s) ==
    [s EXCEPT !.stopped = FALSE, !.halted = FALSE, !.halt = NoHalt,
              !.failures = 2, !.cooling = FALSE]

\* Mutant: a clear is followed only while the marker names the halt.
SyncByMarker(c) ==
    /\ pc[c] = "idle"
    /\ circuit[c].stopped
    /\ circuit[c].halt # NoHalt
    /\ recorded' = recorded \cup {circuit[c].halt}
    /\ IF circuit[c].halt \in cleared /\ marker = circuit[c].halt
       THEN /\ Become(c, Lifted(circuit[c]))
            /\ mine' = [mine EXCEPT ![c] = circuit[c].halt]
            /\ Goto(c, "rename")
       ELSE UNCHANGED <<circuit, mine, pc>>
    /\ UNCHANGED <<files, made, cleared, restarts, markerFaults>>

\* One transaction records the halt and reads its clear signal.  A failed
\* one is absorbed, and changes nothing.
Sync(c) ==
    /\ pc[c] = "idle"
    /\ circuit[c].stopped
    /\ circuit[c].halt # NoHalt
    /\ recorded' = recorded \cup {circuit[c].halt}
    /\ IF circuit[c].halt \in cleared
       THEN /\ Become(c, Lifted(circuit[c]))
            /\ mine' = [mine EXCEPT ![c] = circuit[c].halt]
            /\ Goto(c, "rename")
       ELSE UNCHANGED <<circuit, mine, pc>>
    /\ UNCHANGED <<files, made, cleared, restarts, markerFaults>>

\* release_stop: whatever marker is there is taken aside first.
RenameAside(c) ==
    /\ pc[c] = "rename"
    /\ marker' = NoHalt
    /\ aside' = [aside EXCEPT ![c] = marker]
    /\ mine' = IF marker = NoHalt THEN [mine EXCEPT ![c] = NoHalt] ELSE mine
    /\ Goto(c, IF marker = NoHalt THEN "idle" ELSE "inspect")
    /\ UNCHANGED <<circuit, written, made, tables, restarts, markerFaults>>

\* The marker of the halt that was lifted goes; another one is put back.
Inspect(c) ==
    /\ pc[c] = "inspect"
    /\ IF Named(aside[c]) = mine[c]
       THEN /\ aside' = [aside EXCEPT ![c] = NoHalt]
            /\ mine' = [mine EXCEPT ![c] = NoHalt]
            /\ Goto(c, "idle")
       ELSE /\ Goto(c, "putback")
            /\ UNCHANGED <<aside, mine>>
    /\ UNCHANGED <<circuit, marker, written, made, tables, restarts, markerFaults>>

\* Mutant: the putback without its link removes the aside name only.
PutBackNothing(c) ==
    /\ pc[c] = "putback"
    /\ aside' = [aside EXCEPT ![c] = NoHalt]
    /\ mine' = [mine EXCEPT ![c] = NoHalt]
    /\ Goto(c, "idle")
    /\ UNCHANGED <<circuit, marker, written, made, tables, restarts, markerFaults>>

\* os.link fails when a newer marker exists, which then stands.
PutBack(c) ==
    /\ pc[c] = "putback"
    /\ marker' = IF marker = NoHalt THEN aside[c] ELSE marker
    /\ aside' = [aside EXCEPT ![c] = NoHalt]
    /\ mine' = [mine EXCEPT ![c] = NoHalt]
    /\ Goto(c, "idle")
    /\ UNCHANGED <<circuit, written, made, tables, restarts, markerFaults>>

-----------------------------------------------------------------------------
(* The Administrator and the container                                     *)

Current == {h \in recorded \ cleared : \A g \in recorded \ cleared : g <= h}

\* clear_halt: the newest recorded halt that has no clear signal.  Whether
\* the mailbox check passed, messages are unsettled or a status record still
\* says Halted decides only when.
ClearHalt(h) ==
    /\ h \in Current
    /\ cleared' = cleared \cup {h}
    /\ UNCHANGED <<circuit, pc, mine, files, made, recorded, restarts, markerFaults>>

\* The main process starts: the marker goes before the second one starts.
Restart ==
    /\ restarts < MaxRestarts
    /\ restarts' = restarts + 1
    /\ circuit' = [c \in Consumer |-> Fresh]
    /\ pc' = [c \in Consumer |-> "idle"]
    /\ mine' = [c \in Consumer |-> NoHalt]
    /\ marker' = NoHalt
    /\ aside' = [c \in Consumer |-> NoHalt]
    /\ UNCHANGED <<written, made, tables, markerFaults>>

-----------------------------------------------------------------------------
Step(c) ==
    \/ Admit(c) \/ SeeMarker(c) \/ Follow(c)
    \/ \E health \in Health, limit \in BOOLEAN : Observe(c, health, limit)
    \/ ClaimMarker(c) \/ WriteMarker(c) \/ MarkerHeld(c) \/ TakeHeld(c)
    \/ ClaimFails(c) \/ WriteFails(c)
    \/ Identify(c) \/ Sync(c)
    \/ RenameAside(c) \/ Inspect(c) \/ PutBack(c)

Timer(c) == CoolingEnds(c) \/ PauseEnds(c) \/ LimitEnds(c)

CircuitNext ==
    \/ \E c \in Consumer : Step(c) \/ Timer(c)
    \/ \E h \in Halt : ClearHalt(h)
    \/ Restart

CircuitSpec == CircuitInit /\ [][CircuitNext]_circuitVars

\* A consumer's loop keeps making passes: every started operation ends, an
\* idle pass syncs, a queued message asks for admission, and clocks run.
CircuitFair ==
    \A c \in Consumer :
        /\ WF_circuitVars(Sync(c))
        /\ WF_circuitVars(Identify(c))
        /\ WF_circuitVars(Follow(c) \/ WriteMarker(c) \/ TakeHeld(c)
                              \/ RenameAside(c) \/ Inspect(c) \/ PutBack(c))
        /\ WF_circuitVars(Admit(c) \/ SeeMarker(c))
        /\ WF_circuitVars(PauseEnds(c))

FairCircuitSpec == CircuitSpec /\ CircuitFair

-----------------------------------------------------------------------------
(* Properties                                                              *)

\* Types, and what the circuit's own fields promise one another: a stopped
\* circuit is halted, only a stopped one has a halt, and a process that is
\* stopped never sends (DeliveryCircuit).
CircuitTypeOK ==
    /\ circuit \in [Consumer -> [stopped : BOOLEAN, halted : BOOLEAN,
                                 failures : 0..3, cooling : BOOLEAN,
                                 paused : BOOLEAN, limited : BOOLEAN,
                                 halt : MaybeHalt]]
    /\ pc \in [Consumer -> Pc]
    /\ mine \in [Consumer -> MaybeHalt]
    /\ marker \in MaybeHalt
    /\ aside \in [Consumer -> MaybeHalt]
    /\ written \subseteq Halt
    /\ recorded \subseteq 1..made
    /\ cleared \subseteq recorded
    /\ \A c \in Consumer :
           /\ circuit[c].stopped => circuit[c].halted /\ pc[c] # "sending"
           /\ circuit[c].halt # NoHalt => circuit[c].stopped
           /\ (aside[c] # NoHalt) <=> (pc[c] \in {"inspect", "putback"})

\* A halt that holds a consumer, that it has finished sharing, and that no
\* Administrator has cleared.
Standing(c) ==
    /\ circuit[c].stopped
    /\ pc[c] = "idle"
    /\ circuit[c].halt \in Halt \ cleared

\* A SYSTEMIC stop is container-wide: while one consumer stands halted under
\* a halt nobody has cleared, no consumer passes admission, whatever clears
\* of earlier halts are still being carried out (blocks_new_send against
\* release_stop, which must not take a newer halt's marker with it), as long
\* as no marker file failed to be written.
StopIsShared ==
    [][markerFaults = 0 => \A c, d \in Consumer :
           Standing(c) /\ pc[d] = "idle" => pc'[d] # "sending"]_circuitVars

\* The two consumers share one halt: when both are halted under identities
\* no one has cleared, it is the same identity (claim_stop's exclusive
\* create), so one clear is enough for the container.  A marker file that
\* cannot be written splits the halts.
OneHalt ==
    markerFaults = 0 => \A c, d \in Consumer :
        Standing(c) /\ Standing(d) => circuit[c].halt = circuit[d].halt

\* A halt is only ever lifted by a clear of that very halt, or by a restart
\* (lift): no timer, outcome or clear of another halt lets a stopped
\* consumer send again.
OnlyItsClearLifts ==
    [][\A c \in Consumer :
           circuit[c].stopped /\ ~circuit'[c].stopped =>
               circuit[c].halt \in cleared \/ restarts' > restarts]_circuitVars

\* Once an Administrator clears a consumer's halt, the consumer's idle passes
\* lift it, or it has already moved on (mail_halt.sync).
ClearLifts ==
    \A c \in Consumer :
        circuit[c].halt \in cleared ~> circuit[c].halt \notin cleared

\* An outage pause ends by itself: a consumer that is halted but not stopped
\* sends again, or is stopped by a SYSTEMIC fault (OUTAGE_RECOVERY_SECONDS).
PauseLifts ==
    \A c \in Consumer :
        (circuit[c].halted /\ ~circuit[c].stopped)
            ~> (~circuit[c].halted \/ circuit[c].stopped)

\* The two consumers agree: their circuits are consistent and share one halt.
HaltSafe == CircuitTypeOK /\ OneHalt

\* A halt stops the container and stays until somebody lifts that very halt.
StopsHold == StopIsShared /\ OnlyItsClearLifts

\* Mail flows again by itself after an outage, and after a clear of a halt.
MailResumes == ClearLifts /\ PauseLifts
=============================================================================
