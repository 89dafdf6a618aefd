------------------------------ MODULE CronLock ------------------------------
(***************************************************************************)
(* The single-instance lock of pk-cron-runner (pk_cron_runner.py,          *)
(* LockFile): a lock file created with O_EXCL, stale-lock recovery under   *)
(* an flock on a sibling file, and a release that is not under that flock. *)
(*                                                                         *)
(* A Runner is one invocation, with its own token; every step is one       *)
(* system call on the lock file.  The file is known by the runner that     *)
(* created it, so that a runner whose file was unlinked under it goes on   *)
(* writing its metadata into a file nobody can open.                       *)
(***************************************************************************)
EXTENDS Naturals

CONSTANTS
    Runner,        \* invocations of the runner
    NoRunner,
    StaleAfter,    \* lock.stale_after, in ticks
    StaleAction    \* lock.stale_action

ASSUME LockAssumption ==
    /\ NoRunner \notin Runner
    /\ StaleAfter \in Nat
    /\ StaleAction \in {"exit-and-alert", "remove-and-continue", "fail-closed"}

VARIABLES
    pc,       \* where each invocation stands
    age,      \* ticks since its metadata's start_time, until stale
    guard,    \* who holds the flock on <lock>.recovery
    creator,  \* whose file is at the lock path
    written,  \* whether that file's metadata can be read
    seen      \* the token a recovering runner found stale

lockVars == <<pc, age, guard, creator, written, seen>>

\* Inside acquire, the flock is held from "opening" to "writing".
Guarded == {"opening", "reading", "confirming", "removing", "reopening",
            "writing"}
Pc == {"idle", "waiting", "running", "releasing", "unlinking", "ended", "dead"}
          \cup Guarded

LockInit ==
    /\ pc = [r \in Runner |-> "idle"]
    /\ age = [r \in Runner |-> 0]
    /\ guard = NoRunner
    /\ creator = NoRunner
    /\ written = FALSE
    /\ seen = [r \in Runner |-> NoRunner]

-----------------------------------------------------------------------------
Goto(r, place) == pc' = [pc EXCEPT ![r] = place]

\* is_lock_stale, by the start_time in the runner's metadata.
Stale == {r \in Runner : age[r] > StaleAfter}

\* read_lock_metadata: the token at the lock path, or nothing.
Token == IF written THEN creator ELSE NoRunner

\* path.unlink(), whatever is there; a missing file is ignored.
Unlinked ==
    /\ creator' = NoRunner
    /\ written' = FALSE

\* LockUnavailable: leaving acquire also leaves the flock.
Refuse(r) ==
    /\ Goto(r, "ended")
    /\ guard' = NoRunner

\* os.open(O_CREAT | O_EXCL), at first or after a removal.
CreateFile(r) ==
    /\ creator = NoRunner
    /\ creator' = r
    /\ written' = FALSE
    /\ Goto(r, "writing")
    /\ UNCHANGED guard

-----------------------------------------------------------------------------
(* acquire                                                                 *)

\* The metadata, with its start_time, is built before the flock is awaited.
Start(r) ==
    /\ pc[r] = "idle"
    /\ Goto(r, "waiting")
    /\ UNCHANGED <<age, guard, creator, written, seen>>

EnterGuard(r) ==
    /\ pc[r] = "waiting"
    /\ guard = NoRunner
    /\ guard' = r
    /\ Goto(r, "opening")
    /\ UNCHANGED <<age, creator, written, seen>>

Open(r) ==
    /\ pc[r] = "opening"
    /\ \/ CreateFile(r)
       \/ /\ creator # NoRunner
          /\ Goto(r, "reading")
          /\ UNCHANGED <<guard, creator, written>>
    /\ UNCHANGED <<age, seen>>

\* Mutant: the age of the lock is not looked at.
InspectAnyAge(r) ==
    /\ pc[r] = "reading"
    /\ Token # NoRunner
    /\ seen' = [seen EXCEPT ![r] = Token]
    /\ Goto(r, "confirming")
    /\ UNCHANGED <<age, guard, creator, written>>

\* _handle_existing_lock: unreadable or fresh metadata refuses, and so does a
\* stale lock unless the configuration says to remove it.
Inspect(r) ==
    /\ pc[r] = "reading"
    /\ \/ /\ Token \notin Stale \/ StaleAction # "remove-and-continue"
          /\ Refuse(r)
          /\ UNCHANGED seen
       \/ /\ Token \in Stale
          /\ StaleAction = "remove-and-continue"
          /\ seen' = [seen EXCEPT ![r] = Token]
          /\ Goto(r, "confirming")
          /\ UNCHANGED guard
    /\ UNCHANGED <<age, creator, written>>

\* The metadata is read again, and must not have changed.
Confirm(r) ==
    /\ pc[r] = "confirming"
    /\ \/ Token # seen[r] /\ Refuse(r)
       \/ Token = seen[r] /\ Goto(r, "removing") /\ UNCHANGED guard
    /\ UNCHANGED <<age, creator, written, seen>>

Remove(r) ==
    /\ pc[r] = "removing"
    /\ Unlinked
    /\ Goto(r, "reopening")
    /\ UNCHANGED <<age, guard, seen>>

Reopen(r) ==
    /\ pc[r] = "reopening"
    /\ \/ CreateFile(r)
       \/ /\ creator # NoRunner
          /\ Refuse(r)
          /\ UNCHANGED <<creator, written>>
    /\ UNCHANGED <<age, seen>>

\* _write_metadata goes to the open descriptor; on success the runner holds
\* the lock and leaves the flock.  On OSError it unlinks the path and gives
\* up; if that fails too, the partial file stays.
Write(r) ==
    /\ pc[r] = "writing"
    /\ guard' = NoRunner
    /\ \/ /\ Goto(r, "running")
          /\ written' = (written \/ creator = r)
          /\ UNCHANGED creator
       \/ /\ Goto(r, "ended")
          /\ Unlinked \/ UNCHANGED <<creator, written>>
    /\ UNCHANGED <<age, seen>>

\* Any other OSError of acquire: the flock, an open, a read or the unlink of
\* a stale lock failed.
AcquireFails(r) ==
    /\ pc[r] \in {"waiting"} \cup (Guarded \ {"writing"})
    /\ Goto(r, "ended")
    /\ guard' = IF guard = r THEN NoRunner ELSE guard
    /\ UNCHANGED <<age, creator, written, seen>>

-----------------------------------------------------------------------------
(* release                                                                 *)

\* The jobs are done, or a signal ended them.
FinishJobs(r) ==
    /\ pc[r] = "running"
    /\ Goto(r, "releasing")
    /\ UNCHANGED <<age, guard, creator, written, seen>>

\* The token is compared in one step ...
CheckToken(r) ==
    /\ pc[r] = "releasing"
    /\ Goto(r, IF Token = r THEN "unlinking" ELSE "ended")
    /\ UNCHANGED <<age, guard, creator, written, seen>>

\* ... and the path unlinked in another, outside the flock; a failed unlink
\* is only logged.
Release(r) ==
    /\ pc[r] = "unlinking"
    /\ Unlinked \/ UNCHANGED <<creator, written>>
    /\ Goto(r, "ended")
    /\ UNCHANGED <<age, guard, seen>>

\* The process dies, or a signal raises SystemExit inside acquire: the kernel
\* drops the flock, the lock file stays.
Crash(r) ==
    /\ pc[r] \notin {"idle", "ended", "dead"}
    /\ Goto(r, "dead")
    /\ guard' = IF guard = r THEN NoRunner ELSE guard
    /\ UNCHANGED <<age, creator, written, seen>>

\* Time passes; a start_time is stale for good, so ages stop counting there.
ClockTick ==
    /\ age' = [r \in Runner |->
                  IF pc[r] = "idle" \/ r \in Stale THEN age[r] ELSE age[r] + 1]
    /\ UNCHANGED <<pc, guard, creator, written, seen>>

RunnerStep(r) ==
    \/ Start(r)
    \/ EnterGuard(r)
    \/ Open(r)
    \/ Inspect(r)
    \/ Confirm(r)
    \/ Remove(r)
    \/ Reopen(r)
    \/ Write(r)
    \/ AcquireFails(r)
    \/ FinishJobs(r)
    \/ CheckToken(r)
    \/ Release(r)
    \/ Crash(r)

LockNext ==
    \/ \E r \in Runner : RunnerStep(r)
    \/ ClockTick

LockSpec == LockInit /\ [][LockNext]_lockVars

-----------------------------------------------------------------------------
(* Properties.                                                             *)

\* Type invariant of the runners, the flock and the lock file: the flock is
\* held by the runner that stands inside acquire, and by no other.
LockTypeOK ==
    /\ pc \in [Runner -> Pc]
    /\ age \in [Runner -> 0..(StaleAfter + 1)]
    /\ guard \in Runner \cup {NoRunner}
    /\ creator \in Runner \cup {NoRunner}
    /\ written \in BOOLEAN
    /\ seen \in [Runner -> Runner \cup {NoRunner}]
    /\ \A r \in Runner : pc[r] \in Guarded <=> guard = r

Running == {r \in Runner : pc[r] = "running"}

\* Two runners run at once only if some invocation has outlived stale_after
\* and the configuration removes stale locks: neither the flock's holder, the
\* unguarded release nor a failed metadata write opens the lock to a second
\* runner otherwise.
OverlapNeedsStaleRunner ==
    \A r, s \in Running :
        r # s => StaleAction = "remove-and-continue" /\ Stale # {}

\* What stale recovery is about to unlink is stale or already gone, although
\* the file was read twice and its owner may be releasing it meanwhile.
RecoveryRemovesStale ==
    \A r \in Runner :
        pc[r] = "removing" => creator \in Stale \cup {NoRunner}

\* The lock keeps runners apart as long as none is stale, and recovery takes
\* away only a stale lock.
LockSafe == LockTypeOK /\ OverlapNeedsStaleRunner /\ RecoveryRemovesStale
=============================================================================
