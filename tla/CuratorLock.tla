----------------------------- MODULE CuratorLock -----------------------------
(***************************************************************************)
(* The PID-file lock of the curator and the processes that compete for it: *)
(* `lexictl curate` and the validation and bead-close hooks (one           *)
(* Coordinator.run each), and the post-edit hook, which takes the lock for *)
(* a bootstrap that refreshes the index of the edited file, releases it    *)
(* and takes it again for its coordinator run.                             *)
(*                                                                         *)
(* _acquire_lock reads the lock file, decides, and writes it: three steps  *)
(* that other processes interleave with.  write_text truncates the file    *)
(* before it fills it; a reader in between finds no JSON and takes the     *)
(* lock for absent.  Time is the single event that a lock file reaches the *)
(* age of _STALE_LOCK_SECONDS.  A refresh of the index that fails is       *)
(* logged, and the hook or the run goes on.                                *)
(***************************************************************************)
EXTENDS Naturals, FiniteSets

CONSTANTS
    Proc,        \* processes that run curator code, one after the other
    Pid,         \* process identifiers the operating system hands out
    NoPid,       \* no process identifier
    MaxEdits,    \* bound: edits of the source file
    MaxFaults    \* bound: kills and exceptions

ASSUME PidAssumption == NoPid \notin Pid
ASSUME BoundsAssumption == MaxEdits \in Nat /\ MaxFaults \in Nat

VARIABLES
    lock,     \* the lock file: state, and when filled the pid and age in it
    writers,  \* processes that have the present lock file open for writing
    pc,       \* where each process is
    task,     \* what it wants the lock for
    pid,      \* its process identifier
    foreign,  \* identifiers in use by unrelated processes
    drift,    \* the design file's source_hash differs from the source
    lag,      \* index.db does not show the present source
    edits,    \* edits so far
    faults,   \* kills and exceptions so far
    \* history, in no guard
    orphan,   \* whoever wrote the present lock file was killed
    raced,    \* two processes were inside _acquire_lock at once
    overran,  \* a run outlasted _STALE_LOCK_SECONDS
    dropped   \* since index.db last caught up, a hook gave its refresh up:
              \* it was refused the lock, killed, or its refresh failed

procs == <<pc, task, pid>>
file == <<lock, writers, orphan>>
library == <<drift, lag, dropped, edits>>
vars == <<file, procs, foreign, library, faults, raced, overran>>

Absent == [state |-> "absent", pid |-> NoPid, old |-> FALSE]
Torn == [state |-> "torn", pid |-> NoPid, old |-> FALSE]
Filled(p) == [state |-> "held", pid |-> pid[p], old |-> FALSE]

Steps == {"idle", "check", "create", "fill", "inside", "indexed"}
Tasks == {"none", "bootstrap", "run"}

Acquiring(p) == pc[p] \in {"create", "fill"}
Inside(p) == pc[p] \in {"inside", "indexed"}

TypeOK ==
    /\ lock \in [state : {"absent", "torn", "held"}, pid : Pid \cup {NoPid},
                 old : BOOLEAN]
    /\ writers \subseteq Proc
    /\ pc \in [Proc -> Steps]
    /\ task \in [Proc -> Tasks]
    /\ pid \in [Proc -> Pid \cup {NoPid}]
    /\ foreign \subseteq Pid
    /\ drift \in BOOLEAN /\ lag \in BOOLEAN /\ dropped \in BOOLEAN
    /\ edits \in 0 .. MaxEdits /\ faults \in 0 .. MaxFaults
    /\ orphan \in BOOLEAN /\ raced \in BOOLEAN /\ overran \in BOOLEAN
    /\ writers # {} => lock # Absent
    /\ \A p \in Proc : pc[p] = "idle" <=> pid[p] = NoPid

Init ==
    /\ lock = Absent /\ writers = {} /\ orphan = FALSE
    /\ pc = [p \in Proc |-> "idle"]
    /\ task = [p \in Proc |-> "none"]
    /\ pid = [p \in Proc |-> NoPid]
    /\ foreign = {}
    /\ drift \in BOOLEAN /\ lag = FALSE /\ dropped = FALSE
    /\ edits = 0 /\ faults = 0
    /\ raced = FALSE /\ overran = FALSE

-----------------------------------------------------------------------------
(* Processes                                                               *)

UsedPids == {pid[p] : p \in Proc} \cup foreign

(* os.kill(pid, 0) finds some process with that identifier.                *)
PidAlive(x) == x \in UsedPids

Launch(p, t) ==
    /\ pc[p] = "idle"
    /\ \E x \in Pid \ UsedPids : pid' = [pid EXCEPT ![p] = x]
    /\ pc' = [pc EXCEPT ![p] = "check"]
    /\ task' = [task EXCEPT ![p] = t]
    /\ UNCHANGED <<file, foreign, faults, raced, overran>>

(* Coordinator.run, from the command line or a hook without bootstrap.     *)
RunCoordinator(p) == Launch(p, "run") /\ UNCHANGED library

(* An edit of the source and the post_edit_hook it fires.                  *)
PostEdit(p) ==
    /\ edits < MaxEdits
    /\ edits' = edits + 1
    /\ drift' = TRUE /\ lag' = TRUE /\ UNCHANGED dropped
    /\ Launch(p, "bootstrap")

(* `lexi design update` and _bootstrap_archivist_regenerate bring the      *)
(* design file up to date; neither takes the lock nor touches index.db.    *)
Regenerate ==
    /\ drift
    /\ drift' = FALSE
    /\ UNCHANGED <<file, procs, foreign, lag, dropped, edits, faults, raced, overran>>

End(p) ==
    /\ pc' = [pc EXCEPT ![p] = "idle"]
    /\ task' = [task EXCEPT ![p] = "none"]
    /\ pid' = [pid EXCEPT ![p] = NoPid]

(* After its bootstrap the hook goes on to the coordinator's run, whether  *)
(* or not the lock was free; after the run, or a CuratorLockError, the     *)
(* process ends.                                                           *)
Proceed(p) ==
    IF task[p] = "bootstrap"
    THEN /\ pc' = [pc EXCEPT ![p] = "check"]
         /\ task' = [task EXCEPT ![p] = "run"]
         /\ UNCHANGED pid
    ELSE End(p)

-----------------------------------------------------------------------------
(* _acquire_lock                                                           *)

(* Mutant: the two conditions of a live lock confused.                     *)
ContendedIfOld == lock.state = "held" /\ PidAlive(lock.pid) /\ lock.old

(* Mutant: no age limit.                                                   *)
ContendedForever == lock.state = "held" /\ PidAlive(lock.pid)

(* _read_lock gives a pid that is alive and an age below the limit.        *)
Contended ==
    lock.state = "held" /\ PidAlive(lock.pid) /\ ~lock.old

Refused(p) ==
    /\ pc[p] = "check"
    /\ Contended
    /\ Proceed(p)
    /\ dropped' = (dropped \/ (lag /\ task[p] = "bootstrap"))
    /\ UNCHANGED <<file, foreign, drift, lag, edits, faults, raced, overran>>

Granted(p) ==
    /\ pc[p] = "check"
    /\ ~Contended
    /\ pc' = [pc EXCEPT ![p] = "create"]
    /\ raced' = (raced \/ \E q \in Proc : Acquiring(q))
    /\ UNCHANGED <<file, task, pid, foreign, library, faults, overran>>

(* write_text opens the file: a new one, or the existing one truncated.    *)
Create(p) ==
    /\ pc[p] = "create"
    /\ pc' = [pc EXCEPT ![p] = "fill"]
    /\ lock' = Torn
    /\ writers' = IF lock = Absent THEN {p} ELSE writers \cup {p}
    /\ orphan' = FALSE
    /\ UNCHANGED <<task, pid, foreign, library, faults, raced, overran>>

(* ... and fills it.  If the file was unlinked meanwhile the text goes     *)
(* nowhere; over the text of another process it may leave a tail that is   *)
(* no JSON.                                                                *)
Fill(p) ==
    /\ pc[p] = "fill"
    /\ pc' = [pc EXCEPT ![p] = "inside"]
    /\ IF p \notin writers
       THEN UNCHANGED lock
       ELSE \/ lock' = Filled(p)
            \/ lock.state = "held" /\ lock' = Torn
    /\ writers' = writers \ {p}
    /\ UNCHANGED <<orphan, task, pid, foreign, library, faults, raced, overran>>

-----------------------------------------------------------------------------
(* The work under the lock                                                 *)

Indexed(p, t, behind) ==
    /\ lag' = (lag /\ behind)
    /\ dropped' = (dropped /\ lag')
    /\ pc[p] = "inside" /\ task[p] = t
    /\ pc' = [pc EXCEPT ![p] = "indexed"]
    /\ UNCHANGED <<file, task, pid, foreign, drift, edits, faults, raced, overran>>

(* Mutant: the hook, like a run, asks which files are stale.               *)
BootstrapRefreshesStale(p) == Indexed(p, "bootstrap", ~drift)

(* _bootstrap_refresh_indexes rebuilds the entries of the edited file.     *)
BootstrapRefresh(p) == Indexed(p, "bootstrap", FALSE)

(* _prepare_indexes rebuilds those of sources that differ from their       *)
(* design files.                                                           *)
PrepareIndexes(p) == Indexed(p, "run", ~drift)

(* build_index raises, or it notes that it could not read the file: the    *)
(* warning is logged and the work goes on without the refresh.             *)
Swallowed(p, t) ==
    /\ pc[p] = "inside" /\ task[p] = t
    /\ faults < MaxFaults
    /\ faults' = faults + 1
    /\ pc' = [pc EXCEPT ![p] = "indexed"]
    /\ UNCHANGED <<file, task, pid, foreign, drift, lag, edits, raced, overran>>

BootstrapFails(p) == Swallowed(p, "bootstrap") /\ dropped' = (dropped \/ lag)

PrepareFails(p) == drift /\ Swallowed(p, "run") /\ UNCHANGED dropped

(* _release_lock removes the file whoever wrote it.                        *)
Unlink == lock' = Absent /\ writers' = {} /\ orphan' = FALSE

Release(p) ==
    /\ pc[p] = "indexed"
    /\ Unlink
    /\ Proceed(p)
    /\ UNCHANGED <<foreign, library, faults, raced, overran>>

(* Mutant: run releases the lock on its normal path only.                  *)
RaiseKeepsLock(p) ==
    /\ Inside(p) /\ task[p] = "run"
    /\ faults < MaxFaults
    /\ faults' = faults + 1
    /\ End(p)
    /\ UNCHANGED <<file, foreign, library, raced, overran>>

(* An exception in the pipeline: `finally` releases the lock.              *)
Raise(p) ==
    /\ Inside(p) /\ task[p] = "run"
    /\ faults < MaxFaults
    /\ faults' = faults + 1
    /\ Unlink
    /\ End(p)
    /\ UNCHANGED <<foreign, library, raced, overran>>

-----------------------------------------------------------------------------
(* The environment                                                         *)

Kill(p) ==
    /\ pc[p] # "idle"
    /\ faults < MaxFaults
    /\ faults' = faults + 1
    /\ End(p)
    /\ writers' = writers \ {p}
    /\ orphan' = (orphan \/ (Inside(p) /\ lock = Filled(p)))
    /\ dropped' = (dropped \/ (lag /\ task[p] = "bootstrap"))
    /\ UNCHANGED <<lock, foreign, drift, lag, edits, raced, overran>>

(* _STALE_LOCK_SECONDS have passed since the lock file was written.        *)
Age ==
    /\ lock.state = "held" /\ ~lock.old
    /\ lock' = [lock EXCEPT !.old = TRUE]
    /\ overran' = (overran \/ \E p \in Proc : Inside(p))
    /\ UNCHANGED <<writers, orphan, procs, foreign, library, faults, raced>>

(* An unrelated program starts or ends.  It never takes the last free      *)
(* identifier: the machine does not run out of them.                       *)
Stranger(x) ==
    /\ \/ x \notin UsedPids /\ Pid \ UsedPids # {x} /\ foreign' = foreign \cup {x}
       \/ x \in foreign /\ foreign' = foreign \ {x}
    /\ UNCHANGED <<file, procs, library, faults, raced, overran>>

Acquire(p) == Refused(p) \/ Granted(p) \/ Create(p) \/ Fill(p)
Curate(p) ==
    Acquire(p) \/ BootstrapRefresh(p) \/ PrepareIndexes(p) \/ Release(p)

Next ==
    \/ \E p \in Proc :
          \/ RunCoordinator(p) \/ PostEdit(p) \/ Curate(p)
          \/ BootstrapFails(p) \/ PrepareFails(p) \/ Raise(p) \/ Kill(p)
    \/ Regenerate
    \/ Age
    \/ \E x \in Pid : Stranger(x)

Spec == Init /\ [][Next]_vars

(* A started process goes on; time passes; somebody (a person, a schedule, *)
(* a hook) keeps invoking the curator.                                     *)
Fairness ==
    /\ \A p \in Proc : WF_vars(Curate(p))
    /\ WF_vars(Age)
    /\ WF_vars(\E p \in Proc : RunCoordinator(p))

LiveSpec == Spec /\ Fairness

-----------------------------------------------------------------------------
(* Properties                                                              *)

(* At most one process works under the lock, unless two of them were       *)
(* between the check and the write of _acquire_lock at once or a run took  *)
(* longer than _STALE_LOCK_SECONDS.  Crashes, exceptions, torn lock files  *)
(* and reused process identifiers do not break the exclusion.              *)
ExclusiveUnlessRacedOrOverrun ==
    raced \/ overran \/ \A p, q \in Proc : Inside(p) /\ Inside(q) => p = q

(* Whoever is refused was refused for a reason: the lock file was left by  *)
(* a live run, or by a killed one whose identifier was handed out again.   *)
RefusedForCause ==
    [][\A p \in Proc :
          /\ Refused(p)
          /\ ~raced /\ ~overran
          => orphan \/ \E q \in Proc : Inside(q)]_vars

(* A lock file left by a killed process does not lock the curator out for  *)
(* good: it is removed or taken over even if its identifier belongs to     *)
(* some other process by then.                                             *)
OrphanReclaimed == orphan ~> ~orphan

(* When all processes have ended, index.db shows the present source unless *)
(* a hook found the lock taken, was killed, or went on after its refresh   *)
(* had failed: a run that comes after the design file has caught up with   *)
(* its source does not make up for that.  Nothing else is to blame: not a  *)
(* run whose refresh fails, is refused or is killed.                       *)
IndexLagsOnlyIfDropped ==
    (\A p \in Proc : pc[p] = "idle") /\ lag => dropped
=============================================================================
