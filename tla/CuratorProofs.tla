---------------------------- MODULE CuratorProofs ----------------------------
(***************************************************************************)
(* Proofs about the curator's lock (CuratorLock), for every set of         *)
(* processes and identifiers, and about what a run does under it           *)
(* (CuratorSweep), for all sets of issues, kinds of handlers and budgets.  *)
(*                                                                         *)
(* The exclusion is not inductive: that two processes are never inside     *)
(* rests on what the lock file says while one of them is there.  Sole adds *)
(* it: at most one process is past the check; while it fills the file the  *)
(* file is torn and its own; while it is inside the file carries its       *)
(* identifier and is young.                                                *)
(*                                                                         *)
(* Two invariants carry the properties of the sweep.  Accounts: the        *)
(* counter that the passes hand on is what the run has charged.  Ranked:   *)
(* what a pass has dispatched outranks what is left in its queue, and once *)
(* something was put off the budget of the pass stays used up.             *)
(***************************************************************************)
EXTENDS CuratorLock, CuratorSweep, TLAPS

-----------------------------------------------------------------------------
(* The lock.                                                               *)

Busy(p) == Acquiring(p) \/ Inside(p)

Sole ==
    ~raced /\ ~overran =>
        /\ \A p, q \in Proc : Busy(p) /\ Busy(q) => p = q
        /\ \A p \in Proc : pc[p] = "fill" => lock = Torn /\ p \in writers
        /\ \A p \in Proc : Inside(p) => lock = Filled(p)

-----------------------------------------------------------------------------

(* Every action keeps every variable in its range, open handles belong to  *)
(* a file that exists, and a process has an identifier while it runs.      *)
THEOREM TypeCorrect == Spec => []TypeOK
<1> USE PidAssumption, BoundsAssumption
<1>1. Init => TypeOK
  <2> SUFFICES ASSUME Init PROVE TypeOK
    OBVIOUS
  <2>1. lock \in [state : {"absent", "torn", "held"}, pid : Pid \cup {NoPid}, old : BOOLEAN]
    BY DEF Init, Absent
  <2>2. edits \in 0 .. MaxEdits /\ faults \in 0 .. MaxFaults
    BY DEF Init
  <2> QED
    BY <2>1, <2>2 DEF Init, TypeOK, Steps, Tasks
<1>2. TypeOK /\ [Next]_vars => TypeOK'
  <2> SUFFICES ASSUME TypeOK, [Next]_vars PROVE TypeOK'
    OBVIOUS
  <2> USE DEF TypeOK, Steps, Tasks
  <2>1. ASSUME NEW p \in Proc, RunCoordinator(p) PROVE TypeOK'
    BY <2>1 DEF RunCoordinator, Launch, file, library
  <2>2. ASSUME NEW p \in Proc, PostEdit(p) PROVE TypeOK'
    BY <2>2 DEF PostEdit, Launch, file
  <2>3. ASSUME NEW p \in Proc, Refused(p) PROVE TypeOK'
    <3>1. dropped' \in BOOLEAN
      BY <2>3, Zenon DEF Refused
    <3> QED
      BY <2>3, <3>1 DEF Refused, Proceed, End, file
  <2>4. ASSUME NEW p \in Proc, Granted(p) PROVE TypeOK'
    BY <2>4 DEF Granted, file, library
  <2>5. ASSUME NEW p \in Proc, Create(p) PROVE TypeOK'
    BY <2>5 DEF Create, Torn, Absent, library
  <2>6. ASSUME NEW p \in Proc, Fill(p) PROVE TypeOK'
    <3>1. pid[p] \in Pid
      BY <2>6 DEF Fill
    <3>2. lock' # Absent \/ writers' = {}
      BY <2>6 DEF Fill, Filled, Torn, Absent
    <3>3. lock' \in [state : {"absent", "torn", "held"}, pid : Pid \cup {NoPid},
                     old : BOOLEAN]
      <4>1. [state |-> "held", pid |-> pid[p], old |-> FALSE] \in
              [state : {"absent", "torn", "held"}, pid : Pid \cup {NoPid}, old : BOOLEAN]
        BY <3>1
      <4>2. Torn \in
              [state : {"absent", "torn", "held"}, pid : Pid \cup {NoPid}, old : BOOLEAN]
        BY DEF Torn
      <4>3. lock' = lock \/ lock' = Filled(p) \/ lock' = Torn
        BY <2>6 DEF Fill
      <4> QED
        BY <4>1, <4>2, <4>3 DEF Filled
    <3> QED
      BY <2>6, <3>2, <3>3 DEF Fill, library
  <2>7. ASSUME NEW p \in Proc, BootstrapRefresh(p) \/ PrepareIndexes(p) PROVE TypeOK'
    <3>1. PICK t \in Tasks : \E behind : Indexed(p, t, behind)
      BY <2>7 DEF BootstrapRefresh, PrepareIndexes
    <3>2. lag' \in BOOLEAN /\ dropped' \in BOOLEAN
      BY <3>1, Zenon DEF Indexed
    <3> QED
      BY <3>1, <3>2 DEF Indexed, file
  <2>15. ASSUME NEW p \in Proc, BootstrapFails(p) \/ PrepareFails(p) PROVE TypeOK'
    <3>1. PICK t \in Tasks : Swallowed(p, t)
      BY <2>15 DEF BootstrapFails, PrepareFails
    <3>2. dropped' \in BOOLEAN
      BY <2>15, Zenon DEF BootstrapFails, PrepareFails
    <3> QED
      BY <3>1, <3>2 DEF Swallowed, file
  <2>8. ASSUME NEW p \in Proc, Release(p) PROVE TypeOK'
    <3>1. CASE task[p] = "bootstrap"
      BY <2>8, <3>1 DEF Release, Unlink, Absent, Proceed, library
    <3>2. CASE task[p] # "bootstrap"
      BY <2>8, <3>2 DEF Release, Unlink, Absent, Proceed, End, library
    <3> QED
      BY <3>1, <3>2
  <2>9. ASSUME NEW p \in Proc, Raise(p) PROVE TypeOK'
    <3>1. faults' \in 0 .. MaxFaults
      BY <2>9 DEF Raise
    <3>2. /\ pc' = [pc EXCEPT ![p] = "idle"]
          /\ task' = [task EXCEPT ![p] = "none"]
          /\ pid' = [pid EXCEPT ![p] = NoPid]
      BY <2>9 DEF Raise, End
    <3>3. lock' = Absent /\ writers' = {} /\ orphan' = FALSE
      BY <2>9 DEF Raise, Unlink
    <3> QED
      BY <2>9, <3>1, <3>2, <3>3 DEF Raise, Absent, library
  <2>10. ASSUME NEW p \in Proc, Kill(p) PROVE TypeOK'
    <3>1. orphan' \in BOOLEAN /\ dropped' \in BOOLEAN
      BY <2>10, Zenon DEF Kill
    <3> QED
      BY <2>10, <3>1 DEF Kill, End
  <2>11. CASE Regenerate
    BY <2>11 DEF Regenerate, file, procs
  <2>12. CASE Age
    BY <2>12 DEF Age, Absent, procs, library
  <2>13. ASSUME NEW x \in Pid, Stranger(x) PROVE TypeOK'
    BY <2>13 DEF Stranger, file, procs, library
  <2>14. CASE UNCHANGED vars
    BY <2>14 DEF vars, file, procs, library
  <2> QED
    BY <2>1, <2>2, <2>3, <2>4, <2>5, <2>6, <2>7, <2>8, <2>9, <2>10, <2>11,
       <2>12, <2>13, <2>14, <2>15 DEF Next, Curate, Acquire
<1> QED
  BY <1>1, <1>2, PTL DEF Spec

(* Unless a race or an overrun came before, whoever is past the check is   *)
(* alone there and the lock file tells of it.                              *)
LEMMA SoleHolds == Spec => []Sole
<1>1. Init => Sole
  BY DEF Init, Sole, Busy, Acquiring, Inside
<1>2. TypeOK /\ Sole /\ [Next]_vars => Sole'
  <2> SUFFICES ASSUME TypeOK, Sole, [Next]_vars, ~raced', ~overran'
               PROVE /\ \A p, q \in Proc : Busy(p)' /\ Busy(q)' => p = q
                     /\ \A p \in Proc : pc'[p] = "fill" => lock' = Torn /\ p \in writers'
                     /\ \A p \in Proc : Inside(p)' => lock' = Filled(p)'
    BY DEF Sole, Torn
  <2> DEFINE Goal ==
        /\ \A p, q \in Proc : Busy(p)' /\ Busy(q)' => p = q
        /\ \A p \in Proc : pc'[p] = "fill" => lock' = Torn /\ p \in writers'
        /\ \A p \in Proc : Inside(p)' => lock' = Filled(p)'
  <2> USE DEF Busy, Acquiring, Inside
  <2>quiet. ~raced /\ ~overran
    <3>1. ASSUME NEW p \in Proc, Granted(p) PROVE ~raced /\ ~overran
      BY <3>1, Zenon DEF Granted
    <3>2. CASE Age
      BY <3>2, Zenon DEF Age
    <3>3. ASSUME UNCHANGED <<raced, overran>> PROVE ~raced /\ ~overran
      BY <3>3
    <3> QED
      BY <3>1, <3>2, <3>3
         DEF Next, Curate, Acquire, RunCoordinator, PostEdit, Launch, Refused, Create,
             Fill, BootstrapRefresh, PrepareIndexes, Indexed, BootstrapFails, PrepareFails,
             Swallowed, Release, Raise, Kill, Regenerate, Stranger, vars
  <2>hyp. /\ \A p, q \in Proc : Busy(p) /\ Busy(q) => p = q
          /\ \A p \in Proc : pc[p] = "fill" => lock = Torn /\ p \in writers
          /\ \A p \in Proc : Inside(p) => lock = Filled(p)
    BY <2>quiet DEF Sole
  <2>pc. pc \in [Proc -> Steps] /\ pid \in [Proc -> Pid \cup {NoPid}]
    BY DEF TypeOK
  <2>1. ASSUME NEW p \in Proc, RunCoordinator(p) PROVE Goal
    BY <2>1, <2>hyp, <2>pc DEF RunCoordinator, Launch, file, Filled
  <2>2. ASSUME NEW p \in Proc, PostEdit(p) PROVE Goal
    BY <2>2, <2>hyp, <2>pc DEF PostEdit, Launch, file, Filled
  <2>3. ASSUME NEW p \in Proc, Refused(p) PROVE Goal
    BY <2>3, <2>hyp, <2>pc DEF Refused, Proceed, End, file, Filled
  <2>4. ASSUME NEW p \in Proc, Granted(p) PROVE Goal
    <3>1. \A q \in Proc : ~Acquiring(q)
      BY <2>4 DEF Granted
    <3>2. \A q \in Proc : ~Inside(q)
      <4> SUFFICES ASSUME NEW q \in Proc, Inside(q) PROVE Contended
        BY <2>4 DEF Granted
      <4>1. lock = Filled(q)
        BY <2>hyp
      <4> QED
        BY <4>1 DEF Contended, Filled, PidAlive, UsedPids
    <3> QED
      BY <2>4, <3>1, <3>2, <2>pc DEF Granted
  <2>5. ASSUME NEW p \in Proc, Create(p) PROVE Goal
    BY <2>5, <2>hyp, <2>pc DEF Create
  <2>6. ASSUME NEW p \in Proc, Fill(p) PROVE Goal
    <3>1. lock = Torn /\ p \in writers
      BY <2>6, <2>hyp DEF Fill
    <3>2. lock' = Filled(p)
      BY <2>6, <3>1 DEF Fill, Torn
    <3>3. \A q \in Proc : Busy(q)' => q = p
      BY <2>6, <2>hyp, <2>pc DEF Fill
    <3> QED
      BY <2>6, <3>2, <3>3, <2>pc DEF Fill, Filled
  <2>7. ASSUME NEW p \in Proc, BootstrapRefresh(p) \/ PrepareIndexes(p) PROVE Goal
    <3>1. PICK t \in Tasks : \E behind : Indexed(p, t, behind)
      BY <2>7 DEF BootstrapRefresh, PrepareIndexes, Tasks
    <3> QED
      BY <3>1, <2>hyp, <2>pc DEF Indexed, file, Filled
  <2>15. ASSUME NEW p \in Proc, BootstrapFails(p) \/ PrepareFails(p) PROVE Goal
    <3>1. PICK t \in Tasks : Swallowed(p, t)
      BY <2>15 DEF BootstrapFails, PrepareFails, Tasks
    <3> QED
      BY <3>1, <2>hyp, <2>pc DEF Swallowed, file, Filled
  <2>8. ASSUME NEW p \in Proc, Release(p) PROVE Goal
    <3>1. \A q \in Proc : Busy(q) => q = p
      BY <2>8, <2>hyp DEF Release
    <3> QED
      BY <2>8, <3>1, <2>pc DEF Release, Proceed, End
  <2>9. ASSUME NEW p \in Proc, Raise(p) PROVE Goal
    <3>1. \A q \in Proc : Busy(q) => q = p
      BY <2>9, <2>hyp DEF Raise
    <3> QED
      BY <2>9, <3>1, <2>pc DEF Raise, End
  <2>10. ASSUME NEW p \in Proc, Kill(p) PROVE Goal
    BY <2>10, <2>hyp, <2>pc DEF Kill, End, Filled
  <2>11. CASE Regenerate
    BY <2>11, <2>hyp DEF Regenerate, file, procs, Filled
  <2>12. CASE Age
    <3>1. \A p \in Proc : ~Inside(p)
      BY <2>12 DEF Age
    <3>2. \A p \in Proc : pc[p] # "fill"
      BY <2>12, <2>hyp DEF Age, Torn
    <3> QED
      BY <2>12, <2>hyp, <3>1, <3>2 DEF Age, procs
  <2>13. ASSUME NEW x \in Pid, Stranger(x) PROVE Goal
    BY <2>13, <2>hyp DEF Stranger, file, procs, Filled
  <2>14. CASE UNCHANGED vars
    BY <2>14, <2>hyp DEF vars, file, procs, Filled
  <2> QED
    BY <2>1, <2>2, <2>3, <2>4, <2>5, <2>6, <2>7, <2>8, <2>9, <2>10, <2>11,
       <2>12, <2>13, <2>14, <2>15 DEF Next, Curate, Acquire
<1> QED
  BY <1>1, <1>2, TypeCorrect, PTL DEF Spec

(* The lock excludes: unless two processes were between the check and the  *)
(* write of _acquire_lock at once, or a run outlasted the stale limit, at  *)
(* most one process works on the library, whatever is killed, raised or    *)
(* renumbered.                                                             *)
THEOREM Exclusion == Spec => []ExclusiveUnlessRacedOrOverrun
<1>1. Sole => ExclusiveUnlessRacedOrOverrun
  BY DEF Sole, ExclusiveUnlessRacedOrOverrun, Busy
<1> QED
  BY <1>1, SoleHolds, PTL

-----------------------------------------------------------------------------
(* A filled lock file has its writer inside, or he was killed there.       *)
Held == ~raced /\ ~overran /\ lock.state = "held" => orphan \/ \E q \in Proc : Inside(q)

(* Nobody is refused the lock but for a run that is inside or one that was *)
(* killed there, unless two raced or one overran: for any number of        *)
(* processes and faults.                                                   *)
THEOREM NobodyRefusedIdly == Spec => RefusedForCause
<1> DEFINE Cause ==
        \A p \in Proc :
          /\ Refused(p)
          /\ ~raced /\ ~overran
          => orphan \/ \E q \in Proc : Inside(q)
<1>1. Init => Held
  BY DEF Init, Held, Absent
<1>2. TypeOK /\ Sole /\ Held /\ [Next]_vars => Held'
  <2> SUFFICES ASSUME TypeOK, Sole, Held, [Next]_vars, ~raced', ~overran', lock'.state = "held"
               PROVE  orphan' \/ \E q \in Proc : Inside(q)'
    BY DEF Held
  <2> DEFINE Goal == orphan' \/ \E q \in Proc : Inside(q)'
  <2> USE DEF Inside
  <2>pc. pc \in [Proc -> Steps] /\ orphan \in BOOLEAN
    BY DEF TypeOK
  <2>1. ASSUME UNCHANGED <<lock, orphan, raced, overran>>,
               \A q \in Proc : Inside(q) => Inside(q)'
        PROVE  Goal
    <3>1. ~raced /\ ~overran /\ lock.state = "held"
      BY <2>1, Zenon
    <3>2. orphan \/ \E q \in Proc : Inside(q)
      BY <3>1, Zenon DEF Held
    <3> QED
      BY <2>1, <3>2, Zenon
  <2>2. ASSUME NEW p \in Proc, RunCoordinator(p) \/ PostEdit(p) PROVE Goal
    <3>1. UNCHANGED <<lock, orphan, raced, overran>>
      BY <2>2 DEF RunCoordinator, PostEdit, Launch, file
    <3>2. \A q \in Proc : Inside(q) => Inside(q)'
      BY <2>2, <2>pc DEF RunCoordinator, PostEdit, Launch
    <3> QED
      BY <2>1, <3>1, <3>2
  <2>3. ASSUME NEW p \in Proc, Refused(p) PROVE Goal
    <3>1. UNCHANGED <<lock, orphan, raced, overran>>
      BY <2>3 DEF Refused, file
    <3>2. \A q \in Proc : Inside(q) => Inside(q)'
      BY <2>3, <2>pc DEF Refused, Proceed, End
    <3> QED
      BY <2>1, <3>1, <3>2
  <2>4. ASSUME NEW p \in Proc, Granted(p) PROVE Goal
    <3>1. ~raced /\ ~overran /\ lock.state = "held" /\ orphan' = orphan
      BY <2>4, Zenon DEF Granted, file
    <3>2. orphan \/ \E q \in Proc : Inside(q)
      BY <3>1, Zenon DEF Held
    <3>3. \A q \in Proc : Inside(q) => Inside(q)'
      BY <2>4, <2>pc DEF Granted
    <3> QED
      BY <3>1, <3>2, <3>3, Zenon
  <2>5. ASSUME NEW p \in Proc, Create(p) PROVE FALSE
    BY <2>5 DEF Create, Torn
  <2>6. ASSUME NEW p \in Proc, Fill(p) PROVE Goal
    BY <2>6, <2>pc DEF Fill
  <2>7. ASSUME NEW p \in Proc, BootstrapRefresh(p) \/ PrepareIndexes(p) PROVE Goal
    BY <2>7, <2>pc DEF BootstrapRefresh, PrepareIndexes, Indexed
  <2>13. ASSUME NEW p \in Proc, BootstrapFails(p) \/ PrepareFails(p) PROVE Goal
    BY <2>13, <2>pc DEF BootstrapFails, PrepareFails, Swallowed
  <2>8. ASSUME NEW p \in Proc, Release(p) \/ Raise(p) PROVE FALSE
    BY <2>8 DEF Release, Raise, Unlink, Absent
  <2>9. ASSUME NEW p \in Proc, Kill(p) PROVE Goal
    <3>1. ~raced /\ ~overran /\ lock.state = "held"
      BY <2>9, Zenon DEF Kill
    <3>2. orphan' = (orphan \/ (Inside(p) /\ lock = Filled(p)))
      BY <2>9 DEF Kill
    <3>3. CASE orphan \/ Inside(p)
      <4>1. Inside(p) => lock = Filled(p)
        BY <3>1, Zenon DEF Sole
      <4> QED
        BY <3>2, <3>3, <4>1, Zenon
    <3>4. CASE ~orphan /\ ~Inside(p)
      <4>1. PICK q \in Proc : Inside(q)
        BY <3>1, <3>4, Zenon DEF Held
      <4>2. Inside(q)'
        BY <2>9, <3>4, <4>1, <2>pc DEF Kill, End
      <4> QED
        BY <4>2
    <3> QED
      BY <3>3, <3>4
  <2>10. CASE Regenerate \/ UNCHANGED vars
    <3>1. UNCHANGED <<lock, orphan, raced, overran, pc>>
      BY <2>10 DEF Regenerate, vars, file, procs
    <3> QED
      BY <2>1, <3>1
  <2>11. CASE Age
    <3>1. ~raced /\ ~overran /\ lock.state = "held" /\ orphan' = orphan
            /\ \A q \in Proc : ~Inside(q)
      BY <2>11, Zenon DEF Age
    <3> QED
      BY <3>1, Zenon DEF Held
  <2>12. ASSUME NEW x \in Pid, Stranger(x) PROVE Goal
    <3>1. UNCHANGED <<lock, orphan, raced, overran, pc>>
      BY <2>12 DEF Stranger, file, procs
    <3> QED
      BY <2>1, <3>1
  <2> QED
    BY <2>2, <2>3, <2>4, <2>5, <2>6, <2>7, <2>8, <2>9, <2>10, <2>11, <2>12, <2>13
       DEF Next, Curate, Acquire
<1>3. Held => Cause
  BY Zenon DEF Held, Refused, Contended
<1>4. Held => [Cause]_vars
  BY <1>3, Zenon
<1> QED
  BY <1>1, <1>2, <1>4, SoleHolds, TypeCorrect, PTL DEF Spec, RefusedForCause

-----------------------------------------------------------------------------
(* As long as nobody gave a refresh up, an index that lags has a hook on   *)
(* its way to refresh it.                                                  *)
Underway(p) == task[p] = "bootstrap" /\ pc[p] \in {"check", "create", "fill", "inside"}

LagUnderway == lag /\ ~dropped => \E p \in Proc : Underway(p)

(* When every process has ended, index.db shows the present source unless  *)
(* a hook found the lock taken, was killed or went on after its refresh    *)
(* had failed, for any number of edits, processes and faults, failing      *)
(* refreshes of runs among them.                                           *)
THEOREM IndexFollows == Spec => []IndexLagsOnlyIfDropped
<1>1. Init => LagUnderway
  BY DEF Init, LagUnderway
<1>2. TypeOK /\ LagUnderway /\ [Next]_vars => LagUnderway'
  <2> SUFFICES ASSUME TypeOK, LagUnderway, [Next]_vars, lag', ~dropped'
               PROVE  \E p \in Proc : Underway(p)'
    BY DEF LagUnderway
  <2> USE DEF Underway
  <2>pc. pc \in [Proc -> Steps] /\ task \in [Proc -> Tasks]
    BY DEF TypeOK
  <2>1. ASSUME NEW p \in Proc, PostEdit(p) PROVE \E q \in Proc : Underway(q)'
    BY <2>1, <2>pc DEF PostEdit, Launch
  <2>2. ASSUME NEW p \in Proc, BootstrapRefresh(p) PROVE FALSE
    BY <2>2, Zenon DEF BootstrapRefresh, Indexed
  <2>3. CASE lag /\ ~dropped
    <3>1. PICK q \in Proc : Underway(q)
      BY <2>3 DEF LagUnderway
    <3>2. ASSUME NEW p \in Proc, RunCoordinator(p) PROVE Underway(q)'
      BY <3>1, <3>2, <2>pc DEF RunCoordinator, Launch
    <3>3. ASSUME NEW p \in Proc, Granted(p) \/ Create(p) \/ Fill(p) PROVE Underway(q)'
      BY <3>1, <3>3, <2>pc DEF Granted, Create, Fill
    <3>4. ASSUME NEW p \in Proc, Release(p) PROVE Underway(q)'
      BY <3>1, <3>4, <2>pc DEF Release, Proceed, End
    <3>5. ASSUME NEW p \in Proc, Raise(p) PROVE Underway(q)'
      BY <3>1, <3>5, <2>pc DEF Raise, End
    <3>6. CASE Regenerate \/ Age \/ (\E x \in Pid : Stranger(x)) \/ UNCHANGED vars
      BY <3>1, <3>6 DEF Regenerate, Age, Stranger, vars, procs
    <3>7. ASSUME NEW p \in Proc, Refused(p) \/ Kill(p) PROVE Underway(q)'
      <4>1. task[p] # "bootstrap"
        BY <2>3, <3>7, Zenon DEF Refused, Kill
      <4> QED
        BY <3>1, <3>7, <4>1, <2>pc DEF Refused, Kill, Proceed, End
    <3>8. ASSUME NEW p \in Proc, PrepareIndexes(p) PROVE Underway(q)'
      BY <3>1, <3>8, <2>pc DEF PrepareIndexes, Indexed
    <3>9. ASSUME NEW p \in Proc, PrepareFails(p) PROVE Underway(q)'
      BY <3>1, <3>9, <2>pc DEF PrepareFails, Swallowed
    <3>10. ASSUME NEW p \in Proc, BootstrapFails(p) PROVE FALSE
      BY <2>3, <3>10, Zenon DEF BootstrapFails
    <3> QED
      BY <2>1, <2>2, <3>1, <3>2, <3>3, <3>4, <3>5, <3>6, <3>7, <3>8, <3>9, <3>10
         DEF Next, Curate, Acquire
  <2>4. (\E p \in Proc : PostEdit(p) \/ BootstrapRefresh(p)) \/ (lag /\ ~dropped)
    <3>1. ASSUME NEW p \in Proc, PrepareIndexes(p) PROVE lag /\ ~dropped
      BY <3>1, Zenon DEF PrepareIndexes, Indexed
    <3>2. ASSUME NEW p \in Proc, Refused(p) \/ Kill(p) PROVE lag /\ ~dropped
      BY <3>2, Zenon DEF Refused, Kill
    <3>5. ASSUME NEW p \in Proc, BootstrapFails(p) \/ PrepareFails(p) PROVE lag /\ ~dropped
      <4>1. lag' = lag
        BY <3>5 DEF BootstrapFails, PrepareFails, Swallowed
      <4>2. ~dropped
        BY <3>5, Zenon DEF BootstrapFails, PrepareFails
      <4> QED
        BY <4>1, <4>2, Zenon
    <3>3. ASSUME NEW p \in Proc, RunCoordinator(p) \/ Granted(p) \/ Create(p) \/ Fill(p)
                                \/ Release(p) \/ Raise(p)
          PROVE  lag /\ ~dropped
      <4>1. lag' = lag /\ dropped' = dropped
        BY <3>3 DEF RunCoordinator, Granted, Create, Fill, Release, Raise, library
      <4> QED
        BY <4>1, Zenon
    <3>4. CASE Regenerate \/ Age \/ (\E x \in Pid : Stranger(x)) \/ UNCHANGED vars
      <4>1. lag' = lag /\ dropped' = dropped
        BY <3>4 DEF Regenerate, Age, Stranger, vars, library
      <4> QED
        BY <4>1, Zenon
    <3> QED
      BY <3>1, <3>2, <3>3, <3>4, <3>5 DEF Next, Curate, Acquire
  <2> QED
    BY <2>1, <2>2, <2>3, <2>4
<1>3. LagUnderway => IndexLagsOnlyIfDropped
  BY DEF LagUnderway, IndexLagsOnlyIfDropped, Underway
<1> QED
  BY <1>1, <1>2, <1>3, TypeCorrect, PTL DEF Spec

-----------------------------------------------------------------------------
(* The sweep.                                                              *)

Accounts ==
    /\ spent = used
    /\ used <= MaxCalls
    /\ GraphShareKept

Layer == IF phase = "hash" THEN Hash ELSE Graph

Ranked ==
    /\ NoInversion
    /\ phase = "hash" => \A g \in Graph : outcome[g] = "none"
    /\ phase \in {"hash", "graph"} =>
        /\ \A j \in Layer, q \in queue : outcome[j] # "none" => Rank[q] < Rank[j]
        /\ (\E i \in Layer : outcome[i] = "over_budget") => Overspent

-----------------------------------------------------------------------------
(* The hash pass's share is a part of the budget.                          *)
LEMMA CapType == HashCap \in Nat /\ HashCap <= MaxCalls /\ Cap \in Nat /\ Cap <= MaxCalls
<1>1. (7 * MaxCalls) \div 10 <= MaxCalls
  BY BoundAssumption
<1>2. (7 * MaxCalls) \div 10 \in Int
  BY BoundAssumption
<1>3. HashCap <= (7 * MaxCalls) \div 10
  BY <1>2, BoundAssumption
<1>4. HashCap \in Nat /\ MaxCalls \in Nat
  BY BoundAssumption
<1>5. HashCap <= MaxCalls
  BY <1>1, <1>2, <1>3, <1>4
<1> QED
  BY <1>4, <1>5 DEF Cap

LEMMA HookChargeType == \A r \in Bootstraps : HookCharge(r) \in {0, 1}
BY DEF HookCharge

(* A dispatched issue is one of the layer of the pass.                     *)
LEMMA DispatchedInLayer ==
    ASSUME SweepTypeOK, NEW i \in Issues, Dispatching(i)
    PROVE  i \in queue /\ i \in Layer /\ queue \subseteq Layer
BY DEF SweepTypeOK, Dispatching, First, Layer

(* What every dispatch does: one issue leaves the queue with its outcome.  *)
Leaves(i) ==
    /\ Dispatching(i)
    /\ \E result \in Outcome \ {"none"} :
          /\ Conclude(i, result)
          /\ result \in Handled => ~Overspent
          /\ result = "over_budget" => Overspent
    /\ \/ UNCHANGED <<used, history>>
       \/ ~Overspent /\ \E c \in {0, 1} : Charge(c)

LEMMA DispatchLeaves ==
    ASSUME SweepTypeOK, NEW i \in Issues, Dispatch(i)
    PROVE  Leaves(i) /\ open' \subseteq Issues /\ signals' \subseteq Proposed /\ news' = news
<1>2. CASE DeferOverBudget(i)
  BY <1>2 DEF DeferOverBudget, Leaves, Outcome, Handled, SweepTypeOK
<1>3. CASE DeferGated(i)
  BY <1>3 DEF DeferGated, Leaves, Outcome, Handled, SweepTypeOK
<1>4. CASE DryRun(i)
  BY <1>4 DEF DryRun, Leaves, Outcome, Handled, SweepTypeOK
<1>5. CASE Succeed(i)
  BY <1>5 DEF Succeed, Leaves, Outcome, Handled, SweepTypeOK
<1>6. CASE Fail(i)
  BY <1>6 DEF Fail, Leaves, Outcome, Handled, SweepTypeOK
<1> QED
  BY <1>2, <1>3, <1>4, <1>5, <1>6 DEF Dispatch

-----------------------------------------------------------------------------
(* Every action keeps every variable in its range; a pass handles issues   *)
(* of its own layer only.                                                  *)
THEOREM SweepTypeCorrect == SweepSpec => []SweepTypeOK
<1>1. SweepInit => SweepTypeOK
  <2> SUFFICES ASSUME SweepInit PROVE SweepTypeOK
    OBVIOUS
  <2>1. outcome \in [Issues -> Outcome]
    BY DEF SweepInit, Outcome
  <2>2. dry \in BOOLEAN
    BY DEF SweepInit
  <2> QED
    BY <2>1, <2>2 DEF SweepInit, SweepTypeOK
<1>2. SweepTypeOK /\ [SweepNext]_sweepVars => SweepTypeOK'
  <2> SUFFICES ASSUME SweepTypeOK, [SweepNext]_sweepVars PROVE SweepTypeOK'
    OBVIOUS
  <2>1. ASSUME NEW i \in Issues, Appear(i) PROVE SweepTypeOK'
    BY <2>1 DEF Appear, SweepTypeOK, run, history
  <2>2. ASSUME NEW p \in Proposed, Expire(p) PROVE SweepTypeOK'
    BY <2>2 DEF Expire, SweepTypeOK, run, history
  <2>3. ASSUME NEW r \in Bootstraps, NEW d \in BOOLEAN, Start(r, d) PROVE SweepTypeOK'
    <3>1. HookCharge(r) \in {0, 1} /\ HookCharge(r) \in Nat
      BY HookChargeType
    <3>3. queue' \subseteq Hash /\ queue' \subseteq Issues
      BY <2>3 DEF Start, Collected, Issues
    <3>4. outcome' \in [Issues -> Outcome]
      BY <2>3 DEF Start, Outcome
    <3> QED
      BY <2>3, <3>1, <3>3, <3>4 DEF Start, Seeded, SweepTypeOK
  <2>4. CASE EndHash
    BY <2>4 DEF EndHash, Carried, Collected, SweepTypeOK, Issues, history
  <2>5. CASE EndGraph
    BY <2>5 DEF EndGraph, SweepTypeOK, history
  <2>6. CASE Report
    BY <2>6 DEF Report, SweepTypeOK, history
  <2>7. ASSUME NEW i \in Issues, Dispatch(i) PROVE SweepTypeOK'
    <3>1. Leaves(i) /\ open' \subseteq Issues /\ signals' \subseteq Proposed /\ news' = news
      BY <2>7, DispatchLeaves
    <3>2. PICK result \in Outcome : Conclude(i, result)
      BY <3>1 DEF Leaves
    <3>3. outcome' \in [Issues -> Outcome]
      BY <3>2 DEF Conclude, SweepTypeOK
    <3>4. used' \in Nat /\ spent' \in Nat /\ hook' = hook
      BY <3>1 DEF Leaves, Charge, SweepTypeOK, history
    <3> QED
      BY <3>1, <3>2, <3>3, <3>4 DEF Conclude, SweepTypeOK
  <2>8. CASE UNCHANGED sweepVars
    BY <2>8 DEF sweepVars, run, history, SweepTypeOK
  <2> QED
    BY <2>1, <2>2, <2>3, <2>4, <2>5, <2>6, <2>7, <2>8 DEF SweepNext, Pipeline
<1> QED
  BY <1>1, <1>2, PTL DEF SweepSpec

-----------------------------------------------------------------------------
(* The budget                                                              *)

LEMMA AccountsKept == SweepSpec => []Accounts
<1>1. SweepInit => Accounts
  BY BoundAssumption DEF SweepInit, Accounts, GraphShareKept
<1>2. SweepTypeOK /\ Accounts /\ [SweepNext]_sweepVars => Accounts'
  <2> SUFFICES ASSUME SweepTypeOK, Accounts, [SweepNext]_sweepVars PROVE Accounts'
    OBVIOUS
  <2> USE BoundAssumption
  <2>1. ASSUME NEW i \in Issues, Appear(i) PROVE Accounts'
    BY <2>1 DEF Appear, Accounts, GraphShareKept, run, history
  <2>2. ASSUME NEW p \in Proposed, Expire(p) PROVE Accounts'
    BY <2>2 DEF Expire, Accounts, GraphShareKept, run, history
  <2>3. ASSUME NEW r \in Bootstraps, NEW d \in BOOLEAN, Start(r, d) PROVE Accounts'
    <3>1. HookCharge(r) \in {0, 1}
      BY HookChargeType
    <3> QED
      BY <2>3, <3>1 DEF Start, Seeded, Accounts, GraphShareKept
  <2>4. CASE EndHash \/ EndGraph \/ Report
    BY <2>4 DEF EndHash, EndGraph, Report, Carried, Accounts, GraphShareKept, history
  <2>5. ASSUME NEW i \in Issues, Dispatch(i) PROVE Accounts'
    <3>1. Leaves(i)
      BY <2>5, DispatchLeaves
    <3>2. phase' = phase
      BY <3>1 DEF Leaves, Conclude
    <3>3. CASE UNCHANGED <<used, history>>
      BY <3>2, <3>3 DEF Accounts, GraphShareKept, history
    <3>4. CASE ~Overspent /\ \E c \in {0, 1} : Charge(c)
      <4>1. PICK c \in {0, 1} : Charge(c)
        BY <3>4
      <4>2. used < Cap /\ used \in Nat /\ spent \in Nat
        BY <3>4, CapType DEF Overspent, SweepTypeOK
      <4>3. used' = used + c /\ spent' = spent + c /\ hook' = hook
        BY <4>1 DEF Charge
      <4>4. used' <= Cap /\ used' <= MaxCalls
        BY <4>2, <4>3, CapType
      <4> QED
        BY <3>2, <4>2, <4>3, <4>4 DEF Accounts, GraphShareKept, Cap
    <3> QED
      BY <3>1, <3>3, <3>4 DEF Leaves
  <2>6. CASE UNCHANGED sweepVars
    BY <2>6 DEF sweepVars, run, history, Accounts, GraphShareKept
  <2> QED
    BY <2>1, <2>2, <2>3, <2>4, <2>5, <2>6 DEF SweepNext, Pipeline
<1> QED
  BY <1>1, <1>2, SweepTypeCorrect, PTL DEF SweepSpec

(* However the passes and the hook divide it, a run charges no more than   *)
(* max_llm_calls_per_run.                                                  *)
THEOREM Budget == SweepSpec => []BudgetKept
<1>1. Accounts => BudgetKept
  BY DEF Accounts, BudgetKept
<1> QED
  BY <1>1, AccountsKept, PTL

(* The hash pass stops at its share of the budget.                         *)
THEOREM GraphShare == SweepSpec => []GraphShareKept
<1>1. Accounts => GraphShareKept
  BY DEF Accounts
<1> QED
  BY <1>1, AccountsKept, PTL

-----------------------------------------------------------------------------
(* The order                                                               *)

(* What a dispatch does to the ranks.                                      *)
LEMMA LeavesRanked ==
    ASSUME SweepTypeOK, Ranked, NEW i \in Issues, Leaves(i)
    PROVE  Ranked'
<1>1. i \in queue /\ i \in Layer /\ queue \subseteq Layer /\ phase \in {"hash", "graph"}
  BY DispatchedInLayer DEF Leaves, Dispatching
<1>2. PICK result \in Outcome \ {"none"} :
        /\ Conclude(i, result)
        /\ result \in Handled => ~Overspent
        /\ result = "over_budget" => Overspent
  BY DEF Leaves
<1>3. /\ queue' = queue \ {i} /\ phase' = phase
      /\ \A j \in Issues : outcome'[j] = IF j = i THEN result ELSE outcome[j]
  BY <1>2 DEF Conclude, SweepTypeOK
<1>4. Layer' = Layer /\ Cap' = Cap /\ Layer \subseteq Issues
  BY <1>3 DEF Layer, Cap, Issues
<1>5. \A q \in queue' : Rank[q] < Rank[i]
  <2>1. \A q \in queue : q \in Issues /\ Rank[q] <= Rank[i] /\ Rank[q] \in Nat /\ Rank[i] \in Nat
    BY IssueAssumption DEF Leaves, Dispatching, First, SweepTypeOK
  <2> QED
    BY <1>3, <2>1, IssueAssumption
<1>6. Overspent => Overspent'
  <2>1. used \in Nat /\ Cap \in Nat /\ (used' = used \/ used' = used + 0 \/ used' = used + 1)
    BY CapType DEF Leaves, Charge, SweepTypeOK
  <2> QED
    BY <1>4, <2>1 DEF Overspent
<1>7. NoInversion'
  <2> SUFFICES ASSUME NEW layer \in {Hash, Graph}, NEW k \in layer, NEW j \in layer,
                      outcome'[k] = "over_budget", outcome'[j] \in Handled
               PROVE  Rank[k] < Rank[j]
    BY DEF NoInversion
  <2>1. k \in Issues /\ j \in Issues
    BY DEF Issues
  <2>2. CASE k # i /\ j # i
    BY <1>3, <2>1, <2>2 DEF Ranked, NoInversion
  <2>3. CASE k = i
    <3>1. result = "over_budget" /\ j # i /\ outcome[j] # "none"
      BY <1>3, <2>1, <2>3 DEF Handled
    <3>2. j \in Layer
      BY <1>1, <2>3, IssueAssumption DEF Layer
    <3> QED
      BY <1>1, <2>3, <3>1, <3>2 DEF Ranked
  <2>4. CASE j = i /\ k # i
    <3>1. outcome[k] = "over_budget" /\ ~Overspent
      BY <1>2, <1>3, <2>1, <2>4
    <3>2. k \in Layer
      BY <1>1, <2>4, IssueAssumption DEF Layer
    <3> QED
      BY <1>1, <3>1, <3>2 DEF Ranked
  <2> QED
    BY <2>2, <2>3, <2>4
<1>8. phase' = "hash" => \A g \in Graph : outcome'[g] = "none"
  BY <1>1, <1>3, IssueAssumption DEF Ranked, Layer, Issues
<1>9. \A j \in Layer, q \in queue' : outcome'[j] # "none" => Rank[q] < Rank[j]
  BY <1>1, <1>3, <1>4, <1>5 DEF Ranked
<1>10. (\E k \in Layer : outcome'[k] = "over_budget") => Overspent'
  BY <1>1, <1>2, <1>3, <1>4, <1>6 DEF Ranked
<1> QED
  BY <1>4, <1>7, <1>8, <1>9, <1>10 DEF Ranked

(* No issue is put off for want of budget while one of its pass that ranks *)
(* lower is handled.                                                       *)
THEOREM Order == SweepSpec => []NoInversion
<1>1. SweepInit => Ranked
  BY DEF SweepInit, Ranked, NoInversion, Issues
<1>2. SweepTypeOK /\ Ranked /\ [SweepNext]_sweepVars => Ranked'
  <2> SUFFICES ASSUME SweepTypeOK, Ranked, [SweepNext]_sweepVars PROVE Ranked'
    OBVIOUS
  <2>1. CASE (\E i \in Issues : Appear(i)) \/ (\E p \in Proposed : Expire(p)) \/ UNCHANGED sweepVars
    BY <2>1 DEF Appear, Expire, sweepVars, run, history, Ranked, NoInversion, Layer, Overspent, Cap
  <2>2. ASSUME NEW r \in Bootstraps, NEW d \in BOOLEAN, Start(r, d) PROVE Ranked'
    <3>1. phase' = "hash" /\ \A i \in Issues : outcome'[i] = "none"
      BY <2>2 DEF Start
    <3> QED
      BY <3>1 DEF Ranked, NoInversion, Layer, Issues
  <2>3. CASE EndHash
    <3>1. phase = "hash" /\ phase' = "graph" /\ outcome' = outcome
      BY <2>3 DEF EndHash
    <3>2. \A g \in Graph : outcome'[g] = "none"
      BY <3>1 DEF Ranked
    <3> QED
      BY <3>1, <3>2 DEF Ranked, NoInversion, Layer
  <2>4. CASE EndGraph \/ Report
    BY <2>4 DEF EndGraph, Report, Ranked, NoInversion
  <2>5. ASSUME NEW i \in Issues, Dispatch(i) PROVE Ranked'
    BY <2>5, DispatchLeaves, LeavesRanked
  <2> QED
    BY <2>1, <2>2, <2>3, <2>4, <2>5 DEF SweepNext, Pipeline
<1>3. Ranked => NoInversion
  BY DEF Ranked
<1> QED
  BY <1>1, <1>2, <1>3, SweepTypeCorrect, PTL DEF SweepSpec
=============================================================================
