----------------------- MODULE DesignLifecycleProofs -----------------------
(***************************************************************************)
(* DesignLifecycle, for any number of files, contents, notes and commits:  *)
(* type correctness; that notes are kept (at any moment the copy that is   *)
(* being made holds every note the old design file has now, or it came     *)
(* after the copy was taken); and what a run leaves that nothing disturbs  *)
(* (at any moment each note that is due is with the old path of a rename   *)
(* to come, in the copy, or where it belongs).                             *)
(***************************************************************************)
EXTENDS DesignLifecycle, TLAPS

(* The operations on one design file yield design files, and lose no note. *)
LEMMA UpdatedType ==
    ASSUME TypeOK, NEW s \in Source
    PROVE  /\ Updated(s) \in Design \cup {None}
           /\ HasDesign(s) => Updated(s) # None /\ Updated(s).notes = design[s].notes
<1>0. /\ work[s] \in Content \cup {None} /\ design[s] \in Design \cup {None}
      /\ 0 \in 0 .. MaxCommits
    BY BoundsAssumption DEF TypeOK, Tree
<1>1. CASE ~Exists(s)
    BY <1>0, <1>1 DEF Updated, HasDesign
<1>2. CASE Exists(s) /\ HasDesign(s)
    <2>1. work[s] \in Content /\ design[s] \in Design
        BY <1>0, <1>2 DEF Exists, HasDesign
    <2>2. Updated(s) = [design[s] EXCEPT !.of = work[s]]
        BY <1>2 DEF Updated
    <2>3. Updated(s) \in Design /\ Updated(s).notes = design[s].notes
        BY <2>1, <2>2 DEF Design
    <2> QED
        BY <2>3, NoneAssumption
<1>3. CASE Exists(s) /\ ~HasDesign(s)
    <2>1. Updated(s) = [notes |-> {}, of |-> work[s], status |-> "active", since |-> 0]
        BY <1>3 DEF Updated
    <2>2. Updated(s) \in Design
        BY <1>0, <1>3, <2>1 DEF Design, Exists, Status
    <2> QED
        BY <2>2, <1>3
<1> QED
    BY <1>1, <1>2, <1>3

LEMMA MarkedType ==
    ASSUME NEW d \in Design, NEW status \in {"unlinked", "deprecated"},
           commits \in 0 .. MaxCommits
    PROVE  Marked(d, status) \in Design /\ Marked(d, status).notes = d.notes
<1> DEFINE since == IF status = "deprecated" THEN commits ELSE 0
<1>1. since \in 0 .. MaxCommits
    BY BoundsAssumption
<1>2. Marked(d, status) = [d EXCEPT !.status = status, !.since = since]
    BY DEF Marked
<1> HIDE DEF since
<1> QED
    BY <1>1, <1>2 DEF Design, Status

LEMMA MigratedType ==
    ASSUME NEW d \in Design
    PROVE  Migrated(d) \in Design /\ Migrated(d).notes = d.notes
<1>1. 0 \in 0 .. MaxCommits
    BY BoundsAssumption
<1> QED
    BY <1>1 DEF Migrated, Design, Status

(* A rename leads from a path to another one.                              *)
LEMMA RenamePaths ==
    ASSUME NEW from, NEW to, NEW ms \in Renames(from, to)
    PROVE  ms \subseteq Rename /\ \A m \in ms : m.old # m.new
BY DEF Renames, Pairable

-----------------------------------------------------------------------------
(* The invariant                                                           *)

Copying ==
    /\ \A m \in staged \cup committed \cup moving : m.old # m.new
    /\ \A m, k \in moving : m = k
    /\ AtHand => parsed # None
    /\ pc = "write" =>
          \A m \in moving : HasDesign(m.old) =>
              design[m.old].notes \subseteq parsed.notes \cup adrift
    /\ pc = "unlink" =>
          \A m \in moving : HasDesign(m.old) =>
              \A n \in design[m.old].notes :
                  n \in adrift \/ (HasDesign(m.new) /\ n \in design[m.new].notes)

LEMMA InitInv == Init => TypeOK /\ Copying
<1> SUFFICES ASSUME Init PROVE TypeOK /\ Copying
    OBVIOUS
<1>1. design \in [Source -> Design \cup {None}]
    <2>1. \A s \in Source : work[s] # None =>
             [notes |-> {}, of |-> work[s], status |-> "active", since |-> 0] \in Design
        BY BoundsAssumption DEF Init, Tree, Design, Status
    <2> QED
        BY <2>1 DEF Init
<1>2. TypeOK
    <2>1. 0 \in 0 .. MaxCommits /\ 0 \in 0 .. MaxOps
        BY BoundsAssumption
    <2> QED
        BY <1>1, <2>1 DEF Init, TypeOK, Pc
<1>3. Copying
    BY DEF Init, Copying, AtHand
<1> QED
    BY <1>2, <1>3

LEMMA NextType == TypeOK /\ Copying /\ [Next]_vars => TypeOK'
<1> SUFFICES ASSUME TypeOK, Copying, [Next]_vars PROVE TypeOK'
    OBVIOUS
<1> USE DEF Outside, git
<1>1. CASE Start
    BY <1>1 DEF Start, TypeOK, Pc, Task
<1>2. ASSUME NEW s \in Source, File(s) PROVE TypeOK'
    <2>1. design' \in [Source -> Design \cup {None}]
        BY <1>2, UpdatedType DEF File, TypeOK
    <2> QED
        BY <1>2, <2>1 DEF File, TypeOK
<1>3. ASSUME NEW s \in Source, FileLeft(s) PROVE TypeOK'
    BY <1>3 DEF FileLeft, TypeOK
<1>4. CASE DetectRenames
    BY <1>4, RenamePaths DEF DetectRenames, TypeOK, Pc
<1>5. CASE NextRename
    <2>1. ASSUME NEW m \in Rename, Migrate(m)
          PROVE  parsed' \in Design \cup {None} /\ moving' \subseteq Rename /\ pc' \in Pc
        BY <2>1 DEF Migrate, TypeOK, Pc, HasDesign, Rename
    <2>2. PICK m \in staged \cup committed : Migrate(m)
        BY <1>5 DEF NextRename
    <2>3. staged' \subseteq staged /\ committed' \subseteq committed
        BY <1>5 DEF NextRename
    <2>4. parsed' \in Design \cup {None} /\ moving' \subseteq Rename /\ pc' \in Pc
        BY <2>1, <2>2 DEF TypeOK
    <2> QED
        BY <1>5, <2>3, <2>4 DEF NextRename, TypeOK
<1>6. CASE WriteMigrated
    <2>1. parsed \in Design
        BY <1>6 DEF WriteMigrated, Copying, AtHand, TypeOK
    <2>2. design' \in [Source -> Design \cup {None}]
        BY <1>6, <2>1, MigratedType DEF WriteMigrated, TypeOK
    <2> QED
        BY <1>6, <2>2 DEF WriteMigrated, TypeOK, Pc
<1>7. CASE UnlinkOld
    BY <1>7 DEF UnlinkOld, TypeOK, Pc
<1>8. CASE DetectOrphans
    BY <1>8 DEF DetectOrphans, TypeOK, Pc, Verdict, Task
<1>9. ASSUME NEW s \in Source, Mark(s) PROVE TypeOK'
    <2>1. PICK status \in {"unlinked", "deprecated"} :
             /\ todo' = todo \ {<<s, status>>}
             /\ design' = [design EXCEPT
                              ![s] = IF HasDesign(s) THEN Marked(@, status) ELSE None]
        BY <1>9 DEF Mark
    <2>2. HasDesign(s) => Marked(design[s], status) \in Design
        BY MarkedType DEF HasDesign, TypeOK
    <2>3. design' \in [Source -> Design \cup {None}]
        BY <2>1, <2>2 DEF TypeOK
    <2> QED
        BY <1>9, <2>1, <2>3 DEF Mark, TypeOK
<1>10. CASE Expire
    BY <1>10 DEF Expire, TypeOK, Pc
<1>11. CASE Kill
    BY <1>11 DEF Kill, TypeOK, Pc
<1>12. ASSUME NEW tree \in Tree, Change(tree) PROVE TypeOK'
    <2>1. ops' \in 0 .. MaxOps
        BY <1>12, BoundsAssumption DEF Change, TypeOK
    <2> QED
        BY <1>12, <2>1 DEF Change, Meanwhile, pass, TypeOK
<1>13. ASSUME NEW s \in Source, NEW c \in Content, Write(s, c) PROVE TypeOK'
    <2>1. [work EXCEPT ![s] = c] \in Tree
        BY DEF TypeOK, Tree
    <2> QED
        BY <1>12, <1>13, <2>1 DEF Write
<1>14. ASSUME NEW s \in Source, Remove(s) PROVE TypeOK'
    <2>1. [work EXCEPT ![s] = None] \in Tree
        BY DEF TypeOK, Tree
    <2> QED
        BY <1>12, <1>14, <2>1 DEF Remove
<1>15. ASSUME NEW s \in Source, NEW t \in Source, Move(s, t) PROVE TypeOK'
    <2>1. [work EXCEPT ![t] = work[s], ![s] = None] \in Tree
        BY DEF TypeOK, Tree
    <2> QED
        BY <1>12, <1>15, <2>1 DEF Move
<1>16. CASE Stage
    BY <1>16 DEF Stage, Meanwhile, pass, TypeOK
<1>17. CASE Commit
    <2>1. commits' \in 0 .. MaxCommits
        BY <1>17, BoundsAssumption DEF Commit, TypeOK
    <2> QED
        BY <1>17, <2>1 DEF Commit, Meanwhile, pass, TypeOK
<1>18. ASSUME NEW s \in Source, NEW n \in Note, Annotate(s, n) PROVE TypeOK'
    <2>1. [design[s] EXCEPT !.notes = @ \cup {n}] \in Design
        BY <1>18 DEF Annotate, HasDesign, TypeOK, Design
    <2>2. design' = [design EXCEPT ![s] = [design[s] EXCEPT !.notes = @ \cup {n}]]
        BY <1>18 DEF Annotate, TypeOK
    <2>3. adrift' \subseteq Note
        BY <1>18 DEF Annotate, TypeOK
    <2> QED
        BY <1>18, <2>1, <2>2, <2>3 DEF Annotate, Meanwhile, pass, TypeOK
<1>19. ASSUME NEW s \in Source, UpdateOne(s) PROVE TypeOK'
    <2>1. design' \in [Source -> Design \cup {None}]
        BY <1>19, UpdatedType DEF UpdateOne, TypeOK
    <2> QED
        BY <1>19, <2>1 DEF UpdateOne, Meanwhile, pass, TypeOK
<1>20. ASSUME NEW s \in Source, FixOrphan(s) PROVE TypeOK'
    <2>1. Marked(design[s], Verdict(s)) \in Design
        BY <1>20, MarkedType DEF FixOrphan, HasDesign, TypeOK, Verdict
    <2>2. design' \in [Source -> Design \cup {None}]
        BY <1>20, <2>1 DEF FixOrphan, TypeOK
    <2> QED
        BY <1>20, <2>2 DEF FixOrphan, Meanwhile, pass, TypeOK
<1>21. ASSUME NEW s \in Source, FixTtl(s) PROVE TypeOK'
    <2>1. adrift' \subseteq Note
        BY <1>21 DEF FixTtl, Expired, HasDesign, TypeOK, Design
    <2> QED
        BY <1>21, <2>1 DEF FixTtl, Meanwhile, pass, TypeOK
<1>22. CASE UNCHANGED vars
    BY <1>22 DEF vars, pass, TypeOK
<1> QED
    BY <1>1, <1>2, <1>3, <1>4, <1>5, <1>6, <1>7, <1>8, <1>9, <1>10, <1>11, <1>13,
       <1>14, <1>15, <1>16, <1>17, <1>18, <1>19, <1>20, <1>21, <1>22
    DEF Next, Run, Others

LEMMA NextCopying == TypeOK /\ Copying /\ [Next]_vars => Copying'
<1> SUFFICES ASSUME TypeOK, Copying, [Next]_vars PROVE Copying'
    OBVIOUS
<1> USE DEF Outside, AtHand
<1>1. CASE Start
    BY <1>1 DEF Start, Copying, Running
<1>2. ASSUME NEW s \in Source, File(s) PROVE Copying'
    BY <1>2 DEF File, Copying
<1>3. ASSUME NEW s \in Source, FileLeft(s) PROVE Copying'
    BY <1>3 DEF FileLeft, Copying
<1>4. CASE DetectRenames
    BY <1>4, RenamePaths DEF DetectRenames, Copying
<1>5. CASE NextRename
    <2>1. PICK m \in staged \cup committed :
             /\ staged' \subseteq staged /\ committed' \subseteq committed
             /\ Migrate(m)
        BY <1>5 DEF NextRename
    <2>2. CASE HasDesign(m.old)
        <3>1. parsed' = design[m.old] /\ moving' = {m} /\ pc' = "write"
              /\ design' = design
            BY <1>5, <2>1, <2>2 DEF Migrate, NextRename
        <3> QED
            BY <2>1, <2>2, <3>1 DEF Copying, HasDesign
    <2>3. CASE ~HasDesign(m.old)
        <3>1. parsed' = parsed /\ moving' = moving /\ pc' = pc /\ pc = "renames"
            BY <1>5, <2>1, <2>3 DEF Migrate, NextRename
        <3> QED
            BY <2>1, <3>1 DEF Copying
    <2> QED
        BY <2>2, <2>3
<1>6. CASE WriteMigrated
    <2>1. parsed \in Design
        BY <1>6 DEF WriteMigrated, Copying, TypeOK
    <2>2. ASSUME NEW m \in moving', HasDesign(m.old)', NEW n \in design'[m.old].notes
          PROVE  n \in adrift' \/ (HasDesign(m.new)' /\ n \in design'[m.new].notes)
        <3>1. m \in moving /\ m.old # m.new /\ m.old \in Source /\ m.new \in Source
            BY <1>6 DEF WriteMigrated, Copying, TypeOK, Rename
        <3>2. design'[m.old] = design[m.old] /\ design'[m.new] = Migrated(parsed)
            BY <1>6, <3>1 DEF WriteMigrated, Copying
        <3>3. n \in parsed.notes \cup adrift
            BY <1>6, <2>2, <3>1, <3>2 DEF WriteMigrated, Copying, HasDesign
        <3>4. Migrated(parsed) # None /\ Migrated(parsed).notes = parsed.notes
            BY <2>1, MigratedType, NoneAssumption
        <3> QED
            BY <1>6, <3>2, <3>3, <3>4 DEF WriteMigrated, HasDesign
    <2> QED
        BY <1>6, <2>2 DEF WriteMigrated, Copying
<1>7. CASE UnlinkOld
    BY <1>7 DEF UnlinkOld, Copying
<1>8. CASE DetectOrphans
    BY <1>8 DEF DetectOrphans, Copying
<1>9. ASSUME NEW s \in Source, Mark(s) PROVE Copying'
    BY <1>9 DEF Mark, Copying
<1>10. CASE Expire
    BY <1>10 DEF Expire, Copying
<1>11. CASE Kill
    BY <1>11 DEF Kill, Copying
<1>12. ASSUME NEW tree, Change(tree) PROVE Copying'
    BY <1>12 DEF Change, Meanwhile, pass, Copying, HasDesign
<1>13. ASSUME NEW s \in Source, NEW c \in Content, Write(s, c) PROVE Copying'
    BY <1>12, <1>13 DEF Write
<1>14. ASSUME NEW s \in Source, Remove(s) PROVE Copying'
    BY <1>12, <1>14 DEF Remove
<1>15. ASSUME NEW s \in Source, NEW t \in Source, Move(s, t) PROVE Copying'
    BY <1>12, <1>15 DEF Move
<1>16. CASE Stage
    BY <1>16 DEF Stage, Meanwhile, pass, Copying, HasDesign
<1>17. CASE Commit
    BY <1>17 DEF Commit, Meanwhile, pass, Copying, HasDesign
(* The actions of others on the design files: whatever each file gains or  *)
(* loses while a rename is at hand is adrift.                              *)
<1>18. ASSUME UNCHANGED pass, adrift \subseteq adrift',
              \A s \in Source : HasDesign(s)' =>
                  \A n \in design'[s].notes :
                      n \in adrift' \/ (HasDesign(s) /\ n \in design[s].notes)
                  ,
              \A s \in Source : HasDesign(s) =>
                  \A n \in design[s].notes :
                      n \in adrift' \/ (HasDesign(s)' /\ n \in design'[s].notes)
       PROVE  AtHand => Copying'
    <2> SUFFICES ASSUME AtHand PROVE Copying'
        OBVIOUS
    <2>1. \A m \in moving : m.old \in Source /\ m.new \in Source
        BY DEF TypeOK, Rename
    <2>2. CASE pc = "write"
        BY <1>18, <2>1, <2>2 DEF Copying, pass
    <2>3. CASE pc = "unlink"
        BY <1>18, <2>1, <2>3 DEF Copying, pass
    <2> QED
        BY <2>2, <2>3
<1>19. ASSUME UNCHANGED pass, ~AtHand PROVE Copying'
    BY <1>19 DEF pass, Copying
<1>20. ASSUME NEW s \in Source, NEW n \in Note, Annotate(s, n) PROVE Copying'
    <2>1. UNCHANGED pass /\ adrift \subseteq adrift' /\ (AtHand => n \in adrift')
        BY <1>20 DEF Annotate, Meanwhile
    <2>2. \A t \in Source \ {s} : design'[t] = design[t]
        BY <1>20 DEF Annotate, TypeOK
    <2>3. design'[s] # None /\ design[s] # None
          /\ design'[s].notes = design[s].notes \cup {n}
        <3>1. design'[s] = [design[s] EXCEPT !.notes = design[s].notes \cup {n}]
            BY <1>20 DEF Annotate, TypeOK
        <3>2. design[s] \in Design
            BY <1>20 DEF Annotate, TypeOK, HasDesign
        <3>3. design'[s] \in Design /\ design'[s].notes = design[s].notes \cup {n}
            BY <3>1, <3>2 DEF Design
        <3> QED
            BY <3>2, <3>3, NoneAssumption
    <2> QED
        BY <1>18, <1>19, <2>1, <2>2, <2>3 DEF HasDesign
<1>21. ASSUME NEW s \in Source, UpdateOne(s) PROVE Copying'
    <2>1. UNCHANGED pass /\ adrift' = adrift
        BY <1>21 DEF UpdateOne, Meanwhile
    <2>2. design' = [design EXCEPT ![s] = Updated(s)]
        BY <1>21 DEF UpdateOne
    <2>3. \A t \in Source \ {s} : design'[t] = design[t]
        BY <2>2 DEF TypeOK
    <2>4. design'[s] = Updated(s)
        BY <2>2 DEF TypeOK
    <2>5. CASE HasDesign(s)
        <3>1. HasDesign(s)' /\ design'[s].notes = design[s].notes
            BY <2>4, <2>5, UpdatedType DEF HasDesign
        <3> QED
            BY <1>18, <1>19, <2>1, <2>3, <2>5, <3>1 DEF HasDesign
    <2>6. CASE ~HasDesign(s)
        <3>1. HasDesign(s)' => design'[s].notes = {}
            BY <2>4, <2>6 DEF Updated, HasDesign
        <3> QED
            BY <1>18, <1>19, <2>1, <2>3, <2>6, <3>1 DEF HasDesign
    <2> QED
        BY <2>5, <2>6
<1>22. ASSUME NEW s \in Source, FixOrphan(s) PROVE Copying'
    <2>1. UNCHANGED pass /\ adrift' = adrift
        BY <1>22 DEF FixOrphan, Meanwhile
    <2>2. \A t \in Source \ {s} : design'[t] = design[t]
        BY <1>22 DEF FixOrphan, TypeOK
    <2>3. design'[s] = Marked(design[s], Verdict(s)) /\ HasDesign(s)
        BY <1>22 DEF FixOrphan, TypeOK
    <2>4. design'[s] # None /\ design'[s].notes = design[s].notes
        BY <2>3, MarkedType, NoneAssumption DEF HasDesign, TypeOK, Verdict
    <2> QED
        BY <1>18, <1>19, <2>1, <2>2, <2>3, <2>4 DEF HasDesign
<1>23. ASSUME NEW s \in Source, FixTtl(s) PROVE Copying'
    <2>1. UNCHANGED pass /\ adrift \subseteq adrift'
          /\ (AtHand => design[s].notes \subseteq adrift')
        BY <1>23 DEF FixTtl, Meanwhile
    <2>2. \A t \in Source \ {s} : design'[t] = design[t]
        BY <1>23 DEF FixTtl, TypeOK
    <2>3. design'[s] = None
        BY <1>23 DEF FixTtl, TypeOK
    <2> QED
        BY <1>18, <1>19, <2>1, <2>2, <2>3 DEF HasDesign
<1>24. CASE UNCHANGED vars
    BY <1>24 DEF vars, pass, Copying, HasDesign
<1> QED
    BY <1>1, <1>2, <1>3, <1>4, <1>5, <1>6, <1>7, <1>8, <1>9, <1>10, <1>11, <1>13,
       <1>14, <1>15, <1>16, <1>17, <1>20, <1>21, <1>22, <1>23, <1>24
    DEF Next, Run, Others

(* Every reachable state has the types the model declares.                 *)
THEOREM TypeCorrect == Spec => []TypeOK
<1>1. Init => TypeOK /\ Copying
    BY InitInv
<1>2. TypeOK /\ Copying /\ [Next]_vars => (TypeOK /\ Copying)'
    BY NextType, NextCopying
<1> QED
    BY <1>1, <1>2, PTL DEF Spec

LEMMA Copied == Spec => []Copying
<1>1. Init => TypeOK /\ Copying
    BY InitInv
<1>2. TypeOK /\ Copying /\ [Next]_vars => (TypeOK /\ Copying)'
    BY NextType, NextCopying
<1> QED
    BY <1>1, <1>2, PTL DEF Spec

(* A note that is held is held by a design file.                           *)
LEMMA HeldBy ==
    ASSUME NEW n, NEW s \in Source, HasDesign(s), n \in design[s].notes
    PROVE  n \in Held
BY DEF Held

LEMMA HeldByPrimed ==
    ASSUME NEW n, NEW s \in Source, HasDesign(s)', n \in design'[s].notes
    PROVE  n \in Held'
BY DEF Held, HasDesign

(* A step that takes no note from any design file loses none.              *)
LEMMA NoneLost ==
    ASSUME \A s \in Source : HasDesign(s) =>
               HasDesign(s)' /\ design[s].notes \subseteq design'[s].notes
    PROVE  Held \subseteq Held'
BY HeldByPrimed DEF Held

NotesKeptStep ==
    \A n \in Held \ Held' :
        \/ n \in adrift
        \/ \E s \in Source :
              /\ HasDesign(s) /\ n \in design[s].notes
              /\ \/ Expired(s)
                 \/ pc = "write" /\ \E m \in moving : m.new = s

LEMMA NextKeeps == TypeOK /\ Copying /\ [Next]_vars => NotesKeptStep
<1> SUFFICES ASSUME TypeOK, Copying, [Next]_vars PROVE NotesKeptStep
    OBVIOUS
<1> USE DEF Outside
<1>1. ASSUME design' = design PROVE NotesKeptStep
    BY <1>1 DEF Held, HasDesign, NotesKeptStep
<1>2. ASSUME NEW s \in Source, design' = [design EXCEPT ![s] = Updated(s)]
      PROVE  NotesKeptStep
    <2>1. \A t \in Source \ {s} : design'[t] = design[t]
        BY <1>2 DEF TypeOK
    <2>2. design'[s] = Updated(s)
        BY <1>2 DEF TypeOK
    <2> QED
        BY <2>1, <2>2, UpdatedType, NoneLost DEF HasDesign, NotesKeptStep
<1>3. ASSUME NEW s \in Source, NEW status \in {"unlinked", "deprecated"},
             HasDesign(s), design' = [design EXCEPT ![s] = Marked(design[s], status)]
      PROVE  NotesKeptStep
    <2>1. \A t \in Source \ {s} : design'[t] = design[t]
        BY <1>3 DEF TypeOK
    <2>2. design'[s] # None /\ design'[s].notes = design[s].notes
        BY <1>3, MarkedType, NoneAssumption DEF HasDesign, TypeOK
    <2> QED
        BY <2>1, <2>2, NoneLost DEF HasDesign, NotesKeptStep
<1>4. ASSUME NEW s \in Source, Mark(s) PROVE NotesKeptStep
    <2>1. PICK status \in {"unlinked", "deprecated"} :
             design' = [design EXCEPT
                           ![s] = IF HasDesign(s) THEN Marked(@, status) ELSE None]
        BY <1>4 DEF Mark
    <2>2. CASE HasDesign(s)
        BY <1>3, <2>1, <2>2
    <2>3. CASE ~HasDesign(s)
        <3>1. design' = design
            BY <2>1, <2>3 DEF HasDesign, TypeOK
        <3> QED
            BY <1>1, <3>1
    <2> QED
        BY <2>2, <2>3
(* What WriteMigrated overwrites is exempt, what UnlinkOld removes is in   *)
(* the copy.                                                               *)
<1>5. CASE WriteMigrated
    <2>1. ASSUME NEW n \in Held \ Held', NEW s \in Source, HasDesign(s),
                 n \in design[s].notes
          PROVE  pc = "write" /\ \E m \in moving : m.new = s
        <3>1. CASE \A m \in moving : m.new # s
            <4>1. design'[s] = design[s]
                BY <1>5, <3>1 DEF WriteMigrated
            <4> QED
                BY <2>1, <4>1, HeldByPrimed DEF HasDesign
        <3> QED
            BY <1>5, <3>1 DEF WriteMigrated
    <2> QED
        BY <2>1 DEF Held, NotesKeptStep
<1>6. CASE UnlinkOld
    <2>1. ASSUME NEW n \in Held \ Held', NEW s \in Source, HasDesign(s),
                 n \in design[s].notes
          PROVE  n \in adrift
        <3>1. CASE \A m \in moving : m.old # s
            <4>1. design'[s] = design[s]
                BY <1>6, <3>1 DEF UnlinkOld
            <4> QED
                BY <2>1, <4>1, HeldByPrimed DEF HasDesign
        <3>2. ASSUME NEW m \in moving, m.old = s PROVE n \in adrift
            <4>1. n \in adrift \/ (HasDesign(m.new) /\ n \in design[m.new].notes)
                BY <1>6, <2>1, <3>2 DEF UnlinkOld, Copying
            <4>2. m.new \in Source /\ \A k \in moving : k.old # m.new
                BY <3>2 DEF Copying, TypeOK, Rename
            <4>3. design'[m.new] = design[m.new]
                BY <1>6, <4>2 DEF UnlinkOld
            <4> QED
                BY <2>1, <4>1, <4>2, <4>3, HeldByPrimed DEF HasDesign
        <3> QED
            BY <3>1, <3>2
    <2> QED
        BY <2>1 DEF Held, NotesKeptStep
<1>7. CASE Expire
    <2>1. ASSUME NEW n \in Held \ Held', NEW s \in Source, HasDesign(s),
                 n \in design[s].notes
          PROVE  Expired(s)
        <3>1. CASE ~Expired(s)
            <4>1. design'[s] = design[s]
                BY <1>7, <3>1 DEF Expire
            <4> QED
                BY <2>1, <4>1, HeldByPrimed DEF HasDesign
        <3> QED
            BY <3>1
    <2> QED
        BY <2>1 DEF Held, NotesKeptStep
<1>8. ASSUME NEW t \in Source, FixTtl(t) PROVE NotesKeptStep
    <2>1. ASSUME NEW n \in Held \ Held', NEW s \in Source, HasDesign(s),
                 n \in design[s].notes
          PROVE  Expired(s)
        <3>1. CASE s # t
            <4>1. design'[s] = design[s]
                BY <1>8, <3>1 DEF FixTtl, TypeOK
            <4> QED
                BY <2>1, <4>1, HeldByPrimed DEF HasDesign
        <3> QED
            BY <1>8, <3>1 DEF FixTtl
    <2> QED
        BY <2>1 DEF Held, NotesKeptStep
<1>9. ASSUME NEW s \in Source, NEW n \in Note, Annotate(s, n) PROVE NotesKeptStep
    <2>1. design'[s] = [design[s] EXCEPT !.notes = design[s].notes \cup {n}]
        BY <1>9 DEF Annotate, TypeOK
    <2>2. design[s] \in Design
        BY <1>9 DEF Annotate, TypeOK, HasDesign
    <2>3. design'[s] \in Design /\ design[s].notes \subseteq design'[s].notes
        BY <2>1, <2>2 DEF Design
    <2>4. \A t \in Source \ {s} : design'[t] = design[t]
        BY <1>9 DEF Annotate, TypeOK
    <2> QED
        BY <2>3, <2>4, NoneLost, NoneAssumption DEF HasDesign, NotesKeptStep
<1>10. ASSUME NEW s \in Source, UpdateOne(s) PROVE NotesKeptStep
    BY <1>2, <1>10 DEF UpdateOne
<1>11. ASSUME NEW s \in Source, FixOrphan(s) PROVE NotesKeptStep
    <2>1. Verdict(s) \in {"unlinked", "deprecated"}
        BY DEF Verdict
    <2> QED
        BY <1>3, <1>11, <2>1 DEF FixOrphan
<1>12. ASSUME NEW s \in Source, File(s) PROVE NotesKeptStep
    BY <1>2, <1>12 DEF File
<1>13. CASE Start \/ DetectRenames \/ NextRename \/ DetectOrphans \/ Kill
            \/ Stage \/ Commit \/ UNCHANGED vars
    BY <1>1, <1>13
    DEF Start, DetectRenames, NextRename, DetectOrphans, Kill, Stage, Commit, vars
<1>14. ASSUME NEW s \in Source, FileLeft(s) PROVE NotesKeptStep
    BY <1>1, <1>14 DEF FileLeft
<1>15. ASSUME NEW s \in Source,
              Remove(s) \/ (\E c \in Content : Write(s, c))
                  \/ (\E t \in Source : Move(s, t))
       PROVE  NotesKeptStep
    BY <1>1, <1>15 DEF Remove, Write, Move, Change
<1> QED
    BY <1>4, <1>5, <1>6, <1>7, <1>8, <1>9, <1>10, <1>11, <1>12, <1>13, <1>14, <1>15
    DEF Next, Run, Others

(* No run, crash, fix or change of the sources loses a note, except with   *)
(* an expired file, under a file that is moved onto its place, or in the   *)
(* moment of a move.                                                       *)
THEOREM NotesAreKept == Spec => NotesKept
<1>1. TypeOK /\ Copying /\ [Next]_vars => [NotesKeptStep]_vars
    BY NextKeeps
<1>2. Spec => [][NotesKeptStep]_vars
    BY <1>1, TypeCorrect, Copied, PTL DEF Spec
<1> QED
    BY <1>2 DEF NotesKept, NotesKeptStep

-----------------------------------------------------------------------------
(* A run that nothing disturbs                                             *)

(* The renames the run has still to do with, each of them once.            *)
Watched == staged \cup committed \cup moving

Distinct ==
    /\ staged \cap committed = {} /\ moving \cap (staged \cup committed) = {}
    /\ ~AtHand => moving = {}

Apart(m, k) == {m.old, m.new} \cap {k.old, k.new} = {}

(* Where a note that is due may be: with the old path of a rename to come, *)
(* in the copy that is being made, or where it belongs.                    *)
Pending(d) ==
    \E m \in staged \cup committed :
        /\ m.new = d[1]
        /\ HasDesign(m.old) /\ d[2] \in design[m.old].notes
        /\ \A k \in Watched \ {m} : Apart(m, k)

There(d) ==
    HasDesign(d[1]) /\ d[2] \in design[d[1]].notes /\ design[d[1]].status = "active"

InHand(d) ==
    \E m \in moving :
        /\ m.new = d[1] /\ d[2] \in parsed.notes
        /\ \A k \in staged \cup committed : Apart(m, k)
        /\ pc = "unlink" => There(d)

Arrived(d) == There(d) /\ \A k \in Watched : d[1] \notin {k.old, k.new}

(* The design files of the sources that exist and were not left alone.     *)
Matched ==
    \A s \in Source :
        /\ Exists(s) /\ s \notin missed \cup {m.old : m \in Detectable} => HasDesign(s)
        /\ Exists(s) /\ s \notin missed \cup {m.new : m \in Detectable} /\ HasDesign(s)
               => design[s].of = work[s]

(* Those of the sources that do not.                                       *)
JustMarked(s) ==
    /\ design[s].status = Verdict(s)
    /\ design[s].status = "deprecated" => design[s].since = commits

Marking ==
    /\ \A t \in todo : ~Exists(t[1]) /\ t[2] = Verdict(t[1])
    /\ \A s \in Source : ~Exists(s) /\ HasDesign(s) =>
           <<s, Verdict(s)>> \in todo \/ JustMarked(s)

Kept(d) ==
    LET s == d[1] IN
    /\ HasDesign(s) /\ d[2] \in design[s].notes
    /\ Exists(s) => design[s].status = "active"

Settling == calm =>
    /\ pc = "files" =>
          \A s \in Source : Exists(s) /\ s \notin missed /\ <<s, "update">> \notin todo =>
              HasDesign(s) /\ design[s].of = work[s]
    /\ pc \in {"renames", "write", "unlink"} =>
          /\ Matched /\ Watched \subseteq Detectable
          /\ \A d \in due : Pending(d) \/ InHand(d) \/ Arrived(d)
    /\ pc = "mark" => Matched /\ Marking
    /\ pc \in {"mark", "done"} => \A d \in due : Kept(d)

LEMMA InitSettling == Init => Distinct /\ Settling
BY DEF Init, Distinct, AtHand, Settling

LEMMA NextDistinct == Distinct /\ [Next]_vars => Distinct'
<1> SUFFICES ASSUME Distinct, [Next]_vars PROVE Distinct'
    OBVIOUS
<1> USE DEF Distinct, AtHand
<1>1. CASE Start
    BY <1>1 DEF Start, Running
<1>2. ASSUME NEW s \in Source, File(s) \/ FileLeft(s) \/ Mark(s) PROVE Distinct'
    BY <1>2 DEF File, FileLeft, Mark
<1>3. CASE DetectRenames
    BY <1>3 DEF DetectRenames
<1>4. CASE NextRename
    <2>1. PICK m \in staged \cup committed :
             /\ staged' = staged \ {m} /\ committed' = committed \ {m}
             /\ Migrate(m)
        BY <1>4 DEF NextRename
    <2> QED
        BY <1>4, <2>1 DEF NextRename, Migrate
<1>5. CASE WriteMigrated \/ UnlinkOld \/ DetectOrphans \/ Expire \/ Kill
    BY <1>5 DEF WriteMigrated, UnlinkOld, DetectOrphans, Expire, Kill
<1>6. ASSUME UNCHANGED pass PROVE Distinct'
    BY <1>6 DEF pass
<1>7. CASE Others
    BY <1>6, <1>7 DEF Others, Stage, Commit, Remove, Write, Move, Change, UpdateOne,
       FixOrphan, FixTtl, Annotate, Meanwhile
<1>8. CASE UNCHANGED vars
    BY <1>6, <1>8 DEF vars
<1> QED
    BY <1>1, <1>2, <1>3, <1>4, <1>5, <1>7, <1>8 DEF Next, Run

(* What the run finds in the tree and in git stays as it is.               *)
LEMMA SameTree ==
    ASSUME UNCHANGED <<work, git>>
    PROVE  /\ Detectable' = Detectable /\ commits' = commits
           /\ \A s \in Source : (Exists(s)' <=> Exists(s)) /\ Verdict(s)' = Verdict(s)
BY DEF git, Detectable, Pairable, Exists, Verdict

LEMMA SameDesigns ==
    ASSUME UNCHANGED <<work, git>>, design' = design, missed' = missed
    PROVE  /\ Matched => Matched'
           /\ \A d : There(d) => There(d)'
BY SameTree DEF Matched, There, HasDesign

LEMMA UpdatedMatches ==
    ASSUME TypeOK, NEW s \in Source, Exists(s)
    PROVE  Updated(s) # None /\ Updated(s).of = work[s]
<1>1. CASE HasDesign(s)
    <2>1. design[s] \in Design /\ work[s] \in Content
        BY <1>1 DEF TypeOK, Tree, HasDesign, Exists
    <2>2. Updated(s) = [design[s] EXCEPT !.of = work[s]]
        BY <1>1 DEF Updated
    <2>3. Updated(s) \in Design /\ Updated(s).of = work[s]
        BY <2>1, <2>2 DEF Design
    <2> QED
        BY <2>3, NoneAssumption
<1>2. CASE ~HasDesign(s)
    <2>1. Updated(s) = [notes |-> {}, of |-> work[s], status |-> "active", since |-> 0]
        BY <1>2 DEF Updated
    <2>2. work[s] \in Content /\ 0 \in 0 .. MaxCommits
        BY BoundsAssumption DEF TypeOK, Tree, Exists
    <2>3. Updated(s) \in Design
        BY <2>1, <2>2 DEF Design, Status
    <2> QED
        BY <2>1, <2>3, NoneAssumption
<1> QED
    BY <1>1, <1>2

-----------------------------------------------------------------------------
(* The run's steps, one by one                                             *)

LEMMA FileSettles ==
    ASSUME TypeOK, Settling, NEW s \in Source, File(s) PROVE Settling'
<1>1. /\ pc = "files" /\ pc' = "files" /\ todo' = todo \ {<<s, "update">>} /\ calm' = calm
      /\ work' = work /\ design' = [design EXCEPT ![s] = Updated(s)] /\ missed' = missed
    BY DEF File, Outside
<1>2. design'[s] = Updated(s) /\ \A t \in Source \ {s} : design'[t] = design[t]
    BY <1>1 DEF TypeOK
<1>3. ASSUME calm, NEW t \in Source, Exists(t), t \notin missed, <<t, "update">> \notin todo'
      PROVE  HasDesign(t)' /\ design'[t].of = work'[t]
    BY <1>1, <1>2, <1>3, UpdatedMatches DEF HasDesign, Settling
<1> QED
    BY <1>1, <1>3 DEF Settling, Exists

(* A file that is left alone matches, or is among the missed.              *)
LEMMA LeftSettles ==
    ASSUME TypeOK, Settling, NEW s \in Source, FileLeft(s) PROVE Settling'
<1>1. /\ pc = "files" /\ pc' = "files" /\ todo' = todo \ {<<s, "update">>} /\ calm' = calm
      /\ work' = work /\ design' = design
      /\ missed' = IF calm /\ Updated(s) # design[s] THEN missed \cup {s} ELSE missed
    BY DEF FileLeft, Outside
<1>2. ASSUME calm, NEW t \in Source, Exists(t), t \notin missed', <<t, "update">> \notin todo'
      PROVE  HasDesign(t) /\ design[t].of = work[t]
    <2>1. t \notin missed
        BY <1>1, <1>2
    <2>2. CASE t = s
        <3>1. Updated(t) = design[t]
            BY <1>1, <1>2, <2>2
        <3> QED
            BY <1>2, <3>1, UpdatedMatches DEF HasDesign
    <2>3. CASE t # s
        <3>1. <<t, "update">> \notin todo
            BY <1>1, <1>2, <2>3
        <3> QED
            BY <1>1, <1>2, <2>1, <3>1 DEF Settling
    <2> QED
        BY <2>2, <2>3
<1> QED
    BY <1>1, <1>2 DEF Settling, Exists, HasDesign

LEMMA DetectSettles ==
    ASSUME TypeOK, Distinct, Settling, DetectRenames PROVE Settling'
<1>1. /\ pc = "files" /\ todo = {} /\ pc' = "renames" /\ calm' = calm /\ design' = design
      /\ UNCHANGED <<work, git>> /\ moving' = {} /\ missed' = missed
    BY DEF DetectRenames, Outside, Distinct, AtHand
<1>2. PICK i \in Renames(head, index), c \in Renames(parent, head) :
         /\ staged' = i /\ committed' = c \ i
         /\ due' = {d \in Source \X Note :
                       \E m \in Alone(i \cup c) :
                           /\ m.new = d[1]
                           /\ HasDesign(m.old) /\ d[2] \in design[m.old].notes}
    BY DEF DetectRenames
<1>3. Watched' = i \cup c
    BY <1>1, <1>2 DEF Watched
<1>4. Watched' \subseteq Detectable'
    BY <1>1, <1>3, SameTree DEF Renames, Detectable
<1>5. calm => Matched'
    <2>1. calm => Matched
        BY <1>1 DEF Settling, Matched
    <2> QED
        BY <1>1, <2>1, SameDesigns
<1>6. ASSUME NEW d \in due' PROVE Pending(d)'
    <2>1. PICK m \in Alone(i \cup c) :
             m.new = d[1] /\ HasDesign(m.old) /\ d[2] \in design[m.old].notes
        BY <1>2
    <2>2. m \in i \cup c /\ \A k \in (i \cup c) \ {m} : Apart(m, k)
        BY <2>1 DEF Alone, Apart
    <2> QED
        BY <1>1, <1>2, <1>3, <2>1, <2>2 DEF Pending, HasDesign, Apart
<1> QED
    BY <1>1, <1>4, <1>5, <1>6 DEF Settling

LEMMA NextRenameSettles ==
    ASSUME TypeOK, Copying, Distinct, Settling, NextRename PROVE Settling'
<1>1. PICK m \in staged \cup committed :
         staged' = staged \ {m} /\ committed' = committed \ {m} /\ Migrate(m)
    BY DEF NextRename, Distinct
<1>2. /\ pc = "renames" /\ moving = {} /\ calm' = calm /\ due' = due /\ design' = design
      /\ UNCHANGED <<work, git>> /\ missed' = missed
    BY DEF NextRename, Outside, Distinct, AtHand
<1>3. /\ HasDesign(m.old) => parsed' = design[m.old] /\ moving' = {m} /\ pc' = "write"
      /\ ~HasDesign(m.old) => moving' = {} /\ pc' = "renames"
    BY <1>1, <1>2 DEF Migrate
<1>4. Watched' \subseteq Watched /\ staged' \cup committed' = (staged \cup committed) \ {m}
      /\ Watched = staged \cup committed
    BY <1>1, <1>2, <1>3 DEF Watched
<1>5. ASSUME calm, NEW d \in due PROVE (Pending(d) \/ InHand(d) \/ Arrived(d))'
    <2>1. Pending(d) \/ Arrived(d)
        BY <1>2, <1>5 DEF Settling, InHand
    <2>2. CASE Arrived(d)
        <3>1. There(d)'
            BY <1>2, <2>2, SameDesigns DEF Arrived
        <3> QED
            BY <1>4, <2>2, <3>1 DEF Arrived
    <2>3. CASE Pending(d)
        <3>1. PICK k \in staged \cup committed :
                 /\ k.new = d[1] /\ HasDesign(k.old) /\ d[2] \in design[k.old].notes
                 /\ \A j \in Watched \ {k} : Apart(k, j)
            BY <2>3 DEF Pending
        <3>2. CASE k = m
            BY <1>2, <1>3, <1>4, <3>1, <3>2 DEF InHand, Apart
        <3>3. CASE k # m
            BY <1>2, <1>4, <3>1, <3>3 DEF Pending, HasDesign, Apart
        <3> QED
            BY <3>2, <3>3
    <2> QED
        BY <2>1, <2>2, <2>3
<1>6. calm => Matched' /\ Watched' \subseteq Detectable'
    BY <1>2, <1>4, SameTree, SameDesigns DEF Settling
<1> QED
    BY <1>2, <1>3, <1>5, <1>6 DEF Settling

LEMMA WriteSettles ==
    ASSUME TypeOK, Copying, Distinct, Settling, WriteMigrated PROVE Settling'
<1>1. /\ pc = "write" /\ pc' = "unlink" /\ calm' = calm /\ due' = due
      /\ staged' = staged /\ committed' = committed /\ moving' = moving /\ parsed' = parsed
      /\ UNCHANGED <<work, git>> /\ missed' = missed
      /\ design' = [s \in Source |-> IF \E m \in moving : m.new = s THEN Migrated(parsed)
                                                                  ELSE design[s]]
    BY DEF WriteMigrated, Outside
<1>2. /\ Migrated(parsed) # None /\ Migrated(parsed).notes = parsed.notes
      /\ Migrated(parsed).status = "active"
    <2>1. parsed \in Design
        BY <1>1 DEF Copying, TypeOK, AtHand
    <2>2. Migrated(parsed) \in Design /\ Migrated(parsed).notes = parsed.notes
        BY <2>1, MigratedType
    <2> QED
        BY <2>1, <2>2, NoneAssumption DEF Migrated, Design
<1>3. Watched' = Watched
    BY <1>1 DEF Watched
<1>4. calm => Matched'
    <2>1. SUFFICES ASSUME calm PROVE Matched'
        OBVIOUS
    <2>2. Matched /\ moving \subseteq Detectable
        BY <1>1, <2>1 DEF Settling, Watched
    <2>3. ASSUME NEW s \in Source
          PROVE  /\ HasDesign(s) => HasDesign(s)'
                 /\ s \notin {m.new : m \in Detectable} => design'[s] = design[s]
        BY <1>1, <1>2, <2>2 DEF HasDesign
    <2> QED
        BY <1>1, <2>2, <2>3, SameTree DEF Matched, HasDesign
<1>5. ASSUME calm, NEW d \in due PROVE (Pending(d) \/ InHand(d) \/ Arrived(d))'
    <2>0. d \in Source \X Note
        BY <1>5 DEF TypeOK
    <2>1. Pending(d) \/ InHand(d) \/ Arrived(d)
        BY <1>1, <1>5 DEF Settling
    <2>2. CASE Arrived(d)
        <3>1. design'[d[1]] = design[d[1]]
            BY <1>1, <2>0, <2>2 DEF Arrived, Watched
        <3> QED
            BY <1>3, <2>2, <3>1 DEF Arrived, There, HasDesign
    <2>3. CASE Pending(d)
        <3>1. PICK k \in staged \cup committed :
                 /\ k.new = d[1] /\ HasDesign(k.old) /\ d[2] \in design[k.old].notes
                 /\ \A j \in Watched \ {k} : Apart(k, j)
            BY <2>3 DEF Pending
        <3>2. \A j \in moving : j # k /\ j \in Watched \ {k}
            BY DEF Distinct, Watched
        <3>3. \A j \in moving : j.new # k.old
            BY <3>1, <3>2 DEF Apart
        <3>4. k.old \in Source
            BY DEF TypeOK, Rename
        <3>5. design'[k.old] = design[k.old]
            BY <1>1, <3>3, <3>4
        <3> QED
            BY <1>1, <1>3, <3>1, <3>5 DEF Pending, HasDesign, Apart
    <2>4. CASE InHand(d)
        <3>1. PICK m \in moving : /\ m.new = d[1] /\ d[2] \in parsed.notes
                                  /\ \A k \in staged \cup committed : Apart(m, k)
            BY <2>4 DEF InHand
        <3>2. design'[d[1]] = Migrated(parsed)
            BY <1>1, <2>0, <3>1
        <3>3. There(d)'
            BY <1>2, <3>1, <3>2 DEF There, HasDesign
        <3> QED
            BY <1>1, <3>1, <3>3 DEF InHand, Apart
    <2> QED
        BY <2>1, <2>2, <2>3, <2>4
<1>6. calm => Watched' \subseteq Detectable'
    BY <1>1, <1>3, SameTree DEF Settling
<1> QED
    BY <1>1, <1>4, <1>5, <1>6 DEF Settling

LEMMA UnlinkSettles ==
    ASSUME TypeOK, Copying, Distinct, Settling, UnlinkOld PROVE Settling'
<1>1. /\ pc = "unlink" /\ pc' = "renames" /\ calm' = calm /\ due' = due
      /\ staged' = staged /\ committed' = committed /\ moving' = {}
      /\ UNCHANGED <<work, git>> /\ missed' = missed
      /\ design' = [s \in Source |-> IF \E m \in moving : m.old = s THEN None ELSE design[s]]
    BY DEF UnlinkOld, Outside
<1>2. Watched' = staged \cup committed /\ Watched' \subseteq Watched
    BY <1>1 DEF Watched
<1>3. calm => Matched'
    <2>1. SUFFICES ASSUME calm PROVE Matched'
        OBVIOUS
    <2>2. Matched /\ moving \subseteq Detectable
        BY <1>1, <2>1 DEF Settling, Watched
    <2>3. ASSUME NEW s \in Source
          PROVE  /\ s \notin {m.old : m \in Detectable} => design'[s] = design[s]
                 /\ HasDesign(s)' => design'[s] = design[s]
        BY <1>1, <2>2 DEF HasDesign
    <2> QED
        BY <1>1, <2>2, <2>3, SameTree DEF Matched, HasDesign
<1>4. ASSUME calm, NEW d \in due PROVE (Pending(d) \/ InHand(d) \/ Arrived(d))'
    <2>0. d \in Source \X Note
        BY <1>4 DEF TypeOK
    <2>1. Pending(d) \/ InHand(d) \/ Arrived(d)
        BY <1>1, <1>4 DEF Settling
    <2>2. CASE Arrived(d)
        <3>1. design'[d[1]] = design[d[1]]
            BY <1>1, <2>0, <2>2 DEF Arrived, Watched
        <3> QED
            BY <1>2, <2>2, <3>1 DEF Arrived, There, HasDesign
    <2>3. CASE Pending(d)
        <3>1. PICK k \in staged \cup committed :
                 /\ k.new = d[1] /\ HasDesign(k.old) /\ d[2] \in design[k.old].notes
                 /\ \A j \in Watched \ {k} : Apart(k, j)
            BY <2>3 DEF Pending
        <3>2. \A j \in moving : j # k /\ j \in Watched \ {k}
            BY DEF Distinct, Watched
        <3>3. \A j \in moving : j.old # k.old
            BY <3>1, <3>2 DEF Apart
        <3>4. k.old \in Source
            BY DEF TypeOK, Rename
        <3>5. design'[k.old] = design[k.old]
            BY <1>1, <3>3, <3>4
        <3> QED
            BY <1>1, <1>2, <3>1, <3>5 DEF Pending, HasDesign, Apart
    <2>4. CASE InHand(d)
        <3>1. PICK m \in moving : /\ m.new = d[1] /\ There(d)
                                  /\ \A k \in staged \cup committed : Apart(m, k)
            BY <1>1, <2>4 DEF InHand
        <3>2. \A j \in moving : j = m /\ j.old # j.new
            BY <3>1 DEF Copying
        <3>3. design'[d[1]] = design[d[1]]
            BY <1>1, <2>0, <3>1, <3>2
        <3>4. There(d)'
            BY <3>1, <3>3 DEF There, HasDesign
        <3>5. \A k \in Watched' : d[1] \notin {k.old, k.new}
            BY <1>2, <3>1 DEF Apart
        <3> QED
            BY <3>4, <3>5 DEF Arrived
    <2> QED
        BY <2>1, <2>2, <2>3, <2>4
<1>5. calm => Watched' \subseteq Detectable'
    BY <1>1, <1>2, SameTree DEF Settling
<1> QED
    BY <1>1, <1>3, <1>4, <1>5 DEF Settling

LEMMA OrphansSettle ==
    ASSUME TypeOK, Distinct, Settling, DetectOrphans PROVE Settling'
<1>1. /\ pc = "renames" /\ staged = {} /\ committed = {} /\ moving = {} /\ pc' = "mark"
      /\ todo' = {<<s, Verdict(s)>> : s \in {t \in Source : HasDesign(t) /\ ~Exists(t)}}
      /\ calm' = calm /\ due' = due /\ design' = design /\ UNCHANGED <<work, git>>
      /\ missed' = missed
    BY DEF DetectOrphans, Outside, Distinct, AtHand
<1>2. calm => Matched'
    BY <1>1, SameDesigns DEF Settling
<1>3. Marking'
    BY <1>1, SameTree DEF Marking, HasDesign
<1>4. ASSUME calm, NEW d \in due PROVE Kept(d)'
    <2>1. Arrived(d)
        BY <1>1, <1>4 DEF Settling, Pending, InHand
    <2>2. There(d)'
        BY <1>1, <2>1, SameDesigns DEF Arrived
    <2> QED
        BY <2>2 DEF There, Kept
<1> QED
    BY <1>1, <1>2, <1>3, <1>4 DEF Settling

LEMMA MarkSettles ==
    ASSUME TypeOK, Settling, NEW s \in Source, Mark(s) PROVE Settling'
<1>1. /\ pc = "mark" /\ pc' = "mark" /\ calm' = calm /\ due' = due
      /\ UNCHANGED <<work, git>> /\ missed' = missed
    BY DEF Mark, Outside
<1>2. PICK status \in {"unlinked", "deprecated"} :
         /\ <<s, status>> \in todo /\ todo' = todo \ {<<s, status>>}
         /\ design' = [design EXCEPT
                          ![s] = IF HasDesign(s) THEN Marked(@, status) ELSE None]
    BY DEF Mark
<1>3. \A t \in Source \ {s} : design'[t] = design[t]
    BY <1>2 DEF TypeOK
<1>4. /\ HasDesign(s)' <=> HasDesign(s)
      /\ HasDesign(s) => /\ design'[s].notes = design[s].notes
                         /\ design'[s].of = design[s].of
                         /\ design'[s].status = status
                         /\ status = "deprecated" => design'[s].since = commits
    <2>1. CASE HasDesign(s)
        <3>1. design[s] \in Design /\ design'[s] = Marked(design[s], status)
            BY <1>2, <2>1 DEF TypeOK, HasDesign
        <3>2. design'[s] \in Design /\ design'[s].notes = design[s].notes
            BY <3>1, MarkedType DEF TypeOK
        <3>3. /\ design'[s].of = design[s].of /\ design'[s].status = status
              /\ status = "deprecated" => design'[s].since = commits
            BY <3>1 DEF Marked, Design
        <3> QED
            BY <2>1, <3>2, <3>3, NoneAssumption DEF HasDesign
    <2>2. CASE ~HasDesign(s)
        BY <1>2, <2>2 DEF TypeOK, HasDesign
    <2> QED
        BY <2>1, <2>2
<1>5. ASSUME calm PROVE (Matched /\ Marking /\ \A d \in due : Kept(d))'
    <2>1. Matched /\ Marking /\ \A d \in due : Kept(d)
        BY <1>1, <1>5 DEF Settling
    <2>2. ~Exists(s) /\ status = Verdict(s)
        BY <1>2, <2>1 DEF Marking
    <2>3. Matched'
        BY <1>1, <1>3, <2>1, <2>2, SameTree DEF Matched, HasDesign
    <2>4. Marking'
        <3>1. \A t \in todo' : ~Exists(t[1])' /\ t[2] = Verdict(t[1])'
            BY <1>1, <1>2, <2>1 DEF Marking, Exists, Verdict, git
        <3>2. ASSUME NEW t \in Source, ~Exists(t)', HasDesign(t)'
              PROVE  <<t, Verdict(t)'>> \in todo' \/ JustMarked(t)'
            <4>1. CASE t = s
                BY <1>1, <1>4, <2>2, <3>2, <4>1, SameTree DEF JustMarked
            <4>2. CASE t # s
                <5>1. design'[t] = design[t] /\ HasDesign(t) /\ ~Exists(t)
                    BY <1>1, <1>3, <3>2, <4>2, SameTree DEF HasDesign
                <5>2. <<t, Verdict(t)>> \in todo \/ JustMarked(t)
                    BY <2>1, <5>1 DEF Marking
                <5> QED
                    BY <1>1, <1>2, <4>2, <5>1, <5>2, SameTree DEF JustMarked
            <4> QED
                BY <4>1, <4>2
        <3> QED
            BY <3>1, <3>2 DEF Marking
    <2>5. \A d \in due' : Kept(d)'
        <3>1. ASSUME NEW d \in due' PROVE Kept(d)'
            <4>1. d[1] \in Source /\ Kept(d)
                BY <1>1, <2>1, <3>1 DEF TypeOK
            <4> QED
                BY <1>1, <1>3, <1>4, <2>2, <4>1, SameTree DEF Kept, HasDesign
        <3> QED
            BY <3>1
    <2> QED
        BY <2>3, <2>4, <2>5
<1> QED
    BY <1>1, <1>5 DEF Settling

(* What was marked in this run has not expired, and what exists is active. *)
LEMMA ExpireSettles ==
    ASSUME TypeOK, Settling, Expire PROVE Settling'
<1>1. /\ pc = "mark" /\ todo = {} /\ pc' = "done" /\ calm' = calm /\ due' = due
      /\ UNCHANGED <<work, git>>
      /\ design' = [s \in Source |-> IF Expired(s) THEN None ELSE design[s]]
    BY DEF Expire, Outside
<1>2. ASSUME calm, NEW d \in due PROVE Kept(d)'
    <2>1. Kept(d) /\ Marking /\ d[1] \in Source
        BY <1>1, <1>2 DEF Settling, TypeOK
    <2>2. CASE Exists(d[1])
        BY <1>1, <2>1, <2>2, SameTree DEF Kept, Expired, HasDesign
    <2>3. CASE ~Exists(d[1])
        <3>1. JustMarked(d[1])
            BY <1>1, <2>1, <2>3 DEF Marking, Kept
        <3>2. commits - commits <= Ttl
            BY BoundsAssumption DEF TypeOK
        <3>3. ~Expired(d[1])
            BY <3>1, <3>2, BoundsAssumption DEF JustMarked, Expired, TypeOK
        <3> QED
            BY <1>1, <2>1, <2>3, <3>3, SameTree DEF Kept, HasDesign
    <2> QED
        BY <2>2, <2>3
<1> QED
    BY <1>1, <1>2 DEF Settling

LEMMA NextSettling ==
    TypeOK /\ Copying /\ Distinct /\ Settling /\ [Next]_vars => Settling'
<1> SUFFICES ASSUME TypeOK, Copying, Distinct, Settling, [Next]_vars PROVE Settling'
    OBVIOUS
<1>1. CASE Start
    BY <1>1 DEF Start, Outside, Settling, Exists
<1>2. ASSUME NEW s \in Source, File(s) PROVE Settling'
    BY <1>2, FileSettles
<1>3. ASSUME NEW s \in Source, Mark(s) PROVE Settling'
    BY <1>3, MarkSettles
<1>4. CASE DetectRenames
    BY <1>4, DetectSettles
<1>5. CASE NextRename
    BY <1>5, NextRenameSettles
<1>6. CASE WriteMigrated
    BY <1>6, WriteSettles
<1>7. CASE UnlinkOld
    BY <1>7, UnlinkSettles
<1>8. CASE DetectOrphans
    BY <1>8, OrphansSettle
<1>9. CASE Expire
    BY <1>9, ExpireSettles
<1>13. ASSUME NEW s \in Source, FileLeft(s) PROVE Settling'
    BY <1>13, LeftSettles
(* Everything else disturbs the run.                                       *)
<1>10. ASSUME calm' = FALSE PROVE Settling'
    BY <1>10 DEF Settling
<1>11. CASE Kill \/ Others
    BY <1>10, <1>11 DEF Kill, Others, Stage, Commit, Remove, Write, Move,
       Change, UpdateOne, FixOrphan, FixTtl, Annotate, Meanwhile
<1>12. CASE UNCHANGED vars
    <2>1. /\ UNCHANGED <<work, git>> /\ design' = design /\ missed' = missed /\ pc' = pc /\ todo' = todo
          /\ calm' = calm /\ due' = due /\ staged' = staged /\ committed' = committed
          /\ moving' = moving /\ parsed' = parsed
        BY <1>12 DEF vars, pass
    <2>2. work' = work /\ index' = index /\ commits' = commits
        BY <2>1 DEF git
    <2>3. /\ Matched => Matched'
          /\ \A d : There(d) => There(d)'
          /\ Detectable' = Detectable
        BY <2>1, SameTree, SameDesigns
    <2>4. /\ \A d : Pending(d) => Pending(d)'
          /\ \A d : InHand(d) => InHand(d)'
          /\ \A d : Arrived(d) => Arrived(d)'
        BY <2>1, <2>3 DEF Pending, InHand, Arrived, Watched, HasDesign, Apart
    <2>5. /\ Marking => Marking'
          /\ \A d : Kept(d) => Kept(d)'
        BY <2>1, <2>2 DEF Marking, JustMarked, Kept, HasDesign, Exists, Verdict
    <2> QED
        BY <2>1, <2>2, <2>3, <2>4, <2>5 DEF Settling, Watched, HasDesign, Exists
<1> QED
    BY <1>1, <1>2, <1>3, <1>4, <1>5, <1>6, <1>7, <1>8, <1>9, <1>11, <1>12,
       <1>13 DEF Next, Run

LEMMA Settled == Spec => [](Copying /\ Settling)
<1>1. Init => TypeOK /\ Copying /\ Distinct /\ Settling
    BY InitInv, InitSettling
<1>2. (TypeOK /\ Copying /\ Distinct /\ Settling) /\ [Next]_vars =>
          (TypeOK /\ Copying /\ Distinct /\ Settling)'
    BY NextType, NextCopying, NextDistinct, NextSettling
<1> QED
    BY <1>1, <1>2, PTL DEF Spec

(* The notes of a renamed file are with its new path when the run is done, *)
(* and no rename, mark or deletion of the same run has touched them.       *)
THEOREM RenameCarriesNotes == Spec => []NotesFollowRename
<1>1. Settling => NotesFollowRename
    BY DEF Settling, NotesFollowRename, Kept
<1> QED
    BY <1>1, Settled, PTL

(* Every source that was not left alone has its design file, and every     *)
(* orphan its status, when a run that nothing disturbed comes to the       *)
(* expired ones.                                                           *)
THEOREM RunAlwaysSettles == Spec => []RunSettles
<1>1. Settling => RunSettles
    BY DEF Settling, RunSettles, Matched, Marking, JustMarked
<1> QED
    BY <1>1, Settled, PTL
=============================================================================
