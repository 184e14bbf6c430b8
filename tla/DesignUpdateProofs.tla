------------------------- MODULE DesignUpdateProofs -------------------------
(***************************************************************************)
(* Theorems about DesignUpdate, for any number of versions, hand edits and *)
(* concurrent invocations.                                                 *)
(***************************************************************************)
EXTENDS DesignUpdate, TLAPS

-----------------------------------------------------------------------------
(* Types                                                                   *)

(* Whatever is serialized is a design file.                                *)
LEMMA SerializeType ==
    ASSUME NEW b \in Body, NEW by \in UpdatedBy, NEW v \in Version,
           NEW i \in Interface
    PROVE  /\ Serialize(b, by, v, i) \in Design
           /\ Serialize(b, by, v, i).foot \in Footer
           /\ Serialize(b, by, v, i).foot # NoFooter
           /\ Serialize(b, by, v, i).foot.stamp # NoHash
<1> DEFINE stamp == [body |-> b, by |-> by, newline |-> TRUE]
           foot  == [src |-> v, iface |-> i, stamp |-> stamp]
<1>1. stamp \in Hashed
  BY DEF Hashed
<1>2. foot \in Footer
  BY <1>1 DEF Footer
<1>3. stamp # NoHash /\ foot # NoFooter
  BY <1>1, <1>2, SentinelAssumption
<1>4. Serialize(b, by, v, i) = [body |-> b, by |-> by, foot |-> foot]
  BY DEF Serialize
<1> HIDE DEF foot
<1>5. foot.stamp = stamp
  BY DEF foot
<1> QED
  BY <1>2, <1>3, <1>4, <1>5 DEF Design

LEMMA InterfaceType == \A v \in Version : Iface[v] \in Interface
BY DEF Interface

LEMMA EditType == 0 \in Edit /\ 0 \in Version
BY VersionAssumption DEF Edit, Version

LEMMA SkeletonType ==
    ASSUME NEW v \in Version, NEW by \in UpdatedBy
    PROVE  /\ SkeletonDesign(v, by) \in Design
           /\ SkeletonDesign(v, by).foot \in Footer
           /\ SkeletonDesign(v, by).foot # NoFooter
BY SerializeType, InterfaceType, EditType DEF SkeletonDesign, Body

LEMMA LLMType ==
    ASSUME NEW h \in Version, NEW r \in Version, NEW n \in Edit
    PROVE  LLMDesign(h, r, n) \in Design
<1>1. [origin |-> "llm", src |-> r, text |-> 0, notes |-> n, prose |-> 0] \in Body
  BY EditType DEF Body
<1>2. "archivist" \in UpdatedBy
  BY DEF UpdatedBy, ValidUpdatedBy
<1> QED
  BY <1>1, <1>2, SerializeType, InterfaceType DEF LLMDesign

LEMMA LegacyType == LegacyDesign \in Design
<1>1. "archivist" \in UpdatedBy
  BY DEF UpdatedBy, ValidUpdatedBy
<1>2. SkeletonDesign(0, "archivist") \in Design
  BY <1>1, SkeletonType, EditType
<1> QED
  BY <1>2 DEF LegacyDesign, Design

LEMMA RefreshType ==
    ASSUME NEW d \in Design, NEW h \in Version, NEW i \in Interface
    PROVE  RefreshFooterHashes(d, h, i) \in Design
<1>1. CASE Parses(d)
  <2>1. RoundTrip(d.body) \in Body
    BY EditType DEF RoundTrip, Design, Body
  <2> QED
    BY <1>1, <2>1, SerializeType DEF RefreshFooterHashes, Design
<1>2. CASE ~Parses(d)
  <2>1. ContentHash(d) \in Hashed
    BY DEF ContentHash, Hashed, Design
  <2> QED
    BY <1>2, <2>1 DEF RefreshFooterHashes, Design, Footer
<1> QED
  BY <1>1, <1>2

LEMMA DescriptionType ==
    ASSUME NEW d \in Design PROVE Description(d) \in Descriptions
BY DEF Description, Descriptions, Design, Body

LEMMA NotesType ==
    ASSUME NEW d \in Design \cup {NoDesign} PROVE PreservedNotes(d) \in Edit
BY EditType DEF PreservedNotes, Design, Body

LEMMA ChangeType ==
    ASSUME NEW d, NEW h, NEW i PROVE CheckChange(d, h, i) \in ChangeLevel
BY DEF CheckChange, ChangeLevel

LEMMA IdleType == IdleRun \in Runs
BY EditType DEF IdleRun, Runs, Steps, ChangeLevel, Descriptions

(* The steps of an invocation keep its record well typed.                  *)
LEMMA FinishType ==
    ASSUME TypeOK, NEW u \in Updaters, NEW o \in Outcomes, Finish(u, o)
    PROVE  run' \in [Updaters -> Runs] /\ outcome' \in [Updaters -> Outcomes]
BY IdleType DEF TypeOK, Finish

LEMMA GotoType ==
    ASSUME TypeOK, NEW u \in Updaters, NEW s \in Steps, Goto(u, s)
    PROVE  run' \in [Updaters -> Runs]
BY DEF TypeOK, Goto, Runs

LEMMA PublishType ==
    ASSUME TypeOK, NEW u \in Updaters, NEW d \in Design,
           NEW lvl \in ChangeLevel, Publish(u, d, lvl)
    PROVE  run' \in [Updaters -> Runs]
<1>1. Description(d) \in Descriptions
  BY DescriptionType
<1>2. run[u] \in Runs /\ "publish" \in Steps
  BY DEF TypeOK, Steps
<1>3. [run[u] EXCEPT !.pc = "publish", !.level = lvl, !.desc = Description(d)]
         \in Runs
  BY <1>1, <1>2 DEF Runs
<1> QED
  BY <1>3 DEF TypeOK, Publish

LEMMA BeginType ==
    ASSUME TypeOK, NEW u \in Updaters, NEW f \in BOOLEAN, NEW l \in BOOLEAN,
           Begin(u, f, l)
    PROVE  run' \in [Updaters -> Runs] /\ outcome' \in [Updaters -> Outcomes]
<1>1. [IdleRun EXCEPT !.pc = "start", !.force = f, !.unlimited = l] \in Runs
  BY IdleType DEF Runs, Steps
<1> QED
  BY <1>1 DEF TypeOK, Begin

LEMMA MachineWritesType ==
    ASSUME TypeOK, NEW u \in Updaters, NEW d \in Design \cup {NoDesign},
           MachineWrites(u, d)
    PROVE  /\ design' \in Design \cup {NoDesign}
           /\ handmade' \in BOOLEAN
           /\ disturbed' \subseteq Updaters
           /\ edits' \in Edit
           /\ raced' \subseteq Updaters
BY DEF TypeOK, MachineWrites

LEMMA InitType == Init => TypeOK
<1> SUFFICES ASSUME Init PROVE TypeOK
  OBVIOUS
<1>1. design \in Design \cup {NoDesign}
  BY LegacyType DEF Init
<1>2. run \in [Updaters -> Runs] /\ outcome \in [Updaters -> Outcomes]
  BY IdleType DEF Init, Outcomes
<1>3. aindex \in Descriptions \cup {Structural, NoAindex}
  BY DEF Init
<1> QED
  BY <1>1, <1>2, <1>3, EditType DEF Init, TypeOK

LEMMA SkeletonFallbackType ==
    ASSUME TypeOK, NEW u \in Updaters, SkeletonFallback(u),
           UNCHANGED <<source, blocked, aindex>>
    PROVE  TypeOK'
<1> DEFINE d == SkeletonDesign(source, "skeleton-fallback")
<1>1. d \in Design
  BY SkeletonType DEF TypeOK, UpdatedBy, ValidUpdatedBy
<1>2. MachineWrites(u, d) /\ Publish(u, d, "NEW_FILE") /\ outcome' = outcome
  BY DEF SkeletonFallback
<1>3. "NEW_FILE" \in ChangeLevel
  BY DEF ChangeLevel
<1> HIDE DEF d
<1>4. run' \in [Updaters -> Runs]
  BY <1>1, <1>2, <1>3, PublishType
<1> QED
  BY <1>1, <1>2, <1>4, MachineWritesType DEF TypeOK

(* Every step of the program and of its users preserves the types.         *)
LEMMA RunType ==
    ASSUME TypeOK, NEW u \in Updaters, Run(u) \/ Kill(u)
    PROVE  TypeOK'
<1> USE DEF Outcomes
<1>0. /\ source \in Version /\ design \in Design \cup {NoDesign}
      /\ run[u] \in Runs /\ run[u].hash \in Version
      /\ run[u].level \in ChangeLevel /\ run[u].read \in Version
      /\ Iface[run[u].hash] \in Interface
  BY InterfaceType DEF TypeOK, Runs
<1>1. CASE Start(u)
  <2>1. run' \in [Updaters -> Runs]
    BY <1>1, GotoType DEF Start, Steps
  <2>2. CASE run[u].force /\ design # NoDesign
    BY <1>1, <2>1, <2>2, MachineWritesType DEF Start, TypeOK
  <2>3. CASE ~(run[u].force /\ design # NoDesign)
    BY <1>1, <2>1, <2>3 DEF Start, TypeOK, history
  <2> QED
    BY <2>2, <2>3
<1>2. CASE Gate(u)
  <2>1. CASE blocked
    BY <1>2, <2>1, FinishType DEF Gate, TypeOK, files, history
  <2>2. CASE ~blocked
    <3>1. run' = [run EXCEPT ![u].pc = "detect", ![u].hash = source]
      BY <1>2, <2>2 DEF Gate
    <3>2. run' \in [Updaters -> Runs]
      BY <1>0, <3>1 DEF TypeOK, Runs, Steps
    <3> QED
      BY <1>2, <2>2, <3>2 DEF Gate, TypeOK, files, history
  <2> QED
    BY <2>1, <2>2
<1>3. CASE Detect(u)
  <2> DEFINE change == CheckChange(design, run[u].hash, Iface[run[u].hash])
  <2>1. change \in ChangeLevel
    BY ChangeType
  <2> HIDE DEF change
  <2>2. CASE change = "UNCHANGED" \/ (change = "SKELETON_ONLY" /\ ~run[u].unlimited)
    BY <1>3, <2>2, FinishType DEF Detect, TypeOK, files, history, change
  <2>3. CASE ~(change = "UNCHANGED" \/ (change = "SKELETON_ONLY" /\ ~run[u].unlimited))
    <3> DEFINE step == IF change = "AGENT_UPDATED" THEN "refresh" ELSE "prepare"
    <3>1. run' = [run EXCEPT ![u].level = change, ![u].pc = step]
      BY <1>3, <2>3 DEF Detect, change
    <3>2. step \in Steps
      BY DEF Steps
    <3> HIDE DEF step
    <3>3. run' \in [Updaters -> Runs]
      BY <1>0, <2>1, <3>1, <3>2 DEF TypeOK, Runs
    <3> QED
      BY <1>3, <2>3, <3>3 DEF Detect, TypeOK, files, history, change
  <2> QED
    BY <2>2, <2>3
<1>4. CASE Refresh(u)
  <2>1. CASE design = NoDesign
    BY <1>4, <2>1, FinishType DEF Refresh, TypeOK
  <2>2. CASE design # NoDesign
    <3> DEFINE d == RefreshFooterHashes(design, run[u].hash, Iface[run[u].hash])
    <3>1. d \in Design
      BY <1>0, <2>2, RefreshType
    <3> HIDE DEF d
    <3>2. /\ design' = d
          /\ disturbed' = disturbed \cup (Updaters \ {u})
          /\ \/ Publish(u, d, "AGENT_UPDATED") /\ UNCHANGED outcome
             \/ Finish(u, "refreshed")
          /\ UNCHANGED <<source, blocked, aindex, edits, handmade, raced>>
      BY <1>4, <2>2 DEF Refresh, d
    <3>3. run' \in [Updaters -> Runs] /\ outcome' \in [Updaters -> Outcomes]
      BY <3>1, <3>2, PublishType, FinishType DEF ChangeLevel, TypeOK
    <3> QED
      BY <3>1, <3>2, <3>3 DEF TypeOK
  <2> QED
    BY <2>1, <2>2
<1>5. CASE Prepare(u)
  <2>1. CASE source \in Conflicted \/ (design # NoDesign /\ design.by = "foreign")
    BY <1>5, <2>1, FinishType DEF Prepare, TypeOK, history
  <2>2. CASE /\ ~(source \in Conflicted \/ (design # NoDesign /\ design.by = "foreign"))
             /\ source \in Oversized /\ ~run[u].unlimited
    BY <1>5, <2>2, SkeletonFallbackType DEF Prepare
  <2>3. CASE /\ ~(source \in Conflicted \/ (design # NoDesign /\ design.by = "foreign"))
             /\ ~(source \in Oversized /\ ~run[u].unlimited)
    <3> DEFINE h == IF design = NoDesign THEN NoHash
                    ELSE IF design.foot = NoFooter THEN NoHash
                    ELSE design.foot.stamp
    <3>1. h \in Hashed \cup {NoHash}
      BY <1>0 DEF Design, Footer
    <3>2. /\ run' = [run EXCEPT ![u].pc = "llm", ![u].read = source, ![u].pre = h]
          /\ UNCHANGED <<design, outcome, history>>
      BY <1>5, <2>3 DEF Prepare
    <3> HIDE DEF h
    <3>3. run' \in [Updaters -> Runs]
      BY <1>0, <3>1, <3>2 DEF TypeOK, Runs, Steps
    <3> QED
      BY <1>5, <3>2, <3>3 DEF Prepare, TypeOK, history
  <2> QED
    BY <2>1, <2>2, <2>3
<1>6. CASE LLMError(u)
  BY <1>6, FinishType DEF LLMError, TypeOK, files, history
<1>7. CASE LLMTruncated(u)
  BY <1>7, SkeletonFallbackType DEF LLMTruncated
<1>8. CASE LLMAnswer(u)
  <2>1. CASE Recheck(design, run[u].pre)
    BY <1>8, <2>1, GotoType DEF LLMAnswer, TypeOK, files, history, Steps
  <2>2. CASE ~Recheck(design, run[u].pre)
    BY <1>8, <2>2, FinishType DEF LLMAnswer, TypeOK, files, history
  <2> QED
    BY <2>1, <2>2
<1>9. CASE Write(u)
  <2> DEFINE d == LLMDesign(run[u].hash, run[u].read, PreservedNotes(design))
  <2>1. d \in Design
    BY <1>0, LLMType, NotesType
  <2>2. MachineWrites(u, d) /\ Publish(u, d, run[u].level)
    BY <1>9 DEF Write
  <2> HIDE DEF d
  <2>3. run' \in [Updaters -> Runs]
    BY <1>0, <2>1, <2>2, PublishType
  <2> QED
    BY <1>9, <2>1, <2>2, <2>3, MachineWritesType DEF Write, TypeOK
<1>10. CASE RefreshAindex(u)
  <2> DEFINE o == IF run[u].level = "AGENT_UPDATED" THEN "refreshed"
                  ELSE IF run[u].desc.origin = "skeleton" THEN "skeleton" ELSE "written"
  <2>1. o \in Outcomes
    OBVIOUS
  <2>2. Finish(u, o)
    BY <1>10 DEF RefreshAindex
  <2> HIDE DEF o
  <2>3. run' \in [Updaters -> Runs] /\ outcome' \in [Updaters -> Outcomes]
    BY <2>1, <2>2, FinishType
  <2>4. aindex' \in Descriptions \cup {Structural, NoAindex}
    BY <1>0, <1>10 DEF RefreshAindex, Runs
  <2> QED
    BY <1>10, <2>3, <2>4 DEF RefreshAindex, TypeOK
<1>11. CASE Kill(u)
  BY <1>11, FinishType DEF Kill, TypeOK, files, history
<1> QED
  BY <1>1, <1>2, <1>3, <1>4, <1>5, <1>6, <1>7, <1>8, <1>9, <1>10, <1>11 DEF Run

LEMMA CommandType ==
    ASSUME TypeOK, NEW u \in Updaters, Command(u)
    PROVE  TypeOK'
<1>1. PICK f \in Forces, l \in Limits :
          UpdateCommand(u, f, l) \/ DesignUpdateCommand(u, f, l)
  BY DEF Command
<1>2. f \in BOOLEAN /\ l \in BOOLEAN
  BY SetsAssumption
<1>3. run' \in [Updaters -> Runs] /\ outcome' \in [Updaters -> Outcomes]
  BY <1>1, <1>2, BeginType, FinishType
     DEF UpdateCommand, DesignUpdateCommand, Outcomes
<1> QED
  BY <1>1, <1>3 DEF UpdateCommand, DesignUpdateCommand, TypeOK, files

LEMMA HandEditedType ==
    ASSUME TypeOK, NEW d \in Design, HandEdited(d) PROVE TypeOK'
<1>1. edits + 1 \in Edit
  BY VersionAssumption DEF HandEdited, TypeOK, Edit
<1> QED
  BY <1>1 DEF HandEdited, TypeOK

LEMMA EnvironmentType ==
    ASSUME TypeOK, Environment PROVE TypeOK'
<1>1. CASE QuickSkeleton
  <2> DEFINE d == SkeletonDesign(source, "bootstrap-quick")
  <2>1. d \in Design
    BY SkeletonType DEF TypeOK, UpdatedBy, ValidUpdatedBy
  <2> HIDE DEF d
  <2>2. design' = d /\ aindex' \in {NoAindex, Description(d)}
    BY <1>1 DEF QuickSkeleton, d
  <2> QED
    BY <1>1, <2>1, <2>2, DescriptionType DEF QuickSkeleton, TypeOK
<1>2. CASE EditSource
  BY <1>2, VersionAssumption DEF EditSource, TypeOK, Version
<1>3. ASSUME NEW by \in {"agent", "none"}, HandWrite(by) PROVE TypeOK'
  <2> DEFINE b == [origin |-> "agent", src |-> source, text |-> edits + 1,
                   notes |-> 0, prose |-> 0]
  <2>1. edits + 1 \in Edit
    BY <1>3, VersionAssumption DEF HandWrite, HandEdited, TypeOK, Edit
  <2>2. b \in Body
    BY <2>1, EditType DEF Body, TypeOK
  <2>3. [body |-> b, by |-> by, foot |-> NoFooter] \in Design
    BY <2>2 DEF Design, UpdatedBy, ValidUpdatedBy
  <2> QED
    BY <1>3, <2>3, HandEditedType DEF HandWrite
<1>4. ASSUME NEW part \in {"text", "notes", "prose"}, edits + 1 \in Edit,
             design # NoDesign
      PROVE  EditedBody(part) \in Body
  BY <1>4 DEF EditedBody, Body, TypeOK, Design
<1>5. ASSUME NEW part \in {"text", "notes", "prose"}, NEW signs \in BOOLEAN,
             NEW keeps \in BOOLEAN, HandEdit(part, signs, keeps)
      PROVE  TypeOK'
  <2>1. edits + 1 \in Edit /\ design # NoDesign
    BY <1>5, VersionAssumption DEF HandEdit, HandEdited, TypeOK, Edit
  <2>2. [body |-> EditedBody(part),
         by   |-> IF signs THEN "agent" ELSE design.by,
         foot |-> IF keeps THEN design.foot ELSE NoFooter] \in Design
    BY <1>4, <2>1 DEF Design, UpdatedBy, ValidUpdatedBy, TypeOK
  <2> QED
    BY <1>5, <2>2, HandEditedType DEF HandEdit
<1>6. ASSUME NEW part \in {"text", "notes", "prose"}, ToolEdit(part)
      PROVE  TypeOK'
  <2>1. edits + 1 \in Edit /\ design # NoDesign
    BY <1>6, VersionAssumption DEF ToolEdit, HandEdited, TypeOK, Edit
  <2>2. [body |-> EditedBody(part), by |-> "foreign", foot |-> design.foot]
           \in Design
    BY <1>4, <2>1 DEF Design, UpdatedBy, TypeOK
  <2> QED
    BY <1>6, <2>2, HandEditedType DEF ToolEdit
<1>7. CASE Signal
  BY <1>7 DEF Signal, TypeOK
<1>8. CASE IndexDirectory
  <2>1. aindex' \in Descriptions \cup {Structural}
    BY <1>8, DescriptionType DEF IndexDirectory, TypeOK
  <2> QED
    BY <1>8, <2>1 DEF IndexDirectory, TypeOK, history
<1> QED
  BY <1>1, <1>2, <1>3, <1>5, <1>6, <1>7, <1>8 DEF Environment

LEMMA NextType == TypeOK /\ [Next]_vars => TypeOK'
<1> SUFFICES ASSUME TypeOK, [Next]_vars PROVE TypeOK'
  OBVIOUS
<1>1. CASE Next
  BY <1>1, CommandType, RunType, EnvironmentType DEF Next
<1>2. CASE UNCHANGED vars
  BY <1>2 DEF vars, files, history, TypeOK
<1> QED
  BY <1>1, <1>2

(* The variables keep their types: in particular the locals of an          *)
(* invocation of update_file and the design file it writes are always well *)
(* formed.                                                                 *)
THEOREM TypeCorrect == Spec => []TypeOK
BY InitType, NextType, PTL DEF Spec

-----------------------------------------------------------------------------
(* A stale source never looks fresh                                        *)

(* The source is hashed before it is read, and never goes back.            *)
HashedBeforeRead ==
    \A u \in Updaters :
        /\ run[u].pc \in {"detect", "refresh", "prepare", "llm", "write"}
           => run[u].hash <= source
        /\ run[u].pc \in {"llm", "write"} => run[u].hash <= run[u].read

(* What Finish, Goto and Publish do to the locals of the invocations.      *)
LEMMA FinishLocals ==
    ASSUME TypeOK, NEW u \in Updaters, NEW o, Finish(u, o)
    PROVE  /\ run'[u] = IdleRun /\ run'[u].pc = "idle" /\ outcome'[u] = o
           /\ \A w \in Updaters \ {u} : run'[w] = run[w] /\ outcome'[w] = outcome[w]
BY DEF TypeOK, Finish, IdleRun

LEMMA GotoLocals ==
    ASSUME TypeOK, NEW u \in Updaters, NEW s, Goto(u, s)
    PROVE  /\ run'[u] = [run[u] EXCEPT !.pc = s]
           /\ run'[u].pc = s /\ run'[u].hash = run[u].hash
           /\ run'[u].read = run[u].read
           /\ \A w \in Updaters \ {u} : run'[w] = run[w]
<1>1. run[u] \in Runs /\ run'[u] = [run[u] EXCEPT !.pc = s]
  BY DEF TypeOK, Goto
<1> QED
  BY <1>1 DEF TypeOK, Goto, Runs

LEMMA PublishLocals ==
    ASSUME TypeOK, NEW u \in Updaters, NEW d, NEW l, Publish(u, d, l)
    PROVE  /\ run'[u].pc = "publish" /\ run'[u].level = l
           /\ run'[u].desc = Description(d)
           /\ \A w \in Updaters \ {u} : run'[w] = run[w]
<1>1. /\ run[u] \in Runs
      /\ run'[u] = [run[u] EXCEPT !.pc = "publish", !.level = l,
                                  !.desc = Description(d)]
  BY DEF TypeOK, Publish
<1> QED
  BY <1>1 DEF TypeOK, Publish, Runs

LEMMA BeginLocals ==
    ASSUME TypeOK, NEW u \in Updaters, NEW f, NEW l, Begin(u, f, l)
    PROVE  /\ run'[u].pc = "start"
           /\ \A w \in Updaters \ {u} : run'[w] = run[w]
           /\ outcome' = outcome
BY DEF TypeOK, Begin, IdleRun, Runs

(* What one step of an invocation does to its own locals, as far as        *)
(* HashedBeforeRead is concerned.                                          *)
LocalStep(u) ==
    \/ run'[u].pc \in {"idle", "start", "gate", "publish"}
    \/ run'[u].pc = "detect" /\ run'[u].hash = source
    \/ /\ run[u].pc = "detect"
       /\ run'[u].pc \in {"refresh", "prepare"}
       /\ run'[u].hash = run[u].hash
    \/ /\ run[u].pc = "prepare"
       /\ run'[u].pc = "llm"
       /\ run'[u].hash = run[u].hash
       /\ run'[u].read = source
    \/ /\ run[u].pc = "llm"
       /\ run'[u].pc = "write"
       /\ run'[u].hash = run[u].hash
       /\ run'[u].read = run[u].read

LEMMA RunLocals ==
    ASSUME TypeOK, NEW u \in Updaters, Run(u) \/ Kill(u) \/ Command(u)
    PROVE  /\ source' = source
           /\ \A w \in Updaters \ {u} : run'[w] = run[w]
           /\ LocalStep(u)
<1> USE DEF LocalStep, At
<1>0. run[u] \in Runs /\ run \in [Updaters -> Runs]
  BY DEF TypeOK
<1>1. CASE Start(u)
  BY <1>1, GotoLocals DEF Start
<1>2. CASE Gate(u)
  <2>1. CASE blocked
    BY <1>2, <2>1, FinishLocals DEF Gate, files
  <2>2. CASE ~blocked
    <3>1. run' = [run EXCEPT ![u].pc = "detect", ![u].hash = source]
      BY <1>2, <2>2 DEF Gate
    <3>2. run'[u] = [run[u] EXCEPT !.pc = "detect", !.hash = source]
      BY <1>0, <3>1
    <3> QED
      BY <1>0, <1>2, <3>1, <3>2 DEF Gate, files, Runs
  <2> QED
    BY <2>1, <2>2
<1>3. CASE Detect(u)
  <2> DEFINE change == CheckChange(design, run[u].hash, Iface[run[u].hash])
             step == IF change = "AGENT_UPDATED" THEN "refresh" ELSE "prepare"
  <2> HIDE DEF change
  <2>1. CASE Finish(u, "unchanged")
    BY <1>3, <2>1, FinishLocals DEF Detect, files
  <2>2. CASE run' = [run EXCEPT ![u].level = change, ![u].pc = step]
    <3>1. run'[u] = [run[u] EXCEPT !.level = change, !.pc = step]
      BY <1>0, <2>2
    <3>2. run'[u].pc = step /\ run'[u].hash = run[u].hash
      BY <1>0, <3>1 DEF Runs
    <3> QED
      BY <1>0, <1>3, <2>2, <3>2 DEF Detect, files
  <2> QED
    BY <1>3, <2>1, <2>2 DEF Detect, change
<1>4. CASE Refresh(u)
  <2> DEFINE d == RefreshFooterHashes(design, run[u].hash, Iface[run[u].hash])
  <2> HIDE DEF d
  <2>1. \/ Finish(u, "refreshed")
        \/ Publish(u, d, "AGENT_UPDATED")
    BY <1>4 DEF Refresh, d
  <2> QED
    BY <1>4, <2>1, FinishLocals, PublishLocals DEF Refresh
<1>5. ASSUME SkeletonFallback(u)
      PROVE  LocalStep(u) /\ \A w \in Updaters \ {u} : run'[w] = run[w]
  BY <1>5, PublishLocals DEF SkeletonFallback
<1>6. CASE Prepare(u)
  <2>1. CASE Finish(u, "failed")
    BY <1>6, <2>1, FinishLocals DEF Prepare
  <2>2. CASE SkeletonFallback(u)
    BY <1>5, <1>6, <2>2 DEF Prepare
  <2>3. ASSUME NEW h, run' = [run EXCEPT ![u].pc = "llm", ![u].read = source,
                                         ![u].pre = h]
        PROVE  LocalStep(u) /\ \A w \in Updaters \ {u} : run'[w] = run[w]
    <3>1. run'[u] = [run[u] EXCEPT !.pc = "llm", !.read = source, !.pre = h]
      BY <1>0, <2>3
    <3>2. run'[u].pc = "llm" /\ run'[u].hash = run[u].hash /\ run'[u].read = source
      BY <1>0, <3>1 DEF Runs
    <3> QED
      BY <1>0, <1>6, <2>3, <3>2 DEF Prepare
  <2> QED
    BY <1>6, <2>1, <2>2, <2>3 DEF Prepare
<1>7. CASE LLMError(u)
  BY <1>7, FinishLocals DEF LLMError, files
<1>8. CASE LLMTruncated(u)
  BY <1>5, <1>8 DEF LLMTruncated
<1>9. CASE LLMAnswer(u)
  BY <1>9, FinishLocals, GotoLocals DEF LLMAnswer, files
<1>10. CASE Write(u)
  BY <1>10, PublishLocals DEF Write
<1>11. CASE RefreshAindex(u)
  BY <1>11, FinishLocals DEF RefreshAindex
<1>12. CASE Kill(u)
  BY <1>12, FinishLocals DEF Kill, files
<1>13. CASE Command(u)
  BY <1>13, BeginLocals, FinishLocals
     DEF Command, UpdateCommand, DesignUpdateCommand, files
<1> QED
  BY <1>1, <1>2, <1>3, <1>4, <1>6, <1>7, <1>8, <1>9, <1>10, <1>11, <1>12, <1>13
     DEF Run

(* Nobody else touches the locals of an invocation, or takes the source    *)
(* back to an older version.                                               *)
LEMMA EnvironmentLocals ==
    ASSUME TypeOK, Environment
    PROVE  /\ run' = run /\ outcome' = outcome
           /\ source' \in Version /\ source <= source'
           /\ disturbed' = Updaters \/ (IndexDirectory /\ disturbed' = disturbed)
<1>1. source \in Version /\ source <= source
  BY VersionAssumption DEF TypeOK, Version
<1>2. CASE EditSource
  BY <1>2, VersionAssumption DEF EditSource, TypeOK, Version
<1>3. CASE ~EditSource
  BY <1>1, <1>3 DEF Environment, QuickSkeleton, HandWrite, HandEdit, ToolEdit,
                    HandEdited, Signal, IndexDirectory, history
<1> QED
  BY <1>2, <1>3

LEMMA HashedBeforeReadStep ==
    TypeOK /\ HashedBeforeRead /\ [Next]_vars => HashedBeforeRead'
<1> SUFFICES ASSUME TypeOK, HashedBeforeRead, [Next]_vars
             PROVE  HashedBeforeRead'
  OBVIOUS
<1>0. /\ source \in Nat
      /\ \A w \in Updaters : run[w].hash \in Nat /\ run[w].read \in Nat
  BY DEF TypeOK, Runs, Version
<1>1. ASSUME NEW u \in Updaters, Run(u) \/ Kill(u) \/ Command(u)
      PROVE  HashedBeforeRead'
  <2>1. ASSUME NEW w \in Updaters
        PROVE  /\ run'[w].pc \in {"detect", "refresh", "prepare", "llm", "write"}
                  => run'[w].hash <= source'
               /\ run'[w].pc \in {"llm", "write"} => run'[w].hash <= run'[w].read
    <3>1. CASE w # u
      BY <1>1, <3>1, RunLocals DEF HashedBeforeRead
    <3>2. CASE w = u
      BY <1>0, <1>1, <3>2, RunLocals DEF HashedBeforeRead, LocalStep
    <3> QED
      BY <3>1, <3>2
  <2> QED
    BY <2>1 DEF HashedBeforeRead
<1>2. CASE Environment
  BY <1>0, <1>2, EnvironmentLocals DEF HashedBeforeRead, Version
<1>3. CASE UNCHANGED vars
  BY <1>3 DEF vars, files, HashedBeforeRead
<1> QED
  BY <1>1, <1>2, <1>3 DEF Next

LEMMA HashedBeforeReadInit == Init => HashedBeforeRead
BY DEF Init, HashedBeforeRead, IdleRun

(* The file an LLM answer is written to never vouches for a version of the *)
(* source that is newer than the one the LLM was shown: update_file hashes *)
(* before it reads.                                                        *)
THEOREM StaleNeverFresh == Spec => NeverFalselyFresh
<1>1. TypeOK /\ HashedBeforeRead /\ [Next]_vars
      => [\A u \in Updaters : Write(u) => design'.foot.src <= design'.body.src]_vars
  <2> SUFFICES ASSUME TypeOK, HashedBeforeRead, NEW u \in Updaters, Write(u)
               PROVE  design'.foot.src <= design'.body.src
    OBVIOUS
  <2>1. run[u].hash <= run[u].read
    BY DEF HashedBeforeRead, Write, At
  <2>2. design' = LLMDesign(run[u].hash, run[u].read, PreservedNotes(design))
    BY DEF Write, MachineWrites
  <2> QED
    BY <2>1, <2>2 DEF LLMDesign, Serialize
<1> QED
  BY <1>1, InitType, NextType, HashedBeforeReadInit, HashedBeforeReadStep, PTL
     DEF Spec, NeverFalselyFresh

-----------------------------------------------------------------------------
(* An undisturbed run leaves nothing to do                                 *)

(* The design file is stamped with the current source.                     *)
UpToDate ==
    /\ design # NoDesign
    /\ design.foot # NoFooter
    /\ design.foot.src = source

LEMMA UpToDateIsFresh == UpToDate => Fresh
BY DEF UpToDate, Fresh, CheckChange

Change == CheckChange(design, source, Iface[source])

(* What an invocation whose files nobody touched knows at each of its      *)
(* steps.                                                                  *)
Knows(u) ==
    /\ At(u, "detect") => run[u].hash = source
    /\ At(u, "refresh") => run[u].hash = source /\ design # NoDesign
    /\ At(u, "prepare") => /\ run[u].hash = source
                           /\ Change \notin {"UNCHANGED", "AGENT_UPDATED"}
    /\ At(u, "llm") => /\ run[u].hash = source
                       /\ Change \notin {"UNCHANGED", "AGENT_UPDATED"}
                       /\ run[u].pre # NoHash =>
                             /\ design # NoDesign
                             /\ design.foot # NoFooter
                             /\ design.foot.stamp = run[u].pre
    /\ At(u, "write") => run[u].hash = source
    /\ At(u, "publish") => UpToDate /\ run[u].desc = Description(design)
    /\ At(u, "idle") =>
          /\ outcome[u] \in {"unchanged", "discarded"} => Fresh
          /\ outcome[u] \in {"refreshed", "skeleton", "written"} =>
                /\ UpToDate
                /\ design.by \in ValidUpdatedBy => aindex \in {NoAindex, Description(design)}

Undisturbed == \A u \in Updaters : u \notin disturbed => Knows(u)

(* A step that leaves the files and the locals of u alone leaves what u    *)
(* knows alone.                                                            *)
LEMMA KnowsStable ==
    ASSUME NEW u \in Updaters, Knows(u),
           UNCHANGED <<source, design, aindex>>,
           run'[u] = run[u], outcome'[u] = outcome[u]
    PROVE  Knows(u)'
BY DEF Knows, At, UpToDate, Fresh, Change

(* The indexer writes what is so, whatever was there before.               *)
LEMMA KnowsIndexed ==
    ASSUME NEW u \in Updaters, Knows(u), IndexDirectory
    PROVE  Knows(u)'
<1>1. UNCHANGED <<source, design, run, outcome>>
  BY DEF IndexDirectory
<1>2. UpToDate /\ design.by \in ValidUpdatedBy => aindex' = Description(design)
  BY DEF IndexDirectory, UpToDate
<1>3. UpToDate' = UpToDate /\ Fresh' = Fresh /\ Change' = Change
  BY <1>1 DEF UpToDate, Fresh, Change
<1>4. Description(design)' = Description(design)
  BY <1>1
<1> QED
  BY <1>1, <1>2, <1>3, <1>4 DEF Knows, At

(* Whoever changes one of these files disturbs every other invocation.     *)
LEMMA OthersDisturb ==
    ASSUME TypeOK, NEW u \in Updaters, NEW w \in Updaters \ {u},
           Run(u) \/ Kill(u) \/ Command(u), w \notin disturbed'
    PROVE  /\ w \notin disturbed
           /\ UNCHANGED <<source, design, aindex>>
           /\ run'[w] = run[w] /\ outcome'[w] = outcome[w]
<1>0. run'[w] = run[w] /\ source' = source
  BY RunLocals
<1>1. CASE Start(u)
  BY <1>0, <1>1 DEF Start, MachineWrites, history
<1>2. CASE Gate(u)
  BY <1>0, <1>2, FinishLocals DEF Gate, files, history
<1>3. CASE Detect(u)
  BY <1>0, <1>3, FinishLocals DEF Detect, files, history
<1>4. CASE Refresh(u)
  <2>1. CASE design = NoDesign
    BY <1>0, <1>4, <2>1, FinishLocals DEF Refresh
  <2>2. CASE design # NoDesign
    BY <1>4, <2>2 DEF Refresh
  <2> QED
    BY <2>1, <2>2
<1>5. CASE SkeletonFallback(u)
  BY <1>5 DEF SkeletonFallback, MachineWrites
<1>6. CASE Prepare(u)
  <2>1. CASE UNCHANGED <<design, history>> /\ (Finish(u, "failed") \/ UNCHANGED outcome)
    BY <1>0, <1>6, <2>1, FinishLocals DEF Prepare, history
  <2> QED
    BY <1>5, <1>6, <2>1 DEF Prepare
<1>7. CASE LLMError(u)
  BY <1>0, <1>7, FinishLocals DEF LLMError, files, history
<1>8. CASE LLMTruncated(u)
  BY <1>5, <1>8 DEF LLMTruncated
<1>9. CASE LLMAnswer(u)
  BY <1>0, <1>9, FinishLocals DEF LLMAnswer, files, history
<1>10. CASE Write(u)
  BY <1>10 DEF Write, MachineWrites
<1>11. CASE RefreshAindex(u)
  BY <1>11 DEF RefreshAindex
<1>12. CASE Kill(u)
  BY <1>0, <1>12, FinishLocals DEF Kill, files, history
<1>13. CASE Command(u)
  BY <1>0, <1>13, BeginLocals, FinishLocals
     DEF Command, UpdateCommand, DesignUpdateCommand, files
<1> QED
  BY <1>1, <1>2, <1>3, <1>4, <1>6, <1>7, <1>8, <1>9, <1>10, <1>11, <1>12, <1>13
     DEF Run

(* The serialized file is stamped with the hash it was given.              *)
LEMMA SkeletonStamp ==
    ASSUME NEW by \in UpdatedBy, source \in Version,
           design' = SkeletonDesign(source, by), source' = source
    PROVE  UpToDate'
BY SkeletonType, SentinelAssumption DEF UpToDate, SkeletonDesign, Serialize, Design

LEMMA RefreshStamp ==
    ASSUME NEW d \in Design, NEW i \in Interface, NEW h \in Version
    PROVE  LET r == RefreshFooterHashes(d, h, i) IN
           r # NoDesign /\ r.foot # NoFooter /\ r.foot.src = h
<1> DEFINE r == RefreshFooterHashes(d, h, i)
<1>1. r # NoDesign
  BY RefreshType, SentinelAssumption
<1>2. CASE Parses(d)
  <2>1. RoundTrip(d.body) \in Body
    BY EditType DEF RoundTrip, Design, Body
  <2> QED
    BY <1>1, <1>2, <2>1, SerializeType DEF RefreshFooterHashes, Serialize, Design
<1>3. CASE ~Parses(d)
  <2>1. [src |-> h, iface |-> i, stamp |-> ContentHash(d)] \in Footer
    BY DEF ContentHash, Hashed, Design, Footer
  <2>2. r = [d EXCEPT !.foot = [src |-> h, iface |-> i, stamp |-> ContentHash(d)]]
    BY <1>3 DEF RefreshFooterHashes
  <2> QED
    BY <1>1, <2>1, <2>2, SentinelAssumption DEF Design
<1> QED
  BY <1>2, <1>3

(* Knows(u)' for the steps at which little is known.                       *)
LEMMA KnowsNothing ==
    ASSUME NEW u \in Updaters,
           \/ run'[u].pc \in {"start", "gate"}
           \/ /\ run'[u].pc = "idle"
              /\ outcome'[u] \in {"none", "blocked", "failed", "protected", "killed"}
    PROVE  Knows(u)'
BY DEF Knows, At

LEMMA KnowsPublish ==
    ASSUME NEW u \in Updaters, run'[u].pc = "publish", UpToDate',
           run'[u].desc = Description(design)'
    PROVE  Knows(u)'
BY DEF Knows, At

(* The change that was detected: NEW_FILE, AGENT_UPDATED, ... rest on what  *)
(* the file is.                                                            *)
LEMMA Rechecked ==
    ASSUME Change \notin {"UNCHANGED", "AGENT_UPDATED"}, NEW h, h # NoHash,
           design # NoDesign, design.foot # NoFooter, design.foot.stamp = h,
           ~Recheck(design, h)
    PROVE  Fresh
BY DEF Change, CheckChange, Recheck, Fresh

LEMMA AgentUpdatedExists ==
    ASSUME Change = "AGENT_UPDATED" PROVE design # NoDesign
BY DEF Change, CheckChange

LEMMA OwnSkeleton ==
    ASSUME TypeOK, NEW u \in Updaters, SkeletonFallback(u), source' = source
    PROVE  Knows(u)'
<1>1. "skeleton-fallback" \in UpdatedBy
  BY DEF UpdatedBy, ValidUpdatedBy
<1>2. UpToDate'
  BY <1>1, SkeletonStamp DEF SkeletonFallback, MachineWrites, TypeOK
<1> QED
  BY <1>2, PublishLocals, KnowsPublish
     DEF SkeletonFallback, MachineWrites, Description

LEMMA OwnStep ==
    ASSUME TypeOK, NEW u \in Updaters, Knows(u), Run(u) \/ Kill(u)
    PROVE  Knows(u)'
<1>0. /\ run[u] \in Runs /\ run \in [Updaters -> Runs] /\ source \in Version
      /\ run[u].hash \in Version /\ Iface[run[u].hash] \in Interface
  BY InterfaceType DEF TypeOK, Runs
<1>1. CASE Start(u)
  BY <1>1, GotoLocals, KnowsNothing DEF Start
<1>2. CASE Gate(u)
  <2>1. CASE blocked
    BY <1>2, <2>1, FinishLocals, KnowsNothing DEF Gate
  <2>2. CASE ~blocked
    <3>1. run'[u] = [run[u] EXCEPT !.pc = "detect", !.hash = source]
      BY <1>0, <1>2, <2>2 DEF Gate
    <3>2. run'[u].pc = "detect" /\ run'[u].hash = source'
      BY <1>0, <1>2, <3>1 DEF Runs, Gate, files
    <3> QED
      BY <3>2 DEF Knows, At
  <2> QED
    BY <2>1, <2>2
<1>3. CASE Detect(u)
  <2>1. run[u].hash = source
    BY <1>3 DEF Knows, Detect
  <2>2. UNCHANGED <<source, design>> /\ Change' = Change /\ Fresh' = Fresh
    BY <1>3 DEF Detect, files, Change, Fresh
  <2>3. CASE \/ Change = "UNCHANGED"
             \/ Change = "SKELETON_ONLY" /\ ~run[u].unlimited
    <3>1. Finish(u, "unchanged")
      BY <1>3, <2>1, <2>3 DEF Detect, Change
    <3>2. Fresh'
      BY <2>2, <2>3 DEF Fresh, Change
    <3> QED
      BY <3>1, <3>2, FinishLocals DEF Knows, At
  <2>4. CASE ~(\/ Change = "UNCHANGED"
               \/ Change = "SKELETON_ONLY" /\ ~run[u].unlimited)
    <3> DEFINE step == IF Change = "AGENT_UPDATED" THEN "refresh" ELSE "prepare"
    <3>1. run'[u] = [run[u] EXCEPT !.level = Change, !.pc = step]
      BY <1>0, <1>3, <2>1, <2>4 DEF Detect, Change
    <3>2. run'[u].pc = step /\ run'[u].hash = run[u].hash
      BY <1>0, <3>1 DEF Runs
    <3>3. run'[u].hash = source'
      BY <2>1, <2>2, <3>2
    <3>4. CASE Change = "AGENT_UPDATED"
      <4>1. run'[u].pc = "refresh" /\ design' # NoDesign
        BY <2>2, <3>2, <3>4, AgentUpdatedExists
      <4> QED
        BY <3>3, <4>1 DEF Knows, At
    <3>5. CASE Change # "AGENT_UPDATED"
      <4>1. /\ run'[u].pc = "prepare"
            /\ Change' \notin {"UNCHANGED", "AGENT_UPDATED"}
        BY <2>2, <2>4, <3>2, <3>5
      <4> QED
        BY <3>3, <4>1 DEF Knows, At
    <3> QED
      BY <3>4, <3>5
  <2> QED
    BY <2>3, <2>4
<1>4. CASE Refresh(u)
  <2>1. run[u].hash = source /\ design # NoDesign
    BY <1>4 DEF Knows, Refresh
  <2> DEFINE d == RefreshFooterHashes(design, run[u].hash, Iface[run[u].hash])
  <2>2. d # NoDesign /\ d.foot # NoFooter /\ d.foot.src = source
    BY <1>0, <2>1, RefreshStamp DEF TypeOK
  <2> HIDE DEF d
  <2>3. /\ design' = d /\ source' = source
        /\ \/ Publish(u, d, "AGENT_UPDATED")
           \/ d.by \notin ValidUpdatedBy /\ Finish(u, "refreshed")
    BY <1>4, <2>1 DEF Refresh, d
  <2>4. UpToDate'
    BY <2>2, <2>3 DEF UpToDate
  <2>5. CASE Publish(u, d, "AGENT_UPDATED")
    BY <2>3, <2>4, <2>5, PublishLocals, KnowsPublish DEF Description
  <2>6. CASE d.by \notin ValidUpdatedBy /\ Finish(u, "refreshed")
    BY <2>3, <2>4, <2>6, FinishLocals DEF Knows, At
  <2> QED
    BY <2>3, <2>5, <2>6
<1>5. CASE Prepare(u)
  <2>0. run[u].hash = source /\ Change \notin {"UNCHANGED", "AGENT_UPDATED"}
    BY <1>5 DEF Knows, Prepare
  <2>1. CASE Finish(u, "failed")
    BY <2>1, FinishLocals, KnowsNothing
  <2>2. CASE SkeletonFallback(u)
    BY <1>5, <2>2, OwnSkeleton DEF Prepare
  <2>3. CASE ~Finish(u, "failed") /\ ~SkeletonFallback(u)
    <3> DEFINE h == IF design = NoDesign THEN NoHash
                    ELSE IF design.foot = NoFooter THEN NoHash
                    ELSE design.foot.stamp
    <3>1. h # NoHash => /\ design # NoDesign /\ design.foot # NoFooter
                        /\ design.foot.stamp = h
      OBVIOUS
    <3>2. /\ run' = [run EXCEPT ![u].pc = "llm", ![u].read = source, ![u].pre = h]
          /\ UNCHANGED <<design, source>>
      BY <1>5, <2>3 DEF Prepare
    <3> HIDE DEF h
    <3>3. run'[u] = [run[u] EXCEPT !.pc = "llm", !.read = source, !.pre = h]
      BY <1>0, <3>2
    <3>4. run'[u].pc = "llm" /\ run'[u].hash = run[u].hash /\ run'[u].pre = h
      BY <1>0, <3>3 DEF Runs
    <3>5. Change' = Change
      BY <3>2 DEF Change
    <3> QED
      BY <2>0, <3>1, <3>2, <3>4, <3>5 DEF Knows, At
  <2> QED
    BY <2>1, <2>2, <2>3
<1>6. CASE LLMError(u)
  BY <1>6, FinishLocals, KnowsNothing DEF LLMError
<1>7. CASE LLMTruncated(u)
  BY <1>7, OwnSkeleton DEF LLMTruncated
<1>8. CASE LLMAnswer(u)
  <2>1. UNCHANGED <<source, design>>
    BY <1>8 DEF LLMAnswer, files
  <2>2. CASE Recheck(design, run[u].pre)
    <3>1. run[u].hash = source
      BY <1>8 DEF Knows, LLMAnswer
    <3>2. Goto(u, "write")
      BY <1>8, <2>2 DEF LLMAnswer
    <3>3. run'[u].pc = "write" /\ run'[u].hash = source'
      BY <2>1, <3>1, <3>2, GotoLocals
    <3> QED
      BY <3>3 DEF Knows, At
  <2>3. CASE ~Recheck(design, run[u].pre)
    <3>1. run[u].pre # NoHash
      BY <2>3 DEF Recheck
    <3>2. Fresh
      BY <1>8, <2>3, <3>1, Rechecked DEF LLMAnswer, Knows
    <3>3. Fresh'
      BY <2>1, <3>2 DEF Fresh
    <3> QED
      BY <1>8, <2>3, <3>3, FinishLocals DEF LLMAnswer, Knows, At
  <2> QED
    BY <2>2, <2>3
<1>9. CASE Write(u)
  <2> DEFINE d == LLMDesign(run[u].hash, run[u].read, PreservedNotes(design))
  <2>1. d \in Design /\ d.foot.src = run[u].hash /\ d.foot \in Footer
    <3>1. run[u].read \in Version /\ PreservedNotes(design) \in Edit
      BY <1>0, NotesType DEF Runs, TypeOK
    <3>2. [origin |-> "llm", src |-> run[u].read, text |-> 0,
           notes |-> PreservedNotes(design), prose |-> 0] \in Body
      BY <3>1, EditType DEF Body
    <3>3. "archivist" \in UpdatedBy
      BY DEF UpdatedBy, ValidUpdatedBy
    <3> QED
      BY <1>0, <3>2, <3>3, SerializeType DEF LLMDesign, Serialize
  <2>2. run[u].hash = source
    BY <1>9 DEF Knows, Write
  <2>3. design' = d /\ source' = source /\ Publish(u, d, run[u].level)
    BY <1>9 DEF Write, MachineWrites
  <2> HIDE DEF d
  <2>4. UpToDate'
    BY <2>1, <2>2, <2>3, SentinelAssumption DEF UpToDate
  <2> QED
    BY <2>3, <2>4, PublishLocals, KnowsPublish DEF Description
<1>10. CASE RefreshAindex(u)
  <2>1. UpToDate /\ run[u].desc = Description(design)
    BY <1>10 DEF Knows, RefreshAindex
  <2>2. UNCHANGED <<source, design>> /\ aindex' \in {NoAindex, run[u].desc}
    BY <1>10 DEF RefreshAindex
  <2>3. UpToDate' /\ aindex' \in {NoAindex, Description(design)'}
    BY <2>1, <2>2 DEF UpToDate, Description
  <2>4. run'[u].pc = "idle"
    BY <1>10, FinishLocals DEF RefreshAindex
  <2> QED
    BY <2>3, <2>4, UpToDateIsFresh DEF Knows, At, UpToDate, Fresh, CheckChange
<1>11. CASE Kill(u)
  BY <1>11, FinishLocals, KnowsNothing DEF Kill
<1> QED
  BY <1>1, <1>2, <1>3, <1>4, <1>5, <1>6, <1>7, <1>8, <1>9, <1>10, <1>11 DEF Run

LEMMA OwnCommand ==
    ASSUME TypeOK, NEW u \in Updaters, Command(u) PROVE Knows(u)'
BY BeginLocals, FinishLocals, KnowsNothing
   DEF Command, UpdateCommand, DesignUpdateCommand

LEMMA OwnDisturbed ==
    ASSUME NEW u \in Updaters, Run(u) \/ Kill(u), u \notin disturbed'
    PROVE  u \notin disturbed
BY DEF Run, Kill, Start, Gate, Detect, Refresh, Prepare, LLMError, LLMTruncated,
       LLMAnswer, Write, RefreshAindex, SkeletonFallback, MachineWrites, history

LEMMA UndisturbedStep ==
    TypeOK /\ Undisturbed /\ [Next]_vars => Undisturbed'
<1> SUFFICES ASSUME TypeOK, Undisturbed, [Next]_vars,
                    NEW w \in Updaters, w \notin disturbed'
             PROVE  Knows(w)'
  BY DEF Undisturbed
<1>1. ASSUME NEW u \in Updaters, Run(u) \/ Kill(u) \/ Command(u)
      PROVE  Knows(w)'
  <2>1. CASE w = u
    BY <1>1, <2>1, OwnCommand, OwnDisturbed, OwnStep DEF Undisturbed
  <2>2. CASE w # u
    BY <1>1, <2>2, OthersDisturb, KnowsStable DEF Undisturbed
  <2> QED
    BY <2>1, <2>2
<1>2. CASE Environment
  BY <1>2, EnvironmentLocals, KnowsIndexed DEF Undisturbed
<1>3. CASE UNCHANGED vars
  BY <1>3, KnowsStable DEF vars, files, history, Undisturbed
<1> QED
  BY <1>1, <1>2, <1>3 DEF Next

LEMMA UndisturbedInit == Init => Undisturbed
BY DEF Init, Undisturbed, Knows, At, IdleRun

LEMMA UndisturbedInvariant == Spec => []Undisturbed
BY InitType, NextType, UndisturbedInit, UndisturbedStep, PTL DEF Spec

(* A run whose files nobody touched leaves nothing for the next run,       *)
(* whichever of its paths it took and however many other invocations there *)
(* are: every path ends with a footer that holds the hash of the current   *)
(* source.                                                                 *)
THEOREM Settled == Spec => []SecondRunFindsNothing
<1>1. Undisturbed => SecondRunFindsNothing
  BY UpToDateIsFresh DEF Undisturbed, Knows, SecondRunFindsNothing
<1> QED
  BY <1>1, UndisturbedInvariant, PTL

(* ... and an .aindex entry that shows the description in the design file. *)
THEOREM AindexInStep == Spec => []AindexFollows
<1>1. Undisturbed => AindexFollows
  BY DEF Undisturbed, Knows, AindexFollows
<1> QED
  BY <1>1, UndisturbedInvariant, PTL

(* The two sides of the design hash disagree about the final newline, so   *)
(* no serialized file is ever recognised as unedited: once its source has  *)
(* changed, it is AGENT_UPDATED, whatever the change.                      *)
THEOREM SerializedLooksEdited ==
    ASSUME NEW b \in Body, NEW by \in UpdatedBy, NEW v \in Version,
           NEW i \in Interface, NEW h \in Version, h # v, NEW j
    PROVE  CheckChange(Serialize(b, by, v, i), h, j) = "AGENT_UPDATED"
<1> DEFINE d == Serialize(b, by, v, i)
<1>1. d \in Design /\ d.foot # NoFooter /\ d.foot.stamp # NoHash
  BY SerializeType
<1>2. d.foot.src = v /\ d.foot.stamp # ContentHash(d)
  BY DEF Serialize, ContentHash
<1> HIDE DEF d
<1>3. d # NoDesign
  BY <1>1, SentinelAssumption
<1>4. CheckChange(d, h, j) = "AGENT_UPDATED"
  BY <1>1, <1>2, <1>3 DEF CheckChange
<1> QED
  BY <1>4 DEF d

-----------------------------------------------------------------------------
(* An edit while the LLM is at work is noticed                             *)

(* Every hand edit has a number of its own: of e edits so far, a text holds *)
(* none beyond e; it may hold none at all, only older ones, or the last.   *)
Numbered(b, e) == b.text <= e /\ b.notes <= e /\ b.prose <= e
Touched(b) == b.text # 0 \/ b.notes # 0 \/ b.prose # 0
Older(b, e) == b.text < e /\ b.notes < e /\ b.prose < e
HoldsLast(b, e) == b.text = e \/ b.notes = e \/ b.prose = e

(* A recorded hash without the final newline was taken by a footer refresh *)
(* that did not serialize the file, so of a text somebody had touched, or  *)
(* of a legacy file, which the archivist signed.                           *)
Recorded(h, e) ==
    h # NoHash => Numbered(h.body, e) /\ (h.newline \/ Touched(h.body) \/ h.by = "archivist")

Traced(d, e) ==
    d # NoDesign =>
        /\ Numbered(d.body, e)
        /\ Parses(d) \/ Touched(d.body) \/ d.by = "archivist"
        /\ d.foot # NoFooter => Recorded(d.foot.stamp, e)

(* What an invocation remembers of the file it showed the LLM is older     *)
(* than the edit that raced with it.                                       *)
Remembers(u) ==
    /\ At(u, "llm") => Recorded(run[u].pre, edits)
    /\ run[u].pc \in {"start", "gate", "detect", "refresh", "prepare"}
       => u \notin raced
    /\ At(u, "llm") /\ u \in raced /\ run[u].pre # NoHash
       => Older(run[u].pre.body, edits)

Tracing == Traced(design, edits) /\ \A u \in Updaters : Remembers(u)

LEMMA RecordedLater ==
    ASSUME NEW h \in Hashed \cup {NoHash}, NEW e \in Edit, NEW f \in Edit,
           e <= f, Recorded(h, e)
    PROVE  Recorded(h, f)
BY DEF Recorded, Numbered, Hashed, Body, Edit

LEMMA SerializeTraced ==
    ASSUME NEW b \in Body, NEW by \in ValidUpdatedBy, NEW v \in Version,
           NEW i \in Interface, NEW e \in Edit, Numbered(b, e)
    PROVE  Traced(Serialize(b, by, v, i), e)
<1>1. by \in UpdatedBy
  BY DEF UpdatedBy
<1>2. Serialize(b, by, v, i).foot # NoFooter
  BY <1>1, SerializeType
<1> QED
  BY <1>2 DEF Traced, Parses, Recorded, Serialize

LEMMA SkeletonTraced ==
    ASSUME NEW v \in Version, NEW by \in ValidUpdatedBy, NEW e \in Edit
    PROVE  Traced(SkeletonDesign(v, by), e)
<1> DEFINE b == [origin |-> "skeleton", src |-> v, text |-> 0, notes |-> 0,
                 prose |-> 0]
<1>1. b \in Body /\ Numbered(b, e)
  BY EditType DEF Body, Numbered, Edit
<1> HIDE DEF b
<1>2. Traced(Serialize(b, by, v, Iface[v]), e)
  BY <1>1, SerializeTraced, InterfaceType
<1> QED
  BY <1>2 DEF SkeletonDesign, b

LEMMA LLMTraced ==
    ASSUME NEW h \in Version, NEW r \in Version, NEW n \in Edit, NEW e \in Edit,
           n <= e
    PROVE  Traced(LLMDesign(h, r, n), e)
<1> DEFINE b == [origin |-> "llm", src |-> r, text |-> 0, notes |-> n,
                 prose |-> 0]
<1>1. b \in Body /\ Numbered(b, e) /\ "archivist" \in ValidUpdatedBy
  BY EditType DEF Body, Numbered, Edit, ValidUpdatedBy
<1> HIDE DEF b
<1>2. Traced(Serialize(b, "archivist", h, Iface[h]), e)
  BY <1>1, SerializeTraced, InterfaceType
<1> QED
  BY <1>2 DEF LLMDesign, b

LEMMA RefreshTraced ==
    ASSUME NEW d \in Design, NEW h \in Version, NEW i \in Interface,
           NEW e \in Edit, Traced(d, e)
    PROVE  Traced(RefreshFooterHashes(d, h, i), e)
<1>0. d # NoDesign /\ d.body \in Body
  BY SentinelAssumption DEF Design
<1>1. CASE Parses(d)
  <2>1. RoundTrip(d.body) \in Body /\ d.by \in ValidUpdatedBy
    BY <1>1, EditType DEF RoundTrip, Parses, Design, Body
  <2>2. Numbered(RoundTrip(d.body), e)
    BY <1>0, EditType DEF Traced, Numbered, RoundTrip, Body, Edit
  <2> QED
    BY <1>1, <2>1, <2>2, SerializeTraced DEF RefreshFooterHashes
<1>2. CASE ~Parses(d)
  <2> DEFINE foot == [src |-> h, iface |-> i, stamp |-> ContentHash(d)]
  <2>1. Recorded(ContentHash(d), e) /\ (Touched(d.body) \/ d.by = "archivist")
    BY <1>0, <1>2 DEF Traced, Recorded, ContentHash
  <2>2. foot.stamp = ContentHash(d)
    OBVIOUS
  <2> HIDE DEF foot
  <2> DEFINE r == [d EXCEPT !.foot = foot]
  <2>3. r.body = d.body /\ r.by = d.by /\ r.foot = foot
    BY DEF Design
  <2> HIDE DEF r
  <2>4. Traced(r, e)
    BY <1>0, <2>1, <2>2, <2>3 DEF Traced
  <2> QED
    BY <1>2, <2>4 DEF RefreshFooterHashes, r, foot
<1> QED
  BY <1>1, <1>2

(* What a step of an invocation can make of the design file: it stays, it  *)
(* goes, or it is written in one of three ways.  The edits stay as they    *)
(* are.                                                                    *)
LEMMA RunWrites ==
    ASSUME TypeOK, NEW u \in Updaters, Run(u) \/ Kill(u) \/ Command(u)
    PROVE  /\ edits' = edits /\ raced' \subseteq raced
           /\ \/ design' \in {design, NoDesign}
              \/ design' = SkeletonDesign(source, "skeleton-fallback")
              \/ /\ design # NoDesign
                 /\ design' = RefreshFooterHashes(design, run[u].hash,
                                                  Iface[run[u].hash])
              \/ design' = LLMDesign(run[u].hash, run[u].read,
                                     PreservedNotes(design))
<1>1. CASE Start(u)
  BY <1>1 DEF Start, MachineWrites, history
<1>2. CASE Gate(u) \/ Detect(u) \/ LLMError(u) \/ LLMAnswer(u) \/ Kill(u)
  BY <1>2 DEF Gate, Detect, LLMError, LLMAnswer, Kill, files, history
<1>3. CASE Refresh(u)
  BY <1>3 DEF Refresh
<1>4. CASE Prepare(u) \/ LLMTruncated(u)
  BY <1>4 DEF Prepare, LLMTruncated, SkeletonFallback, MachineWrites, history
<1>5. CASE Write(u)
  BY <1>5 DEF Write, MachineWrites
<1>6. CASE RefreshAindex(u)
  BY <1>6 DEF RefreshAindex
<1>7. CASE Command(u)
  BY <1>7 DEF Command, UpdateCommand, DesignUpdateCommand, files
<1> QED
  BY <1>1, <1>2, <1>3, <1>4, <1>5, <1>6, <1>7 DEF Run

LEMMA RunTraces ==
    ASSUME TypeOK, NEW u \in Updaters, Run(u) \/ Kill(u) \/ Command(u),
           Traced(design, edits)
    PROVE  Traced(design, edits)'
<1>0. /\ source \in Version /\ design \in Design \cup {NoDesign}
      /\ run[u].hash \in Version /\ run[u].read \in Version
      /\ edits \in Edit /\ edits' = edits
  BY RunWrites DEF TypeOK, Runs
<1>1. CASE design' \in {design, NoDesign}
  BY <1>0, <1>1 DEF Traced
<1>2. CASE design' = SkeletonDesign(source, "skeleton-fallback")
  <2>1. "skeleton-fallback" \in ValidUpdatedBy
    BY DEF ValidUpdatedBy
  <2>2. Traced(SkeletonDesign(source, "skeleton-fallback"), edits)
    BY <1>0, <2>1, SkeletonTraced
  <2> QED
    BY <1>0, <1>2, <2>2
<1>3. CASE /\ design # NoDesign
           /\ design' = RefreshFooterHashes(design, run[u].hash,
                                            Iface[run[u].hash])
  <2>1. design \in Design /\ Iface[run[u].hash] \in Interface
    BY <1>0, <1>3, InterfaceType
  <2>2. Traced(RefreshFooterHashes(design, run[u].hash, Iface[run[u].hash]), edits)
    BY <1>0, <2>1, RefreshTraced
  <2> QED
    BY <1>0, <1>3, <2>2
<1>4. CASE design' = LLMDesign(run[u].hash, run[u].read, PreservedNotes(design))
  <2>1. PreservedNotes(design) \in Edit /\ PreservedNotes(design) <= edits
    BY <1>0, EditType, NotesType DEF PreservedNotes, Traced, Numbered, Edit
  <2>2. Traced(LLMDesign(run[u].hash, run[u].read, PreservedNotes(design)), edits)
    BY <1>0, <2>1, LLMTraced
  <2> QED
    BY <1>0, <1>4, <2>2
<1> QED
  BY <1>1, <1>2, <1>3, <1>4, RunWrites

(* What a step of an invocation makes of what it remembers.                *)
PreStep(u) ==
    \/ run'[u].pc \in {"idle", "write", "publish"}
    \/ run'[u].pc = "start" /\ u \notin raced'
    \/ /\ run[u].pc \in {"start", "gate", "detect"}
       /\ run'[u].pc \in {"gate", "detect", "refresh", "prepare"}
    \/ /\ run[u].pc = "prepare" /\ run'[u].pc = "llm"
       /\ \/ run'[u].pre = NoHash
          \/ /\ design # NoDesign /\ design.foot # NoFooter
             /\ run'[u].pre = design.foot.stamp

LEMMA RunRemembers ==
    ASSUME TypeOK, NEW u \in Updaters, Run(u) \/ Kill(u) \/ Command(u)
    PROVE  PreStep(u)
<1> USE DEF PreStep, At
<1>0. run[u] \in Runs /\ run \in [Updaters -> Runs]
  BY DEF TypeOK
<1>1. CASE Start(u)
  BY <1>1, GotoLocals DEF Start
<1>2. CASE Gate(u)
  <2>1. CASE blocked
    BY <1>2, <2>1, FinishLocals DEF Gate
  <2>2. CASE ~blocked
    <3>1. run'[u] = [run[u] EXCEPT !.pc = "detect", !.hash = source]
      BY <1>0, <1>2, <2>2 DEF Gate
    <3> QED
      BY <1>0, <1>2, <3>1 DEF Gate, Runs
  <2> QED
    BY <2>1, <2>2
<1>3. CASE Detect(u)
  <2> DEFINE change == CheckChange(design, run[u].hash, Iface[run[u].hash])
             step == IF change = "AGENT_UPDATED" THEN "refresh" ELSE "prepare"
  <2> HIDE DEF change
  <2>1. CASE Finish(u, "unchanged")
    BY <2>1, FinishLocals
  <2>2. CASE run' = [run EXCEPT ![u].level = change, ![u].pc = step]
    <3>1. run'[u] = [run[u] EXCEPT !.level = change, !.pc = step]
      BY <1>0, <2>2
    <3>2. run'[u].pc = step
      BY <1>0, <3>1 DEF Runs
    <3> QED
      BY <1>3, <3>2 DEF Detect
  <2> QED
    BY <1>3, <2>1, <2>2 DEF Detect, change
<1>4. CASE Refresh(u)
  <2> DEFINE d == RefreshFooterHashes(design, run[u].hash, Iface[run[u].hash])
  <2> HIDE DEF d
  <2>1. \/ Finish(u, "refreshed")
        \/ Publish(u, d, "AGENT_UPDATED")
    BY <1>4 DEF Refresh, d
  <2> QED
    BY <2>1, FinishLocals, PublishLocals
<1>5. ASSUME SkeletonFallback(u) PROVE PreStep(u)
  BY <1>5, PublishLocals DEF SkeletonFallback
<1>6. CASE Prepare(u)
  <2>1. CASE Finish(u, "failed")
    BY <2>1, FinishLocals
  <2>2. CASE ~Finish(u, "failed") /\ ~SkeletonFallback(u)
    <3> DEFINE h == IF design = NoDesign THEN NoHash
                    ELSE IF design.foot = NoFooter THEN NoHash
                    ELSE design.foot.stamp
    <3>1. \/ h = NoHash
          \/ design # NoDesign /\ design.foot # NoFooter /\ h = design.foot.stamp
      OBVIOUS
    <3>2. run' = [run EXCEPT ![u].pc = "llm", ![u].read = source, ![u].pre = h]
      BY <1>6, <2>2 DEF Prepare
    <3> HIDE DEF h
    <3>3. run'[u] = [run[u] EXCEPT !.pc = "llm", !.read = source, !.pre = h]
      BY <1>0, <3>2
    <3>4. run'[u].pc = "llm" /\ run'[u].pre = h
      BY <1>0, <3>3 DEF Runs
    <3> QED
      BY <1>6, <3>1, <3>4 DEF Prepare
  <2> QED
    BY <1>5, <2>1, <2>2
<1>7. CASE LLMError(u)
  BY <1>7, FinishLocals DEF LLMError
<1>8. CASE LLMTruncated(u)
  BY <1>5, <1>8 DEF LLMTruncated
<1>9. CASE LLMAnswer(u)
  BY <1>9, FinishLocals, GotoLocals DEF LLMAnswer
<1>10. CASE Write(u)
  BY <1>10, PublishLocals DEF Write
<1>11. CASE RefreshAindex(u)
  BY <1>11, FinishLocals DEF RefreshAindex
<1>12. CASE Kill(u)
  BY <1>12, FinishLocals DEF Kill
<1>13. CASE Command(u)
  BY <1>13, BeginLocals, FinishLocals
     DEF Command, UpdateCommand, DesignUpdateCommand
<1> QED
  BY <1>1, <1>2, <1>3, <1>4, <1>6, <1>7, <1>8, <1>9, <1>10, <1>11, <1>12, <1>13
     DEF Run

(* What the others can do: leave file and edits alone, make a skeleton, or *)
(* edit the file, which then holds the edit that counts the highest.       *)
LEMMA EnvironmentEdits ==
    ASSUME TypeOK, Environment, Traced(design, edits)
    PROVE  \/ UNCHANGED <<design, edits, raced>>
           \/ /\ design' = SkeletonDesign(source, "bootstrap-quick")
              /\ UNCHANGED <<edits, raced>>
           \/ /\ edits' = edits + 1 /\ edits' \in Edit
              /\ raced' = raced \cup {u \in Updaters : At(u, "llm")}
              /\ design' \in Design
              /\ HoldsLast(design'.body, edits')
              /\ Traced(design', edits')
<1> DEFINE Wrote(d) == /\ d \in Design
                       /\ HoldsLast(d.body, edits + 1)
                       /\ Traced(d, edits + 1)
<1>0. edits \in Nat /\ design \in Design \cup {NoDesign} /\ source \in Version
  BY VersionAssumption DEF TypeOK, Edit
<1>1. ASSUME NEW d, HandEdited(d), Wrote(d)
      PROVE  /\ edits' = edits + 1 /\ edits' \in Edit
             /\ raced' = raced \cup {u \in Updaters : At(u, "llm")}
             /\ design' \in Design
             /\ HoldsLast(design'.body, edits')
             /\ Traced(design', edits')
  <2>1. edits + 1 \in Edit
    BY <1>0, <1>1, VersionAssumption DEF HandEdited, Edit
  <2> QED
    BY <1>1, <2>1 DEF HandEdited
<1>2. ASSUME NEW by \in {"agent", "none"}, HandWrite(by)
      PROVE  \E d : HandEdited(d) /\ Wrote(d)
  <2> DEFINE b == [origin |-> "agent", src |-> source, text |-> edits + 1,
                   notes |-> 0, prose |-> 0]
             d == [body |-> b, by |-> by, foot |-> NoFooter]
  <2>1. HandEdited(d)
    BY <1>2 DEF HandWrite
  <2>2. edits + 1 \in Edit
    BY <1>0, <2>1, VersionAssumption DEF HandEdited, Edit
  <2>3. b \in Body /\ Numbered(b, edits + 1) /\ Touched(b) /\ HoldsLast(b, edits + 1)
    BY <1>0, <2>2, EditType DEF Body, Numbered, Touched, HoldsLast
  <2> HIDE DEF b
  <2>4. d \in Design /\ d.body = b /\ d.foot = NoFooter
    BY <2>3 DEF Design, UpdatedBy, ValidUpdatedBy
  <2> HIDE DEF d
  <2>5. Wrote(d)
    BY <2>3, <2>4 DEF Traced
  <2> QED
    BY <2>1, <2>5
<1>3. ASSUME NEW part \in {"text", "notes", "prose"}, NEW by \in UpdatedBy,
             NEW foot \in {NoFooter, design.foot}, design # NoDesign,
             HandEdited([body |-> EditedBody(part), by |-> by, foot |-> foot])
      PROVE  Wrote([body |-> EditedBody(part), by |-> by, foot |-> foot])
  <2> DEFINE d == [body |-> EditedBody(part), by |-> by, foot |-> foot]
  <2>1. edits + 1 \in Edit
    BY <1>0, <1>3, VersionAssumption DEF HandEdited, Edit
  <2>2. design.body \in Body /\ Numbered(design.body, edits)
        /\ design.foot \in Footer \cup {NoFooter}
    BY <1>0, <1>3 DEF Traced, Design
  <2>3. /\ EditedBody(part) \in Body
        /\ Numbered(EditedBody(part), edits + 1)
        /\ HoldsLast(EditedBody(part), edits + 1)
        /\ Touched(EditedBody(part))
    <3>1. PICK b : b = design.body
      OBVIOUS
    <3>2. b.text \in Nat /\ b.notes \in Nat /\ b.prose \in Nat
      BY <2>2, <3>1, VersionAssumption DEF Body, Edit
    <3>3. CASE part = "text"
      <4>1. EditedBody(part) = [b EXCEPT !.text = edits + 1]
        BY <2>2, <3>1, <3>3 DEF EditedBody, Body
      <4> QED
        BY <1>0, <2>1, <2>2, <3>1, <3>2, <4>1
           DEF Body, Numbered, HoldsLast, Touched
    <3>4. CASE part = "notes"
      <4>1. EditedBody(part) = [b EXCEPT !.notes = edits + 1]
        BY <2>2, <3>1, <3>4 DEF EditedBody, Body
      <4> QED
        BY <1>0, <2>1, <2>2, <3>1, <3>2, <4>1
           DEF Body, Numbered, HoldsLast, Touched
    <3>5. CASE part = "prose"
      <4>1. EditedBody(part) = [b EXCEPT !.prose = edits + 1]
        BY <2>2, <3>1, <3>5 DEF EditedBody, Body
      <4> QED
        BY <1>0, <2>1, <2>2, <3>1, <3>2, <4>1
           DEF Body, Numbered, HoldsLast, Touched
    <3> QED
      BY <3>3, <3>4, <3>5
  <2>4. d \in Design /\ d.body = EditedBody(part) /\ d.foot = foot
    BY <2>2, <2>3 DEF Design
  <2>5. foot # NoFooter => Recorded(foot.stamp, edits + 1)
    <3>1. SUFFICES ASSUME foot # NoFooter PROVE Recorded(foot.stamp, edits + 1)
      OBVIOUS
    <3>2. foot = design.foot /\ foot \in Footer /\ Recorded(foot.stamp, edits)
      BY <1>3, <2>2, <3>1 DEF Traced
    <3>3. foot.stamp \in Hashed \cup {NoHash} /\ edits \in Edit /\ edits <= edits + 1
      BY <1>0, <3>2 DEF Footer, TypeOK
    <3> QED
      BY <2>1, <3>2, <3>3, RecordedLater
  <2> HIDE DEF d
  <2>6. Wrote(d)
    BY <2>3, <2>4, <2>5 DEF Traced
  <2> QED
    BY <2>6 DEF d
<1>4. ASSUME NEW part \in {"text", "notes", "prose"}, NEW signs \in BOOLEAN,
             NEW keeps \in BOOLEAN, HandEdit(part, signs, keeps)
      PROVE  \E d : HandEdited(d) /\ Wrote(d)
  <2> DEFINE by   == IF signs THEN "agent" ELSE design.by
             foot == IF keeps THEN design.foot ELSE NoFooter
  <2>1. /\ design # NoDesign
        /\ HandEdited([body |-> EditedBody(part), by |-> by, foot |-> foot])
    BY <1>4 DEF HandEdit
  <2>2. by \in UpdatedBy /\ foot \in {NoFooter, design.foot}
    BY <1>0, <2>1 DEF UpdatedBy, ValidUpdatedBy, Design
  <2> HIDE DEF by, foot
  <2> QED
    BY <1>3, <2>1, <2>2
<1>5. ASSUME NEW part \in {"text", "notes", "prose"}, ToolEdit(part)
      PROVE  \E d : HandEdited(d) /\ Wrote(d)
  <2>1. /\ design # NoDesign
        /\ HandEdited([body |-> EditedBody(part), by |-> "foreign",
                       foot |-> design.foot])
    BY <1>5 DEF ToolEdit
  <2>2. "foreign" \in UpdatedBy /\ design.foot \in {NoFooter, design.foot}
    BY DEF UpdatedBy
  <2> QED
    BY <1>3, <2>1, <2>2
<1>6. CASE QuickSkeleton \/ EditSource \/ Signal \/ IndexDirectory
  BY <1>6 DEF QuickSkeleton, EditSource, Signal, IndexDirectory, history
<1>7. CASE \E d : HandEdited(d) /\ Wrote(d)
  <2> HIDE DEF Wrote
  <2> QED
    BY <1>1, <1>7
<1> QED
  BY <1>2, <1>4, <1>5, <1>6, <1>7 DEF Environment

LEMMA TracingInit == Init => Tracing
<1> SUFFICES ASSUME Init PROVE Tracing
  OBVIOUS
<1>1. Traced(LegacyDesign, 0)
  <2>1. "archivist" \in UpdatedBy /\ "archivist" \in ValidUpdatedBy
    BY DEF UpdatedBy, ValidUpdatedBy
  <2>2. LegacyDesign \in Design
    BY LegacyType
  <2>3. PICK s : s = SkeletonDesign(0, "archivist")
    OBVIOUS
  <2>4. s \in Design /\ s.foot \in Footer
    BY <2>1, <2>3, SkeletonType, EditType
  <2>5. s.body.text = 0 /\ s.body.notes = 0 /\ s.body.prose = 0 /\ s.by = "archivist"
    BY <2>3 DEF SkeletonDesign, Serialize
  <2>6. LegacyDesign = [s EXCEPT !.foot = NoFooter]
    BY <2>3 DEF LegacyDesign
  <2>7. /\ LegacyDesign.body = s.body /\ LegacyDesign.by = s.by
        /\ LegacyDesign.foot = NoFooter
    BY <2>4, <2>6 DEF Design
  <2> QED
    BY <2>5, <2>7 DEF Traced, Numbered
<1>2. Traced(design, edits)
  BY <1>1 DEF Init, Traced
<1>3. \A u \in Updaters : Remembers(u)
  BY DEF Init, Remembers, At, IdleRun
<1> QED
  BY <1>2, <1>3 DEF Tracing

LEMMA TracingStep == TypeOK /\ Tracing /\ [Next]_vars => Tracing'
<1> SUFFICES ASSUME TypeOK, Tracing, [Next]_vars PROVE Tracing'
  OBVIOUS
<1>0. /\ design \in Design \cup {NoDesign} /\ edits \in Edit /\ edits \in Nat
      /\ Traced(design, edits) /\ source \in Version
      /\ \A u \in Updaters : run[u].pre \in Hashed \cup {NoHash} /\ Remembers(u)
  BY VersionAssumption DEF TypeOK, Runs, Edit, Tracing
<1>1. ASSUME NEW u \in Updaters, Run(u) \/ Kill(u) \/ Command(u)
      PROVE  Tracing'
  <2>1. Traced(design, edits)'
    BY <1>0, <1>1, RunTraces
  <2>2. edits' = edits /\ raced' \subseteq raced
    BY <1>1, RunWrites
  <2>3. ASSUME NEW w \in Updaters PROVE Remembers(w)'
    <3>1. CASE w # u
      <4>1. run'[w] = run[w]
        BY <1>1, <3>1, RunLocals
      <4> QED
        BY <1>0, <2>2, <4>1 DEF Remembers, At
    <3>2. CASE w = u
      <4>1. PreStep(u)
        BY <1>1, RunRemembers
      <4>2. CASE run[u].pc = "prepare" /\ run'[u].pc = "llm"
        <5>1. \/ run'[u].pre = NoHash
              \/ /\ design # NoDesign /\ design.foot # NoFooter
                 /\ run'[u].pre = design.foot.stamp
          BY <4>1, <4>2 DEF PreStep
        <5>2. Recorded(run'[u].pre, edits')
          BY <1>0, <2>2, <5>1 DEF Recorded, Traced
        <5>3. u \notin raced'
          BY <1>0, <2>2, <4>2 DEF Remembers
        <5> QED
          BY <3>2, <4>2, <5>2, <5>3 DEF Remembers, At
      <4>3. CASE ~(run[u].pc = "prepare" /\ run'[u].pc = "llm")
        BY <1>0, <2>2, <3>2, <4>1, <4>3 DEF PreStep, Remembers, At
      <4> QED
        BY <4>2, <4>3
    <3> QED
      BY <3>1, <3>2
  <2> QED
    BY <2>1, <2>3 DEF Tracing
<1>2. CASE Environment
  <2>0. run' = run
    BY <1>2, EnvironmentLocals
  <2>1. CASE UNCHANGED <<design, edits, raced>>
    BY <1>0, <2>0, <2>1 DEF Tracing, Remembers, At
  <2>2. CASE /\ design' = SkeletonDesign(source, "bootstrap-quick")
             /\ UNCHANGED <<edits, raced>>
    <3>1. "bootstrap-quick" \in ValidUpdatedBy
      BY DEF ValidUpdatedBy
    <3>2. Traced(SkeletonDesign(source, "bootstrap-quick"), edits)
      BY <1>0, <3>1, SkeletonTraced
    <3>3. Traced(design, edits)'
      BY <2>2, <3>2
    <3> QED
      BY <1>0, <2>0, <2>2, <3>3 DEF Tracing, Remembers, At
  <2>3. CASE /\ edits' = edits + 1 /\ edits' \in Edit
             /\ raced' = raced \cup {u \in Updaters : At(u, "llm")}
             /\ Traced(design', edits')
    <3>1. ASSUME NEW w \in Updaters PROVE Remembers(w)'
      <4>1. ASSUME At(w, "llm")
            PROVE  /\ Recorded(run[w].pre, edits')
                   /\ run[w].pre # NoHash => Older(run[w].pre.body, edits')
        <5>1. Recorded(run[w].pre, edits)
          BY <1>0, <4>1 DEF Remembers
        <5>2. Recorded(run[w].pre, edits')
          <6>1. edits <= edits'
            BY <1>0, <2>3
          <6> QED
            BY <1>0, <2>3, <5>1, <6>1, RecordedLater
        <5>3. run[w].pre # NoHash => Older(run[w].pre.body, edits')
          BY <1>0, <2>3, <5>1 DEF Recorded, Numbered, Older, Hashed, Body, Edit
        <5> QED
          BY <5>2, <5>3
      <4>2. run[w].pc \in {"start", "gate", "detect", "refresh", "prepare"}
            => w \notin raced'
        BY <1>0, <2>3 DEF Remembers, At
      <4> QED
        BY <2>0, <4>1, <4>2 DEF Remembers, At
    <3> QED
      BY <2>3, <3>1 DEF Tracing
  <2> QED
    BY <1>0, <1>2, <2>1, <2>2, <2>3, EnvironmentEdits
<1>3. CASE UNCHANGED vars
  BY <1>3 DEF vars, files, history, Tracing, Remembers, At
<1> QED
  BY <1>1, <1>2, <1>3 DEF Next

(* An answer that is not to be written ends its invocation.                *)
LEMMA Discarded ==
    ASSUME TypeOK, NEW u \in Updaters, LLMAnswer(u), run[u].pre # NoHash,
           design # NoDesign, ContentHash(design) # run[u].pre
    PROVE  At(u, "idle")'
<1>1. Finish(u, "discarded")
  BY DEF LLMAnswer, Recheck
<1> QED
  BY <1>1, FinishLocals DEF At

(* However many invocations work on the file at once: as long as the last  *)
(* of the hand edits, which an invocation's LLM call was in flight at, is   *)
(* still in the file, the invocation throws the LLM's answer away.         *)
SurvivingEditNoticed ==
    [][\A u \in Updaters :
          /\ LLMAnswer(u)
          /\ u \in raced
          /\ run[u].pre # NoHash
          /\ design # NoDesign
          /\ HoldsLast(design.body, edits)
          => At(u, "idle")']_vars

THEOREM SurvivorsNoticed == Spec => SurvivingEditNoticed
<1>1. TypeOK /\ Tracing /\ [Next]_vars
      => [\A u \in Updaters :
          /\ LLMAnswer(u)
          /\ u \in raced
          /\ run[u].pre # NoHash
          /\ design # NoDesign
          /\ HoldsLast(design.body, edits)
          => At(u, "idle")']_vars
  <2> SUFFICES ASSUME TypeOK, Tracing, NEW u \in Updaters, LLMAnswer(u),
                      u \in raced, run[u].pre # NoHash, design # NoDesign,
                      HoldsLast(design.body, edits)
               PROVE  At(u, "idle")'
    OBVIOUS
  <2>1. Older(run[u].pre.body, edits)
    BY DEF Tracing, Remembers, LLMAnswer
  <2>2. /\ run[u].pre \in Hashed \cup {NoHash} /\ edits \in Nat
    BY VersionAssumption DEF TypeOK, Runs, Edit
  <2>3. run[u].pre.body # design.body
    BY <2>1, <2>2, VersionAssumption DEF Older, HoldsLast, Hashed, Body, Edit
  <2>4. ContentHash(design) # run[u].pre
    BY <2>3 DEF ContentHash
  <2> QED
    BY <2>4, Discarded
<1> QED
  BY <1>1, InitType, NextType, TracingInit, TracingStep, PTL
     DEF Spec, SurvivingEditNoticed

(* What is recorded of a file is never the hash of a skeleton: that is of  *)
(* a text nobody has touched, without the final newline, and not signed by *)
(* the archivist.                                                          *)
LEMMA SkeletonUnlike ==
    ASSUME NEW h, NEW e, h # NoHash, Recorded(h, e), NEW v, NEW by, by # "archivist"
    PROVE  ContentHash(SkeletonDesign(v, by)) # h
BY DEF Recorded, Touched, ContentHash, SkeletonDesign, Serialize

(* With a single invocation, nobody writes over the edit but QuickSkeleton, *)
(* and what it writes is not what the invocation remembers either.         *)
Altered ==
    \A u \in Updaters :
        /\ At(u, "llm") /\ u \in raced /\ run[u].pre # NoHash
        /\ design # NoDesign
        => ContentHash(design) # run[u].pre

LEMMA AlteredStep ==
    ASSUME NEW v, Updaters \subseteq {v}
    PROVE  TypeOK /\ Tracing /\ Altered /\ [Next]_vars => Altered'
<1> SUFFICES ASSUME TypeOK, Tracing, Altered, [Next]_vars, NEW u \in Updaters,
                    run'[u].pc = "llm", u \in raced', run'[u].pre # NoHash,
                    design' # NoDesign
             PROVE  ContentHash(design') # run'[u].pre
  BY DEF Altered, At
<1>0. /\ Traced(design, edits) /\ Remembers(u) /\ edits \in Nat
      /\ run[u].pre \in Hashed \cup {NoHash}
  BY VersionAssumption DEF TypeOK, Runs, Edit, Tracing
<1>1. ASSUME NEW w \in Updaters, Run(w) \/ Kill(w) \/ Command(w)
      PROVE  FALSE
  <2>1. w = u
    OBVIOUS
  <2>2. run[u].pc = "prepare"
    BY <1>1, <2>1, RunRemembers DEF PreStep
  <2>3. u \notin raced'
    BY <1>0, <1>1, <2>2, RunWrites DEF Remembers
  <2> QED
    BY <2>3
<1>2. CASE Environment
  <2>0. run' = run /\ At(u, "llm") /\ Recorded(run[u].pre, edits)
        /\ run[u].pre # NoHash
    <3>1. run' = run
      BY <1>2, EnvironmentLocals
    <3> QED
      BY <1>0, <3>1 DEF Remembers, At
  <2>1. CASE UNCHANGED <<design, edits, raced>>
    BY <2>0, <2>1 DEF Altered
  <2>2. CASE design' = SkeletonDesign(source, "bootstrap-quick")
    BY <2>0, <2>2, SkeletonUnlike
  <2>3. CASE /\ edits' = edits + 1
             /\ HoldsLast(design'.body, edits')
    <3>1. Numbered(run[u].pre.body, edits)
      BY <2>0 DEF Recorded
    <3>2. design'.body # run[u].pre.body
      BY <1>0, <2>0, <2>3, <3>1, VersionAssumption
         DEF HoldsLast, Numbered, Hashed, Body, Edit
    <3> QED
      BY <2>0, <3>2 DEF ContentHash
  <2> QED
    BY <1>0, <1>2, <2>1, <2>2, <2>3, EnvironmentEdits
<1>3. CASE UNCHANGED vars
  BY <1>3 DEF vars, files, history, Altered, At
<1> QED
  BY <1>1, <1>2, <1>3 DEF Next

(* One invocation, any number of edits and versions: an edit that comes    *)
(* while the LLM is at work on a file with a design_hash makes the         *)
(* invocation throw the answer away, whatever else is done to the file     *)
(* meanwhile.                                                              *)
THEOREM EditNoticed ==
    ASSUME NEW v, Updaters \subseteq {v} PROVE Spec => EditInFlightNoticed
<1>1. TypeOK /\ Altered /\ [Next]_vars
      => [\A u \in Updaters :
          /\ LLMAnswer(u)
          /\ u \in raced
          /\ run[u].pre # NoHash
          /\ design # NoDesign
          => At(u, "idle")']_vars
  <2> SUFFICES ASSUME TypeOK, Altered, NEW u \in Updaters, LLMAnswer(u),
                      u \in raced, run[u].pre # NoHash, design # NoDesign
               PROVE  At(u, "idle")'
    OBVIOUS
  <2>1. ContentHash(design) # run[u].pre
    BY DEF Altered, LLMAnswer
  <2> QED
    BY <2>1, Discarded
<1>2. Init => Altered
  BY DEF Init, Altered
<1>3. TypeOK /\ Tracing /\ Altered /\ [Next]_vars => Altered'
  BY AlteredStep
<1> QED
  BY <1>1, <1>2, <1>3, InitType, NextType, TracingInit, TracingStep, PTL
     DEF Spec, EditInFlightNoticed
=============================================================================
