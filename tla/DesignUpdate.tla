---------------------------- MODULE DesignUpdate ----------------------------
(***************************************************************************)
(* The life of one source file and its design file under everything that   *)
(* writes them: `lexictl update` and `lexi design update` (update_file),   *)
(* `lexictl update --skeleton` (_generate_quick_design), a developer who   *)
(* edits the source, an agent or maintainer who edits the design file, and *)
(* IWH "blocked" signals that come and go.                                 *)
(*                                                                         *)
(* update_file is a coroutine; one invocation is split where something     *)
(* else can come between: at the await on the LLM, and where it goes back  *)
(* to a file it has already looked at (another process may have changed    *)
(* it).  Several invocations may run at once, in separate processes        *)
(* (command line, git hook, curator).                                      *)
(***************************************************************************)
EXTENDS DesignFile

CONSTANTS
    Updaters,     \* invocations of the update command that may run at once
    Conflicted,   \* versions of the source with merge conflict markers
    Oversized,    \* versions of the source the size gate keeps from the LLM
    Forces,       \* values of --force the users pass
    Limits,       \* values of --unlimited the users pass
    Structural,   \* what the indexer says of a file that has no description
    NoAindex      \* no .aindex in the directory, or one that does not parse

ASSUME SetsAssumption ==
    /\ Conflicted \subseteq Version /\ Oversized \subseteq Version
    /\ Forces \subseteq BOOLEAN /\ Limits \subseteq BOOLEAN

VARIABLES
    source,      \* version of the source file on disk
    design,      \* design file on disk, or NoDesign
    blocked,     \* a "blocked" IWH signal lies in the file's directory
    aindex,      \* the file's description in its directory's .aindex, or NoAindex
    run,         \* the locals of each invocation of update_file
    outcome,     \* how each invocation last ended
    \* history, read by no action's guard but that of the hand edits
    edits,       \* hand edits of the design file so far
    handmade,    \* the design file was edited by hand since a machine wrote it
    raced,       \* invocations whose LLM call was in flight at a hand edit
    disturbed    \* invocations since whose start somebody else did something

files == <<source, design, blocked, aindex>>
history == <<edits, handmade, raced, disturbed>>
vars == <<files, run, outcome, history>>

(* What .aindex shows of a design file: the description in its frontmatter, *)
(* which every generation writes anew.                                      *)
Description(d) == [origin |-> d.body.origin, src |-> d.body.src]

Descriptions == [origin : {"llm", "skeleton", "agent"}, src : Version]

ASSUME AindexAssumption == NoAindex \notin Descriptions /\ NoAindex # Structural

Steps == {"idle", "start", "gate", "detect", "refresh", "prepare", "llm",
          "write", "publish"}

Outcomes == {"none", "blocked", "unchanged", "refreshed", "failed", "skeleton",
             "discarded", "written", "protected", "killed"}

(* pc: where the invocation is;  hash, read: the versions content_hash was  *)
(* computed from and the LLM was shown;  pre: pre_llm_design_hash;  desc:   *)
(* the description still to be written to .aindex.                          *)
Runs == [pc : Steps, force : BOOLEAN, unlimited : BOOLEAN, level : ChangeLevel,
         hash : Version, read : Version, pre : Hashed \cup {NoHash},
         desc : Descriptions]

IdleRun == [pc |-> "idle", force |-> FALSE, unlimited |-> FALSE,
            level |-> "UNCHANGED", hash |-> 0, read |-> 0, pre |-> NoHash,
            desc |-> [origin |-> "skeleton", src |-> 0]]

TypeOK ==
    /\ source \in Version
    /\ design \in Design \cup {NoDesign}
    /\ blocked \in BOOLEAN
    /\ aindex \in Descriptions \cup {Structural, NoAindex}
    /\ run \in [Updaters -> Runs]
    /\ outcome \in [Updaters -> Outcomes]
    /\ edits \in Edit
    /\ handmade \in BOOLEAN
    /\ raced \subseteq Updaters
    /\ disturbed \subseteq Updaters

-----------------------------------------------------------------------------
(* A project just initialised, or one whose design file was written by a   *)
(* release that put no design_hash in the footer, which is no footer to    *)
(* the parser.                                                             *)
LegacyDesign ==
    [SkeletonDesign(0, "archivist") EXCEPT !.foot = NoFooter]

Init ==
    /\ source = 0
    /\ design \in {NoDesign, LegacyDesign}
    /\ blocked = FALSE
    /\ aindex \in {Structural, NoAindex}
    /\ run = [u \in Updaters |-> IdleRun]
    /\ outcome = [u \in Updaters |-> "none"]
    /\ edits = 0 /\ handmade = FALSE /\ raced = {} /\ disturbed = {}

-----------------------------------------------------------------------------
(* Bookkeeping shared by the steps of an invocation.                       *)

At(u, step) == run[u].pc = step

Goto(u, step) == run' = [run EXCEPT ![u].pc = step]

Finish(u, o) ==
    /\ run' = [run EXCEPT ![u] = IdleRun]
    /\ outcome' = [outcome EXCEPT ![u] = o]

(* The invocation writes d; every other invocation has been disturbed.     *)
MachineWrites(u, d) ==
    /\ design' = d
    /\ handmade' = FALSE
    /\ disturbed' = disturbed \cup (Updaters \ {u})
    /\ UNCHANGED <<edits, raced>>

(* Mutant of Publish: the description is taken before the file is written. *)
PublishOldDescription(u, d, lvl) ==
    run' = [run EXCEPT ![u].pc = "publish", ![u].level = lvl,
                       ![u].desc = IF design = NoDesign THEN Description(d)
                                   ELSE Description(design)]

Publish(u, d, lvl) ==
    run' = [run EXCEPT ![u].pc = "publish", ![u].level = lvl,
                       ![u].desc = Description(d)]

-----------------------------------------------------------------------------
(* The commands                                                            *)

Begin(u, f, l) ==
    /\ run' = [run EXCEPT ![u] = [IdleRun EXCEPT !.pc = "start", !.force = f,
                                                 !.unlimited = l]]
    /\ UNCHANGED outcome

(* `lexictl update` goes straight to update_file.                          *)
UpdateCommand(u, f, l) ==
    /\ At(u, "idle")
    /\ Begin(u, f, l)
    /\ disturbed' = disturbed \ {u}
    /\ raced' = raced \ {u}
    /\ UNCHANGED <<files, edits, handmade>>

(* `lexi design update` asks check_design_update first, which spares files *)
(* that agents and unknown tools signed, and files that are up to date.    *)
Protected(d) ==
    IF d = NoDesign THEN FALSE
    ELSE IF d.by \in {"skeleton-fallback", "bootstrap-quick"} THEN FALSE
    ELSE IF d.by \in {"agent", "foreign"} THEN TRUE
    ELSE IF d.foot = NoFooter THEN FALSE
    ELSE d.foot.src = source

DesignUpdateCommand(u, f, l) ==
    /\ At(u, "idle")
    /\ IF blocked THEN Finish(u, "blocked")
       ELSE IF ~f /\ Protected(design) THEN Finish(u, "protected")
       ELSE Begin(u, f, l)
    /\ disturbed' = disturbed \ {u}
    /\ raced' = raced \ {u}
    /\ UNCHANGED <<files, edits, handmade>>

-----------------------------------------------------------------------------
(* update_file                                                             *)

(* 1a. --force removes the design file, before anything is checked.        *)
Start(u) ==
    /\ At(u, "start")
    /\ Goto(u, "gate")
    /\ IF run[u].force /\ design # NoDesign
       THEN MachineWrites(u, NoDesign)
       ELSE UNCHANGED <<design, history>>
    /\ UNCHANGED <<source, blocked, aindex, outcome>>

(* 1b. an IWH "blocked" signal ends the run;  2. compute_hashes.           *)
Gate(u) ==
    /\ At(u, "gate")
    /\ IF blocked
       THEN Finish(u, "blocked")
       ELSE /\ run' = [run EXCEPT ![u].pc = "detect", ![u].hash = source]
            /\ UNCHANGED outcome
    /\ UNCHANGED <<files, history>>

(* 3-5. check_change and the early returns it leads to.                    *)
Detect(u) ==
    /\ At(u, "detect")
    /\ LET change == CheckChange(design, run[u].hash, Iface[run[u].hash]) IN
       IF \/ change = "UNCHANGED"
          \/ change = "SKELETON_ONLY" /\ ~run[u].unlimited
       THEN Finish(u, "unchanged")
       ELSE /\ run' = [run EXCEPT
                          ![u].level = change,
                          ![u].pc = IF change = "AGENT_UPDATED" THEN "refresh"
                                                                ELSE "prepare"]
            /\ UNCHANGED outcome
    /\ UNCHANGED <<files, history>>

(* 5. AGENT_UPDATED: only the footer is to be refreshed.  The .aindex      *)
(* follows when the refreshed file has readable frontmatter.               *)
Refresh(u) ==
    /\ At(u, "refresh")
    /\ IF design = NoDesign
       THEN Finish(u, "refreshed") /\ UNCHANGED <<design, disturbed>>
       ELSE LET d == RefreshFooterHashes(design, run[u].hash,
                                         Iface[run[u].hash]) IN
            /\ design' = d
            /\ disturbed' = disturbed \cup (Updaters \ {u})
            /\ IF d.by \in ValidUpdatedBy
               THEN Publish(u, d, "AGENT_UPDATED") /\ UNCHANGED outcome
               ELSE Finish(u, "refreshed")
    /\ UNCHANGED <<source, blocked, aindex, edits, handmade, raced>>

(* Mutant of SkeletonFallback: an updated_by outside the model's literals.  *)
UnknownSkeleton(u) ==
    LET d == SkeletonDesign(source, "skeleton") IN
    /\ MachineWrites(u, d)
    /\ Publish(u, d, "NEW_FILE")
    /\ UNCHANGED outcome

(* _write_skeleton_fallback                                                *)
SkeletonFallback(u) ==
    LET d == SkeletonDesign(source, "skeleton-fallback") IN
    /\ MachineWrites(u, d)
    /\ Publish(u, d, "NEW_FILE")
    /\ UNCHANGED outcome

(* 5b-6a. conflict markers, foreign updated_by, the size gate; then the    *)
(* source and the design hash are read and the LLM is called.              *)
Prepare(u) ==
    /\ At(u, "prepare")
    /\ IF source \in Conflicted \/ (design # NoDesign /\ design.by = "foreign")
       THEN Finish(u, "failed") /\ UNCHANGED <<design, history>>
       ELSE IF source \in Oversized /\ ~run[u].unlimited
       THEN SkeletonFallback(u)
       ELSE /\ run' = [run EXCEPT
                          ![u].pc = "llm",
                          ![u].read = source,
                          ![u].pre = IF design = NoDesign THEN NoHash
                                     ELSE IF design.foot = NoFooter THEN NoHash
                                     ELSE design.foot.stamp]
            /\ UNCHANGED <<design, outcome, history>>
    /\ UNCHANGED <<source, blocked, aindex>>

(* 6. the LLM call comes back: an error, ...                               *)
LLMError(u) ==
    /\ At(u, "llm")
    /\ Finish(u, "failed")
    /\ UNCHANGED <<files, history>>

(* ... truncated output, ...                                               *)
LLMTruncated(u) ==
    /\ At(u, "llm")
    /\ SkeletonFallback(u)
    /\ UNCHANGED <<source, blocked, aindex>>

(* Mutant of Recheck: the recorded design hash is compared with itself     *)
(* instead of with the text.                                               *)
RecheckRecorded(d, h) ==
    h = NoHash \/ d = NoDesign \/ (d.foot # NoFooter => d.foot.stamp = h)

(* ... or a design, which the re-check of the design hash may discard.     *)
Recheck(d, h) == h = NoHash \/ d = NoDesign \/ ContentHash(d) = h

LLMAnswer(u) ==
    /\ At(u, "llm")
    /\ IF Recheck(design, run[u].pre)
       THEN Goto(u, "write") /\ UNCHANGED outcome
       ELSE Finish(u, "discarded")
    /\ UNCHANGED <<files, history>>

(* Mutant of Write: the source is hashed again when the footer is made.    *)
WriteRehashed(u) ==
    /\ At(u, "write")
    /\ LET d == LLMDesign(source, run[u].read, PreservedNotes(design)) IN
       MachineWrites(u, d) /\ Publish(u, d, run[u].level)
    /\ UNCHANGED <<source, blocked, aindex, outcome>>

(* 7-9. the new design file, with the preserved sections of the file it    *)
(* replaces, stamped with the hash computed in step 2.                     *)
Write(u) ==
    /\ At(u, "write")
    /\ LET d == LLMDesign(run[u].hash, run[u].read, PreservedNotes(design)) IN
       MachineWrites(u, d) /\ Publish(u, d, run[u].level)
    /\ UNCHANGED <<source, blocked, aindex, outcome>>

(* 10. _refresh_parent_aindex, which leaves alone what it cannot read.     *)
RefreshAindex(u) ==
    /\ At(u, "publish")
    /\ aindex' = IF aindex = NoAindex THEN NoAindex ELSE run[u].desc
    /\ Finish(u, IF run[u].level = "AGENT_UPDATED" THEN "refreshed"
                 ELSE IF run[u].desc.origin = "skeleton" THEN "skeleton" ELSE "written")
    /\ disturbed' = disturbed \cup (Updaters \ {u})
    /\ UNCHANGED <<source, design, blocked, edits, handmade, raced>>

(* The process is killed.                                                  *)
Kill(u) ==
    /\ ~At(u, "idle")
    /\ Finish(u, "killed")
    /\ UNCHANGED <<files, history>>

-----------------------------------------------------------------------------
(* Everybody else                                                          *)

(* _generate_quick_design, which has no IWH check and no await.            *)
QuickSkeleton ==
    /\ CheckChange(design, source, Iface[source])
           \notin {"UNCHANGED", "AGENT_UPDATED"}
    /\ LET d == SkeletonDesign(source, "bootstrap-quick") IN
       /\ design' = d
       /\ aindex' = IF aindex = NoAindex THEN NoAindex ELSE Description(d)
    /\ handmade' = FALSE
    /\ disturbed' = Updaters
    /\ UNCHANGED <<source, blocked, run, outcome, edits, raced>>

EditSource ==
    /\ source < MaxVersion
    /\ source' = source + 1
    /\ disturbed' = Updaters
    /\ UNCHANGED <<design, blocked, aindex, run, outcome, edits, handmade, raced>>

HandEdited(d) ==
    /\ edits < MaxEdits
    /\ design' = d
    /\ edits' = edits + 1
    /\ handmade' = TRUE
    /\ raced' = raced \cup {u \in Updaters : At(u, "llm")}
    /\ disturbed' = Updaters
    /\ UNCHANGED <<source, blocked, aindex, run, outcome>>

(* An agent writes a design file from scratch: no footer, and perhaps no   *)
(* readable frontmatter.                                                   *)
HandWrite(by) ==
    /\ design = NoDesign
    /\ HandEdited([body |-> [origin |-> "agent", src |-> source,
                             text |-> edits + 1, notes |-> 0, prose |-> 0],
                   by |-> by, foot |-> NoFooter])

(* One part of the file is edited: by an agent or maintainer, who may sign *)
(* it and may lose the footer, or by a tool with an updated_by of its own. *)
EditedBody(part) ==
    [design.body EXCEPT !.text  = IF part = "text" THEN edits + 1 ELSE @,
                        !.notes = IF part = "notes" THEN edits + 1 ELSE @,
                        !.prose = IF part = "prose" THEN edits + 1 ELSE @]

HandEdit(part, signs, keeps) ==
    /\ design # NoDesign
    /\ HandEdited([body |-> EditedBody(part),
                   by   |-> IF signs THEN "agent" ELSE design.by,
                   foot |-> IF keeps THEN design.foot ELSE NoFooter])

ToolEdit(part) ==
    /\ design # NoDesign
    /\ HandEdited([body |-> EditedBody(part), by |-> "foreign",
                   foot |-> design.foot])

Signal ==
    /\ blocked' = ~blocked
    /\ disturbed' = Updaters
    /\ UNCHANGED <<source, design, aindex, run, outcome, edits, handmade, raced>>

(* The directory is indexed (`lexi index`, the end of an update of the     *)
(* project), from the frontmatter of the design file if that is readable.  *)
IndexDirectory ==
    /\ aindex' = IF design = NoDesign THEN Structural
                 ELSE IF design.by \in ValidUpdatedBy THEN Description(design)
                 ELSE Structural
    /\ UNCHANGED <<source, design, blocked, run, outcome, history>>

-----------------------------------------------------------------------------
Run(u) ==
    \/ Start(u) \/ Gate(u) \/ Detect(u) \/ Refresh(u) \/ Prepare(u)
    \/ LLMError(u) \/ LLMTruncated(u) \/ LLMAnswer(u)
    \/ Write(u) \/ RefreshAindex(u)

Command(u) ==
    \E f \in Forces, l \in Limits :
        UpdateCommand(u, f, l) \/ DesignUpdateCommand(u, f, l)

Environment ==
    \/ QuickSkeleton
    \/ EditSource
    \/ IndexDirectory
    \/ \E by \in {"agent", "none"} : HandWrite(by)
    \/ \E part \in {"text", "notes", "prose"}, signs, keeps \in BOOLEAN :
          HandEdit(part, signs, keeps)
    \/ \E part \in {"text", "notes", "prose"} : ToolEdit(part)
    \/ Signal

Next ==
    \/ \E u \in Updaters : Command(u) \/ Run(u) \/ Kill(u)
    \/ Environment

Spec == Init /\ [][Next]_vars

(* An invocation that runs keeps running (the LLM client answers or fails), *)
(* and there is always another plain update: the commit hook and the        *)
(* operator see to that.                                                    *)
Fairness ==
    \A u \in Updaters : WF_vars(Run(u)) /\ WF_vars(UpdateCommand(u, FALSE, FALSE))

FairSpec == Spec /\ Fairness

-----------------------------------------------------------------------------
(* Properties                                                              *)

(* A design is never stamped with a source newer than the one the LLM was  *)
(* shown: update_file hashes the source before it reads it, so a source    *)
(* that moves in between leaves a file that looks stale, never one that    *)
(* looks fresh and is not.                                                 *)
NeverFalselyFresh ==
    [][\A u \in Updaters :
          Write(u) => design'.foot.src <= design'.body.src]_vars

(* An edit that reaches a design file with a footer while the LLM is       *)
(* at work on it is noticed when the answer comes: the answer is written   *)
(* only if there is no file left to protect.                               *)
EditInFlightNoticed ==
    [][\A u \in Updaters :
          /\ LLMAnswer(u)
          /\ u \in raced
          /\ run[u].pre # NoHash
          /\ design # NoDesign
          => At(u, "idle")']_vars

Fresh == CheckChange(design, source, Iface[source]) \in {"UNCHANGED", "SKELETON_ONLY"}

(* A run that nobody disturbed leaves nothing to do: whatever path it took *)
(* (regeneration, footer refresh, skeleton, discarded answer), the next    *)
(* run finds the file unchanged.                                           *)
SecondRunFindsNothing ==
    \A u \in Updaters :
        /\ At(u, "idle")
        /\ u \notin disturbed
        /\ outcome[u] \in {"unchanged", "refreshed", "skeleton", "discarded",
                           "written"}
        => Fresh

(* The same run leaves in .aindex the description of the file it wrote, if *)
(* the directory has an .aindex that can be read, whether it had one while *)
(* the run was on or gets it from the indexer later.                       *)
AindexFollows ==
    \A u \in Updaters :
        /\ At(u, "idle")
        /\ u \notin disturbed
        /\ outcome[u] \in {"refreshed", "skeleton", "written"}
        /\ design.by \in ValidUpdatedBy
        => aindex \in {NoAindex, Description(design)}

(* If the directory is not blocked again and again, runs do not keep       *)
(* failing or being killed, and nobody keeps forcing regenerations, the    *)
(* file ends up fresh for good, or in one of the two conditions that wait  *)
(* for a person: conflict markers in the source, an unknown updated_by in  *)
(* the design file.                                                        *)
Stuck == source \in Conflicted \/ (design # NoDesign /\ design.by = "foreign")

Converges ==
    \/ []<>blocked
    \/ []<><<\E u \in Updaters : LLMError(u) \/ Kill(u)>>_vars
    \/ []<>(\E u \in Updaters : run[u].force)
    \/ <>[](Fresh \/ Stuck)

-----------------------------------------------------------------------------
(* What the documentation says and the code does not do                    *)

(* docs/how-it-works.md: "manual edits are never silently overwritten".    *)
(* Only runs without --force, on files with a footer that nobody           *)
(* touches while they run.                                                 *)
HandEditsNotOverwritten ==
    [][\A u \in Updaters :
          /\ Write(u)
          /\ ~run[u].force
          /\ run[u].pre # NoHash
          /\ u \notin disturbed
          => ~handmade]_vars
=============================================================================
