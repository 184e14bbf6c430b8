---------------------------- MODULE CuratorDesign ----------------------------
(***************************************************************************)
(* One source file and its design file under the curator: the prepare,     *)
(* collect and dispatch phases of a run as far as they concern this pair   *)
(* (_prepare_indexes, _collect_staleness, _collect_agent_edits, the        *)
(* staleness resolver, the reconciler and the write contract they share),  *)
(* with a developer who edits and commits the source, agents who edit the  *)
(* design file, and IWH signals in the directory.                          *)
(*                                                                         *)
(* One run at a time (CuratorLock is about when that holds).  The hash     *)
(* comes from prepare, the author and the staleness from collect, the text *)
(* from the handler's read, the stamp from the handler's write: four looks *)
(* at files that others write.                                             *)
(*                                                                         *)
(* The handlers call stubs that stand in for an LLM; the placeholder they  *)
(* write has the origin "skeleton".  fix_hash_freshness, the third handler *)
(* for a stale design, calls asyncio.run inside the running loop, raises   *)
(* and changes nothing; it has no action here.                             *)
(***************************************************************************)
EXTENDS DesignFile

CONSTANTS
    Autonomies,  \* values of curator.autonomy: "auto_low", "full", "propose"
    Answers      \* what the reconciler may answer; the stub merges always

ASSUME AutonomyAssumption == Autonomies \subseteq {"auto_low", "full", "propose"}
ASSUME AnswersAssumption ==
    Answers \subseteq {"merge", "low_confidence", "full_regen", "failed"}

VARIABLES
    autonomy,   \* curator.autonomy, configured once
    source,     \* version of the source file on disk
    isolated,   \* uncommitted changes in it, or an active IWH signal beside it
    design,     \* the design file on disk
    pc,         \* where the curator's run is
    seen,       \* _drift_hashes: the version prepare hashed
    item,       \* the collected item, or NoItem
    read,       \* what the handler read: version of the source, notes to keep,
                \* and the old footer it takes for a part of them, or NoFooter
    buried,     \* an old footer stands in a preserved section; being the first
                \* of the file, it is the one that readers find (design.foot)
    \* history, in no guard but that of the hand edits
    edits,      \* hand edits so far
    handmade,   \* the design was edited by hand since a machine wrote it
    touched,    \* ... since the handler read it
    moved       \* the source was edited since the handler read it

run == <<pc, seen, item, read>>
vars == <<autonomy, source, isolated, design, buried, run, edits, handmade, touched, moved>>

NoItem == [action |-> "none", by |-> "none", risk |-> "low"]

Items == [action : {"none", "regenerate", "reconcile"}, by : UpdatedBy,
          risk : {"low", "medium", "high"}]

TypeOK ==
    /\ autonomy \in Autonomies
    /\ source \in Version
    /\ isolated \in BOOLEAN
    /\ design \in Design
    /\ pc \in {"idle", "collect", "dispatch", "write"}
    /\ seen \in Version
    /\ item \in Items
    /\ read \in [src : Version, notes : Edit, carried : Footer \cup {NoFooter}]
    /\ buried \in BOOLEAN
    /\ edits \in Edit
    /\ handmade \in BOOLEAN /\ touched \in BOOLEAN /\ moved \in BOOLEAN
    /\ pc \in {"dispatch", "write"} => item # NoItem

Blank == [origin |-> "llm", src |-> 0, text |-> 0, notes |-> 0, prose |-> 0]

(* A design file the archivist wrote, or one an agent wrote from scratch.  *)
Init ==
    /\ autonomy \in Autonomies
    /\ source = 0 /\ isolated = FALSE
    /\ \/ design = LLMDesign(0, 0, 0) /\ handmade = FALSE
       \/ /\ design = [body |-> [Blank EXCEPT !.origin = "agent"],
                       by |-> "agent", foot |-> NoFooter]
          /\ handmade = TRUE
    /\ pc = "idle" /\ seen = 0 /\ item = NoItem /\ read = [src |-> 0, notes |-> 0, carried |-> NoFooter]
    /\ buried = FALSE /\ edits = 0 /\ touched = FALSE /\ moved = FALSE

-----------------------------------------------------------------------------
(* The others                                                              *)

EditSource ==
    /\ source < MaxVersion
    /\ source' = source + 1
    /\ isolated' = TRUE
    /\ moved' = TRUE
    /\ UNCHANGED <<autonomy, design, buried, run, edits, handmade, touched>>

(* A commit of the source, or the end of the last signal's time to live.   *)
Settle ==
    /\ isolated
    /\ isolated' = FALSE
    /\ UNCHANGED <<autonomy, source, design, buried, run, edits, handmade, touched, moved>>

(* An agent edits a standard or a preserved section; the frontmatter may   *)
(* keep its author or name the agent.                                      *)
EditDesign ==
    /\ edits < MaxEdits
    /\ edits' = edits + 1
    /\ \E part \in {"text", "notes"}, by \in {design.by, "agent"} :
          design' = [design EXCEPT !.body[part] = edits + 1, !.by = by]
    /\ handmade' = TRUE /\ touched' = TRUE
    /\ UNCHANGED <<autonomy, source, isolated, buried, run, moved>>

-----------------------------------------------------------------------------
(* The curator's run                                                       *)

Begin ==
    /\ pc = "idle"
    /\ pc' = "collect"
    /\ seen' = source
    /\ UNCHANGED <<autonomy, source, isolated, design, buried, item, read, edits, handmade, touched, moved>>

SourceStale(d, v) == d.foot # NoFooter /\ d.foot.src # v

InterfaceStale(d, v) ==
    /\ d.foot # NoFooter
    /\ d.foot.iface # NoIface /\ Iface[v] # NoIface
    /\ d.foot.iface # Iface[v]

(* The body of a file an agent has written may exceed the threshold of     *)
(* 3000 characters.                                                        *)
ReconciliationRisk(ifaceStale, extensive) ==
    IF extensive THEN "high" ELSE IF ifaceStale THEN "medium" ELSE "low"

(* _collect_staleness and _classify_staleness: a file marked as an agent's *)
(* goes to reconciliation, any other to regeneration.                      *)
StalenessItem(extensive) ==
    IF design.by = "agent"
    THEN [action |-> "reconcile", by |-> "agent",
          risk |-> ReconciliationRisk(InterfaceStale(design, seen), extensive)]
    ELSE [action |-> "regenerate", by |-> design.by, risk |-> "low"]

(* Mutant of AgentEditItem: files without a footer are passed over.        *)
FooterlessPassedOver(extensive) ==
    IF design.foot # NoFooter /\ CheckChange(design, source, Iface[source]) = "AGENT_UPDATED"
    THEN [action |-> "reconcile", by |-> design.by, risk |-> "low"]
    ELSE NoItem

(* _collect_agent_edits: the files check_change calls AGENT_UPDATED, if    *)
(* staleness detection has not collected them already.                     *)
AgentEditItem(extensive) ==
    IF CheckChange(design, source, Iface[source]) = "AGENT_UPDATED"
    THEN [action |-> "reconcile", by |-> design.by,
          risk |-> ReconciliationRisk(InterfaceStale(design, source), extensive)]
    ELSE NoItem

Collect ==
    /\ pc = "collect"
    /\ \E extensive \in BOOLEAN :
          item' = IF isolated THEN NoItem
                  ELSE IF SourceStale(design, seen) \/ InterfaceStale(design, seen)
                       THEN StalenessItem(extensive)
                       ELSE AgentEditItem(extensive)
    /\ pc' = IF item' = NoItem THEN "idle" ELSE "dispatch"
    /\ UNCHANGED <<autonomy, source, isolated, design, buried, seen, read, edits, handmade, touched, moved>>

(* should_dispatch.                                                        *)
Permitted(risk) == autonomy = "full" \/ (autonomy = "auto_low" /\ risk = "low")

Finish == pc' = "idle" /\ item' = NoItem /\ UNCHANGED <<seen, read>>

Defer ==
    /\ pc = "dispatch"
    /\ ~Permitted(item.risk) \/ (item.action = "regenerate" /\ item.by = "agent")
    /\ Finish
    /\ UNCHANGED <<autonomy, source, isolated, design, buried, edits, handmade, touched, moved>>

(* Mutant: a handler that starts from an empty file.                       *)
KeepsNothing(n) == n = 0

(* What the handler keeps of the text in the preserved sections: all that  *)
(* the parser finds; of a file that does not parse, the reconciler finds   *)
(* those with one of three headings (Key Concepts, Dragons, Insights).     *)
Keeps(n) ==
    \/ n = PreservedNotes(design)
    \/ item.action = "reconcile" /\ ~Parses(design) /\ n = design.body.notes

(* The old footer that goes into the new file with the sections kept.  The *)
(* parser strips every footer from them.  The reconciler looks once more   *)
(* for the sections with one of the three headings, and _extract_section   *)
(* runs the last section of the file to its end: the footer comes with it  *)
(* if that section is one of the three, and always if it stands inside one *)
(* already.                                                                *)
Carries(f) ==
    \/ f = NoFooter /\ (item.action = "regenerate" \/ ~buried)
    \/ f = design.foot /\ item.action = "reconcile"

Handle ==
    /\ pc = "dispatch"
    /\ Permitted(item.risk)
    /\ ~(item.action = "regenerate" /\ item.by = "agent")
    /\ \E n \in Edit, f \in {NoFooter, design.foot} :
          /\ Keeps(n) /\ Carries(f)
          /\ read' = [src |-> source, notes |-> n, carried |-> f]
    /\ pc' = "write"
    /\ touched' = FALSE /\ moved' = FALSE
    /\ UNCHANGED <<autonomy, source, isolated, design, buried, seen, item, edits, handmade>>

(* The reconciler's answer is not good enough: nothing is written but, for *)
(* low confidence, a signal, which isolates the directory.                 *)
Unresolved ==
    /\ pc = "write" /\ item.action = "reconcile"
    /\ \E a \in Answers \ {"merge"} :
          isolated' = (isolated \/ a = "low_confidence")
    /\ Finish
    /\ UNCHANGED <<autonomy, source, design, buried, edits, handmade, touched, moved>>

(* Mutant of Stamped: the hash that prepare cached.                        *)
StampedFromCache(b) == Serialize(b, "archivist", seen, Iface[seen])

(* write_design_file_as_curator: the hashes are those of the source as it  *)
(* is now.                                                                 *)
Stamped(b) == Serialize(b, "archivist", source, Iface[source])

(* The file a write leaves: if its sections bring an old footer along,     *)
(* that one comes before the new one, and _find_footer_metadata reads the  *)
(* first.                                                                  *)
Delivered(d, f) == IF f = NoFooter THEN d ELSE [d EXCEPT !.foot = f]

Write ==
    /\ pc = "write"
    /\ item.action = "regenerate" \/ "merge" \in Answers
    /\ design' = Delivered(Stamped([origin |-> "skeleton", src |-> read.src,
                                    text |-> 0, notes |-> read.notes, prose |-> 0]),
                           read.carried)
    /\ buried' = (read.carried # NoFooter)
    /\ handmade' = FALSE
    /\ Finish
    /\ UNCHANGED <<autonomy, source, isolated, edits, touched, moved>>

Curate == Begin \/ Collect \/ Defer \/ Handle \/ Unresolved \/ Write

Next == EditSource \/ Settle \/ EditDesign \/ Curate

Spec == Init /\ [][Next]_vars

(* Runs are started again and again and go on; changes get committed and   *)
(* signals expire.                                                         *)
Fairness == WF_vars(Curate) /\ WF_vars(Settle)

LiveSpec == Spec /\ Fairness

-----------------------------------------------------------------------------
(* Properties                                                              *)

(* A write keeps what stands in the preserved sections of a file that      *)
(* parses, unless an agent edits it while the handler works; a             *)
(* regeneration leaves no old footer behind in them, not even one that     *)
(* earlier reconciliations have put there.                                 *)
PreservedSectionsKept ==
    [][Write
       => /\ ~touched /\ Parses(design) => design'.body.notes = design.body.notes
          /\ buried' => item.action = "reconcile"]_vars

Settled(d) ==
    /\ ~SourceStale(d, source) /\ ~InterfaceStale(d, source)
    /\ CheckChange(d, source, Iface[source]) = "UNCHANGED"

(* If the source stands still while the handler works, the file it writes  *)
(* describes it, however old the hashes and the author the run has         *)
(* collected are, and either the next run collects nothing or the file is  *)
(* read with an old footer.  That footer then never passes for fresh, and  *)
(* no agent is named beside it: the next run regenerates the file.         *)
WriteSettles ==
    [][Write /\ ~moved
       => /\ design'.body.src = source
          /\ \/ Settled(design')
             \/ buried' /\ SourceStale(design', source) /\ design'.by # "agent"]_vars

(* Under full autonomy, once nobody edits any more and the reconciler does *)
(* not fail for ever, repeated runs bring every design file up to date     *)
(* with its source, those agents have written included.                    *)
Converges ==
    \/ autonomy # "full"
    \/ []<><<Unresolved>>_vars
    \/ <>[](design.foot # NoFooter /\ ~SourceStale(design, source))
=============================================================================
