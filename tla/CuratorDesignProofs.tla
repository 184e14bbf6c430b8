------------------------- MODULE CuratorDesignProofs -------------------------
(***************************************************************************)
(* Proofs about CuratorDesign, for any number of versions and hand edits,  *)
(* every interface function, autonomy and set of answers.                  *)
(*                                                                         *)
(* What a write keeps and stamps rests on what the handler read.  Informed *)
(* says that what it read is still so unless an agent, or the developer,   *)
(* came in between.  That a file with an old footer never passes for fresh *)
(* rests on the order of versions: Dated says that no footer is newer than *)
(* what the run has hashed, and that a footer a reconciler may carry into  *)
(* the new file is older than the source.                                  *)
(***************************************************************************)
EXTENDS CuratorDesign, TLAPS

Informed ==
    pc = "write" =>
        /\ ~moved => read.src = source
        /\ ~touched /\ Parses(design) => read.notes = design.body.notes
        /\ read.carried # NoFooter => item.action = "reconcile"

(* No footer vouches for a version later than those the run has seen.      *)
FooterDated ==
    /\ seen <= source
    /\ design.foot # NoFooter =>
          /\ design.foot.src <= source
          /\ pc # "idle" => design.foot.src <= seen
          /\ design.foot.iface = Iface[design.foot.src]

(* A file is reconciled only when its footer is older than the source.     *)
ReconciledIsOld ==
    pc \in {"dispatch", "write"} /\ item.action = "reconcile"
                                /\ design.foot # NoFooter
        => design.foot.src < source

CarriedIsOld ==
    pc = "write" /\ read.carried # NoFooter
        => /\ read.carried.src < source
           /\ read.carried.src <= seen
           /\ read.carried.iface = Iface[read.carried.src]

Dated == FooterDated /\ ReconciledIsOld /\ CarriedIsOld

-----------------------------------------------------------------------------
(* Types                                                                   *)

LEMMA ZeroType == 0 \in Version /\ 0 \in Edit
BY VersionAssumption DEF Version, Edit

LEMMA BodyType ==
    ASSUME NEW o \in {"llm", "skeleton", "agent"}, NEW v \in Version, NEW n \in Edit
    PROVE  [origin |-> o, src |-> v, text |-> 0, notes |-> n, prose |-> 0] \in Body
BY ZeroType DEF Body

(* Whatever is serialized is a design file with a footer, fresh for the    *)
(* version it is stamped with.                                             *)
LEMMA SerializedType ==
    ASSUME NEW b \in Body, NEW v \in Version
    PROVE  /\ Serialize(b, "archivist", v, Iface[v]) \in Design
           /\ Serialize(b, "archivist", v, Iface[v]).body = b
           /\ Serialize(b, "archivist", v, Iface[v]).by = "archivist"
           /\ Serialize(b, "archivist", v, Iface[v]).foot # NoFooter
           /\ Serialize(b, "archivist", v, Iface[v]).foot.src = v
           /\ Serialize(b, "archivist", v, Iface[v]).foot.iface = Iface[v]
<1> DEFINE stamp == [body |-> b, by |-> "archivist", newline |-> TRUE]
           foot  == [src |-> v, iface |-> Iface[v], stamp |-> stamp]
<1>1. "archivist" \in UpdatedBy
  BY DEF UpdatedBy, ValidUpdatedBy
<1>2. stamp \in Hashed
  BY <1>1 DEF Hashed
<1>3. Iface[v] \in Interface
  BY DEF Interface
<1>4. foot \in Footer
  BY <1>2, <1>3 DEF Footer
<1>5. foot # NoFooter
  BY <1>4, SentinelAssumption
<1>6. Serialize(b, "archivist", v, Iface[v]) =
        [body |-> b, by |-> "archivist", foot |-> foot]
  BY DEF Serialize
<1>7. foot.src = v /\ foot.iface = Iface[v]
  OBVIOUS
<1> HIDE DEF foot
<1> QED
  BY <1>1, <1>4, <1>5, <1>6, <1>7 DEF Design

LEMMA RiskType ==
    ASSUME NEW i \in BOOLEAN, NEW x \in BOOLEAN
    PROVE  ReconciliationRisk(i, x) \in {"low", "medium", "high"}
BY DEF ReconciliationRisk

LEMMA ItemType ==
    ASSUME TypeOK, NEW x \in BOOLEAN
    PROVE  NoItem \in Items /\ StalenessItem(x) \in Items /\ AgentEditItem(x) \in Items
<1>1. "none" \in UpdatedBy /\ "agent" \in UpdatedBy
  BY DEF UpdatedBy, ValidUpdatedBy
<1>2. design.by \in UpdatedBy
  BY DEF TypeOK, Design
<1>3. NoItem \in Items
  BY <1>1 DEF NoItem, Items
<1>4. ReconciliationRisk(InterfaceStale(design, seen), x) \in {"low", "medium", "high"}
  BY DEF ReconciliationRisk
<1>5. ReconciliationRisk(InterfaceStale(design, source), x) \in {"low", "medium", "high"}
  BY DEF ReconciliationRisk
<1>6. StalenessItem(x) \in Items
  BY <1>1, <1>2, <1>4 DEF StalenessItem, Items
<1>7. AgentEditItem(x) \in Items
  BY <1>2, <1>3, <1>5 DEF AgentEditItem, Items
<1> QED
  BY <1>3, <1>6, <1>7

(* A footer put in front of the new one.                                   *)
LEMMA DeliveredType ==
    ASSUME NEW d \in Design, NEW f \in Footer \cup {NoFooter}
    PROVE  /\ Delivered(d, f) \in Design
           /\ Delivered(d, f).body = d.body
           /\ Delivered(d, f).by = d.by
           /\ f = NoFooter => Delivered(d, f) = d
           /\ f # NoFooter => Delivered(d, f).foot = f
BY DEF Delivered, Design

(* What Write puts on disk.                                                *)
LEMMA Written ==
    ASSUME TypeOK, Write
    PROVE  /\ design' \in Design /\ design' # NoDesign
           /\ design'.body.src = read.src /\ design'.body.notes = read.notes
           /\ design'.by = "archivist"
           /\ design'.foot # NoFooter
           /\ read.carried = NoFooter =>
                 design'.foot.src = source /\ design'.foot.iface = Iface[source]
           /\ read.carried # NoFooter => design'.foot = read.carried
<1> DEFINE b == [origin |-> "skeleton", src |-> read.src, text |-> 0,
                 notes |-> read.notes, prose |-> 0]
<1>1. b \in Body
  BY BodyType DEF TypeOK
<1>2. b.src = read.src /\ b.notes = read.notes
  OBVIOUS
<1>3. design' = Delivered(Serialize(b, "archivist", source, Iface[source]), read.carried)
  BY DEF Write, Stamped
<1>4. PICK d \in Design : /\ design' = Delivered(d, read.carried)
                          /\ d.body = b /\ d.by = "archivist" /\ d.foot # NoFooter
                          /\ d.foot.src = source /\ d.foot.iface = Iface[source]
  BY <1>1, <1>3, SerializedType DEF TypeOK
<1>5. read.carried \in Footer \cup {NoFooter}
  BY DEF TypeOK
<1>6. /\ design' \in Design /\ design'.body = b /\ design'.by = "archivist"
      /\ read.carried = NoFooter => design' = d
      /\ read.carried # NoFooter => design'.foot = read.carried
  BY <1>4, <1>5, DeliveredType
<1> HIDE DEF b
<1> QED
  BY <1>2, <1>4, <1>6, SentinelAssumption

(* Every action keeps every variable in its range, and a run has an item   *)
(* from dispatch on.                                                       *)
THEOREM TypeCorrect == Spec => []TypeOK
<1>1. Init => TypeOK
  <2> SUFFICES ASSUME Init PROVE TypeOK
    OBVIOUS
  <2>1. LLMDesign(0, 0, 0) \in Design
    BY ZeroType, BodyType, SerializedType DEF LLMDesign
  <2>2. [Blank EXCEPT !.origin = "agent"] \in Body
    BY ZeroType DEF Blank, Body
  <2>3. "agent" \in UpdatedBy /\ "none" \in UpdatedBy
    BY DEF UpdatedBy, ValidUpdatedBy
  <2>4. [body |-> [Blank EXCEPT !.origin = "agent"], by |-> "agent",
         foot |-> NoFooter] \in Design
    BY <2>2, <2>3 DEF Design
  <2>5. design \in Design /\ handmade \in BOOLEAN
    BY <2>1, <2>4 DEF Init
  <2>6. item \in Items
    BY <2>3 DEF Init, NoItem, Items
  <2>7. read \in [src : Version, notes : Edit, carried : Footer \cup {NoFooter}]
    BY ZeroType DEF Init
  <2> QED
    BY <2>5, <2>6, <2>7, ZeroType DEF Init, TypeOK
<1>2. TypeOK /\ [Next]_vars => TypeOK'
  <2> SUFFICES ASSUME TypeOK, [Next]_vars PROVE TypeOK'
    OBVIOUS
  <2>1. CASE EditSource
    <3>1. source' \in Version
      BY <2>1, VersionAssumption DEF EditSource, TypeOK, Version
    <3> QED
      BY <2>1, <3>1 DEF EditSource, TypeOK, run
  <2>2. CASE Settle
    BY <2>2 DEF Settle, TypeOK, run
  <2>3. CASE EditDesign
    <3>1. edits' \in Edit
      BY <2>3, VersionAssumption DEF EditDesign, TypeOK, Edit
    <3>2. PICK part \in {"text", "notes"}, by \in {design.by, "agent"} :
            design' = [design EXCEPT !.body[part] = edits + 1, !.by = by]
      BY <2>3 DEF EditDesign
    <3>3. by \in UpdatedBy
      BY <3>2 DEF TypeOK, Design, UpdatedBy, ValidUpdatedBy
    <3>4. edits + 1 \in Edit
      BY <2>3, <3>1 DEF EditDesign
    <3>5. [design.body EXCEPT ![part] = edits + 1] \in Body
      BY <3>4 DEF TypeOK, Design, Body
    <3>6. design' \in Design
      BY <3>2, <3>3, <3>5 DEF TypeOK, Design
    <3> QED
      BY <2>3, <3>1, <3>6 DEF EditDesign, TypeOK, run
  <2>4. CASE Begin
    BY <2>4 DEF Begin, TypeOK
  <2>5. CASE Collect
    <3>1. item' \in Items
      BY <2>5, ItemType DEF Collect
    <3> QED
      BY <2>5, <3>1 DEF Collect, TypeOK
  <2>6. CASE Defer
    <3>1. NoItem \in Items
      BY ItemType
    <3> QED
      BY <2>6, <3>1 DEF Defer, Finish, TypeOK
  <2>7. CASE Handle
    <3>0. design.foot \in Footer \cup {NoFooter}
      BY DEF TypeOK, Design
    <3>1. read' \in [src : Version, notes : Edit, carried : Footer \cup {NoFooter}]
      BY <2>7, <3>0 DEF Handle, TypeOK
    <3>2. item # NoItem
      BY <2>7 DEF Handle, TypeOK
    <3> QED
      BY <2>7, <3>1, <3>2 DEF Handle, TypeOK
  <2>8. CASE Unresolved
    <3>1. NoItem \in Items
      BY ItemType
    <3> QED
      BY <2>8, <3>1 DEF Unresolved, Finish, TypeOK
  <2>9. CASE Write
    <3>1. NoItem \in Items
      BY ItemType
    <3>2. design' \in Design
      BY <2>9, Written
    <3>3. buried' \in BOOLEAN
      BY <2>9 DEF Write
    <3> QED
      BY <2>9, <3>1, <3>2, <3>3 DEF Write, Finish, TypeOK
  <2>10. CASE UNCHANGED vars
    BY <2>10 DEF vars, run, TypeOK
  <2> QED
    BY <2>1, <2>2, <2>3, <2>4, <2>5, <2>6, <2>7, <2>8, <2>9, <2>10 DEF Next, Curate
<1> QED
  BY <1>1, <1>2, PTL DEF Spec

-----------------------------------------------------------------------------
(* What the handler read                                                   *)

THEOREM HandlerInformed == Spec => []Informed
<1>1. Init => Informed
  BY DEF Init, Informed
<1>2. TypeOK /\ Informed /\ [Next]_vars => Informed'
  <2> SUFFICES ASSUME TypeOK, Informed, [Next]_vars, pc' = "write"
               PROVE  /\ ~moved' => read'.src = source'
                      /\ ~touched' /\ Parses(design)' => read'.notes = design'.body.notes
                      /\ read'.carried # NoFooter => item'.action = "reconcile"
    BY DEF Informed
  <2>1. CASE EditSource
    BY <2>1 DEF EditSource, Informed, run, Parses
  <2>2. CASE Settle
    BY <2>2 DEF Settle, Informed, run, Parses
  <2>3. CASE EditDesign
    BY <2>3 DEF EditDesign, Informed, run
  <2>4. CASE Begin \/ Collect \/ Defer \/ Unresolved \/ Write
    BY <2>4 DEF Begin, Collect, Defer, Unresolved, Write, Finish
  <2>5. CASE Handle
    <3>1. PICK n \in Edit, f \in {NoFooter, design.foot} :
            Keeps(n) /\ Carries(f) /\ read' = [src |-> source, notes |-> n, carried |-> f]
      BY <2>5 DEF Handle
    <3>3. f # NoFooter => item.action = "reconcile"
      BY <3>1 DEF Carries
    <3>2. Parses(design) => n = design.body.notes
      <4>1. design # NoDesign
        BY SentinelAssumption DEF TypeOK
      <4> QED
        BY <3>1, <4>1 DEF Keeps, PreservedNotes
    <3> QED
      BY <2>5, <3>1, <3>2, <3>3 DEF Handle, Parses
  <2>6. CASE UNCHANGED vars
    BY <2>6 DEF vars, run, Informed, Parses
  <2> QED
    BY <2>1, <2>2, <2>3, <2>4, <2>5, <2>6 DEF Next, Curate
<1> QED
  BY <1>1, <1>2, TypeCorrect, PTL DEF Spec

(* Footers and the footers that reconcilers carry along keep their dates.  *)
THEOREM FootersDated == Spec => []Dated
<1>1. Init => Dated
  <2> SUFFICES ASSUME Init PROVE Dated
    OBVIOUS
  <2>1. design = LLMDesign(0, 0, 0) => design.foot.src = 0 /\ design.foot.iface = Iface[0]
    BY ZeroType, BodyType, SerializedType DEF LLMDesign
  <2>2. design # LLMDesign(0, 0, 0) => design.foot = NoFooter
    BY DEF Init
  <2> QED
    BY <2>1, <2>2 DEF Init, Dated, FooterDated, ReconciledIsOld, CarriedIsOld
<1>2. TypeOK /\ Dated /\ [Next]_vars => Dated'
  <2> SUFFICES ASSUME TypeOK, Dated, [Next]_vars PROVE Dated'
    OBVIOUS
  <2> USE DEF Dated, FooterDated, ReconciledIsOld, CarriedIsOld
  <2>0. /\ source \in Nat /\ seen \in Nat
        /\ design.foot # NoFooter => design.foot.src \in Nat
        /\ read.carried # NoFooter => read.carried.src \in Nat
    <3>1. design.foot \in Footer \cup {NoFooter} /\ read.carried \in Footer \cup {NoFooter}
      BY DEF TypeOK, Design
    <3> QED
      BY <3>1, VersionAssumption DEF TypeOK, Version, Footer
  <2>1. CASE EditSource
    BY <2>0, <2>1 DEF EditSource, run
  <2>2. CASE Settle
    BY <2>2 DEF Settle, run
  <2>3. CASE EditDesign
    <3>1. PICK part \in {"text", "notes"}, by \in {design.by, "agent"} :
            design' = [design EXCEPT !.body[part] = edits + 1, !.by = by]
      BY <2>3 DEF EditDesign
    <3>2. design'.foot = design.foot
      BY <3>1 DEF TypeOK, Design
    <3> QED
      BY <2>3, <3>2 DEF EditDesign, run
  <2>4. CASE Begin
    BY <2>0, <2>4 DEF Begin
  <2>5. CASE Collect
    <3>1. PICK x \in BOOLEAN :
            item' = IF isolated THEN NoItem
                    ELSE IF SourceStale(design, seen) \/ InterfaceStale(design, seen)
                         THEN StalenessItem(x) ELSE AgentEditItem(x)
      BY <2>5 DEF Collect
    <3>2. AgentEditItem(x).action = "reconcile" /\ design.foot # NoFooter
            => design.foot.src # source
      BY SentinelAssumption DEF AgentEditItem, CheckChange, NoItem, TypeOK
    <3>3. SourceStale(design, seen) \/ InterfaceStale(design, seen)
            => design.foot # NoFooter /\ design.foot.src # seen
      BY DEF SourceStale, InterfaceStale
    <3>4. item'.action = "reconcile" /\ design.foot # NoFooter => design.foot.src < source
      BY <2>0, <2>5, <3>1, <3>2, <3>3 DEF Collect, NoItem
    <3> QED
      BY <2>5, <3>4 DEF Collect
  <2>6. CASE Defer \/ Unresolved
    BY <2>6 DEF Defer, Unresolved, Finish, NoItem
  <2>7. CASE Handle
    <3>1. PICK n \in Edit, f \in {NoFooter, design.foot} :
            Carries(f) /\ read' = [src |-> source, notes |-> n, carried |-> f]
      BY <2>7 DEF Handle
    <3>2. f # NoFooter => f = design.foot /\ item.action = "reconcile"
      BY <3>1 DEF Carries
    <3>3. read'.carried = f
      BY <3>1
    <3> QED
      BY <2>7, <3>2, <3>3 DEF Handle
  <2>8. CASE Write
    <3>1. design'.foot # NoFooter
          /\ design'.foot.src <= source /\ design'.foot.iface = Iface[design'.foot.src]
      <4>1. CASE read.carried = NoFooter
        BY <2>0, <2>8, <4>1, Written
      <4>2. CASE read.carried # NoFooter
        <5>1. pc = "write" /\ design'.foot = read.carried /\ design'.foot # NoFooter
          BY <2>8, <4>2, Written DEF Write
        <5>2. read.carried.src < source /\ read.carried.iface = Iface[read.carried.src]
          BY <4>2, <5>1
        <5> QED
          BY <2>0, <4>2, <5>1, <5>2
      <4> QED
        BY <4>1, <4>2
    <3> QED
      BY <2>0, <2>8, <3>1 DEF Write, Finish, NoItem
  <2>9. CASE UNCHANGED vars
    BY <2>9 DEF vars, run
  <2> QED
    BY <2>1, <2>2, <2>3, <2>4, <2>5, <2>6, <2>7, <2>8, <2>9 DEF Next, Curate
<1> QED
  BY <1>1, <1>2, TypeCorrect, PTL DEF Spec

(* A write of the curator keeps what stands in the preserved sections of   *)
(* every design file that parses, unless an agent edits it while the       *)
(* handler works, and only a reconciler leaves an old footer in them.      *)
THEOREM SectionsKept == Spec => PreservedSectionsKept
<1>1. TypeOK /\ Informed /\ [Next]_vars =>
        (Write => /\ ~touched /\ Parses(design) => design'.body.notes = design.body.notes
                  /\ buried' => item.action = "reconcile")
  BY Written DEF Informed, Write
<1> QED
  BY <1>1, TypeCorrect, HandlerInformed, PTL DEF Spec, PreservedSectionsKept

(* Unless the developer edits the source while the handler works, the file *)
(* a write leaves describes the source, and it is settled, or its footer   *)
(* is an old one that the next run takes for stale.                        *)
THEOREM Settles == Spec => WriteSettles
<1>1. TypeOK /\ Informed /\ Dated /\ [Next]_vars =>
        (Write /\ ~moved
         => /\ design'.body.src = source
            /\ \/ Settled(design')
               \/ buried' /\ SourceStale(design', source) /\ design'.by # "agent")
  <2> SUFFICES ASSUME TypeOK, Informed, Dated, Write, ~moved
               PROVE  /\ design'.body.src = source
                      /\ \/ Settled(design')
                         \/ buried' /\ SourceStale(design', source) /\ design'.by # "agent"
    OBVIOUS
  <2>1. design'.body.src = source
    BY Written DEF Informed, Write
  <2>2. CASE read.carried = NoFooter
    BY <2>1, <2>2, Written DEF Settled, SourceStale, InterfaceStale, CheckChange
  <2>3. CASE read.carried # NoFooter
    <3>1. read.carried.src < source /\ read.carried \in Footer /\ source \in Nat
      BY <2>3, VersionAssumption DEF Dated, CarriedIsOld, Write, TypeOK, Version
    <3>2. read.carried.src # source
      BY <3>1, VersionAssumption DEF Footer, Version
    <3> QED
      BY <2>1, <2>3, <3>2, Written DEF Write, SourceStale
  <2> QED
    BY <2>2, <2>3
<1> QED
  BY <1>1, TypeCorrect, HandlerInformed, FootersDated, PTL DEF Spec, WriteSettles
=============================================================================
