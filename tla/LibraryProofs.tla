--------------------------- MODULE LibraryProofs ---------------------------
(* Proofs about the library and its validator, for any number of files,    *)
(* names and commands: the types of articles and of what is under way,     *)
(* that two articles with the same code were made by commands that         *)
(* overlapped, that neither the update run nor the curator takes away what *)
(* a link leads to; and, for lexi validate --fix, that what readers drop   *)
(* is reported, that what is fixed is not reported again, and that nothing *)
(* that lives is deleted.                                                  *)
EXTENDS Validator, TLAPS, WellFoundedInduction

-----------------------------------------------------------------------------
(* The least and the largest of a set of numbers.                          *)

(* A non-empty set of numbers has a first one.                             *)
LEMMA FirstIsLeast ==
  ASSUME NEW S, S \subseteq Nat, S # {}
  PROVE  First(S) \in S /\ \A y \in S : First(S) <= y
<1>1. IsWellFoundedOn(OpToRel(<, Nat), Nat)
  BY NatLessThanWellFounded, Zenon
<1>2. PICK x \in S : \A y \in S : ~(<<y, x>> \in OpToRel(<, Nat))
  BY <1>1, WFMin, Zenon
<1>3. \A y \in S : x <= y
  <2>1. SUFFICES ASSUME NEW y \in S PROVE ~(y < x)
    BY <2>1
  <2>2. ~(<<y, x>> \in {ss \in Nat \X Nat : ss[1] < ss[2]})
    BY <1>2, Zenon DEF OpToRel
  <2>3. QED
    BY <2>2
<1>4. QED
  BY <1>3 DEF First

(* The code of a new article is beyond that of every file of its kind.     *)
LEMMA NextCodeIsFresh ==
  ASSUME NEW k, NEW s \in Files(k)
  PROVE  Number[s] # NextCode(k)
<1> DEFINE used == {Number[t] : t \in Files(k)} \cup {0}
           left == {MaxCode - n : n \in used}
<1>1. used \subseteq 0..MaxCode /\ 0 \in used /\ Number[s] \in used
  BY NumberAssumption DEF Files
<1>2. left \subseteq Nat /\ left # {}
  BY <1>1, NumberAssumption
<1>3. PICK low \in left : \A m \in left : low <= m
  BY <1>2, FirstIsLeast
<1>4. PICK n \in used : low = MaxCode - n
  OBVIOUS
<1>5. \A m \in used : m <= n
  <2>1. SUFFICES ASSUME NEW m \in used PROVE m <= n
    OBVIOUS
  <2>2. MaxCode - m \in left
    OBVIOUS
  <2>3. low <= MaxCode - m
    BY <1>3, <2>2
  <2>4. m \in 0..MaxCode /\ n \in 0..MaxCode
    BY <1>1
  <2> HIDE DEF used, left
  <2>5. QED
    BY <1>4, <2>3, <2>4, NumberAssumption
<1>6. NextCode(k) = 1 + (CHOOSE x \in used : \A m \in used : m <= x)
  BY DEF NextCode
<1>7. PICK top \in used : NextCode(k) = 1 + top /\ \A m \in used : m <= top
  BY <1>5, <1>6
<1>8. Number[s] <= top /\ Number[s] \in 0..MaxCode /\ top \in 0..MaxCode
  BY <1>1, <1>7
<1> HIDE DEF used, left
<1>9. QED
  BY <1>7, <1>8, NumberAssumption

-----------------------------------------------------------------------------
(* What changes of an article leave of its type and of how it was made.    *)

(* An article that takes the place of another keeps how it was made.       *)
Like(a, b) == b \in Article /\ b.alone = a.alone

(* A change of one field that keeps the field's type.                      *)
LEMMA FieldsChange ==
  ASSUME NEW a \in Article
  PROVE  /\ \A x \in Statuses : Like(a, [a EXCEPT !.status = x])
         /\ Like(a, [a EXCEPT !.age = 0])
         /\ \A x \in Name : Like(a, [a EXCEPT !.successor = x])
         /\ Like(a, [a EXCEPT !.verified = "recent"])
         /\ (a.notes < 3 => Like(a, [a EXCEPT !.notes = @ + 1]))
         /\ \A x \in Name : Like(a, [a EXCEPT !.name = x])
         /\ \A x \in Name : Like(a, [a EXCEPT !.aliases = {x}])
         /\ \A x \in SUBSET (Name \cup Code) : Like(a, [a EXCEPT !.links = x])
         /\ Like(a, [a EXCEPT !.dirty = TRUE])
         /\ Like(a, [a EXCEPT !.wrong = @ \cap (Field \X {"value"})])
<1>1. \A x \in Statuses : Like(a, [a EXCEPT !.status = x])
  BY DEF Article, Like
<1>2. Like(a, [a EXCEPT !.age = 0])
  BY TtlAssumption DEF Article, Like
<1>3. \A x \in Name : Like(a, [a EXCEPT !.successor = x])
  BY DEF Article, Like
<1>4. Like(a, [a EXCEPT !.verified = "recent"])
  BY DEF Article, Like
<1>5. a.notes < 3 => Like(a, [a EXCEPT !.notes = @ + 1])
  BY DEF Article, Like
<1>6. \A x \in Name : Like(a, [a EXCEPT !.name = x])
  BY DEF Article, Like
<1>7. \A x \in Name : Like(a, [a EXCEPT !.aliases = {x}])
  BY DEF Article, Like
<1>8. \A x \in SUBSET (Name \cup Code) : Like(a, [a EXCEPT !.links = x])
  BY DEF Article, Like
<1>9. Like(a, [a EXCEPT !.dirty = TRUE])
  BY DEF Article, Like
<1>10. Like(a, [a EXCEPT !.wrong = @ \cap (Field \X {"value"})])
  <2>1. PICK x \in SUBSET (Field \X How) : x = a.wrong \cap (Field \X {"value"})
    BY DEF Article
  <2>2. [a EXCEPT !.wrong = x] \in Article /\ [a EXCEPT !.wrong = x].alone = a.alone
    BY DEF Article
  <2>3. QED
    BY <2>1, <2>2 DEF Like
<1>11. QED
  BY <1>1, <1>2, <1>3, <1>4, <1>5, <1>6, <1>7, <1>8, <1>9, <1>10

(* Several fields at once: deprecation, and what saving does.              *)
LEMMA ManyFieldsChange ==
  ASSUME NEW a \in Article
  PROVE  /\ Like(a, Deprecated(a))
         /\ \A by \in Name \cup {None} : Like(a, Superseded(a, by))
         /\ Like(a, [a EXCEPT !.dirty = TRUE, !.wrong = @ \cap (Field \X {"value"})])
<1>1. Like(a, Deprecated(a))
  <2>1. PICK b \in Article : b = [a EXCEPT !.status = "deprecated"] /\ b.alone = a.alone
    BY FieldsChange DEF Like, Statuses
  <2>2. Like(b, [b EXCEPT !.age = 0])
    BY FieldsChange
  <2>3. Deprecated(a) = [b EXCEPT !.age = 0]
    BY <2>1 DEF Deprecated, Article
  <2>4. QED
    BY <2>1, <2>2, <2>3, Zenon DEF Like
<1>2. \A by \in Name \cup {None} : Like(a, Superseded(a, by))
  <2>1. SUFFICES ASSUME NEW by \in Name \cup {None} PROVE Like(a, Superseded(a, by))
    OBVIOUS
  <2>2. CASE by = None
    BY <1>1, <2>2 DEF Superseded
  <2>3. CASE by # None
    <3>1. PICK b \in Article : b = Deprecated(a) /\ b.alone = a.alone
      BY <1>1, Zenon DEF Like
    <3>2. Like(b, [b EXCEPT !.successor = by])
      BY <2>3, FieldsChange
    <3>3. QED
      BY <2>3, <3>1, <3>2, Zenon DEF Like, Superseded
  <2>4. QED
    BY <2>2, <2>3
<1>3. Like(a, [a EXCEPT !.dirty = TRUE, !.wrong = @ \cap (Field \X {"value"})])
  <2>1. PICK b \in Article : b = [a EXCEPT !.dirty = TRUE] /\ b.alone = a.alone
    BY FieldsChange DEF Like
  <2>2. Like(b, [b EXCEPT !.wrong = @ \cap (Field \X {"value"})])
    BY FieldsChange
  <2>3. [a EXCEPT !.dirty = TRUE, !.wrong = @ \cap (Field \X {"value"})]
          = [b EXCEPT !.wrong = @ \cap (Field \X {"value"})]
    BY <2>1 DEF Article
  <2>4. QED
    BY <2>1, <2>2, <2>3, Zenon DEF Like
<1>4. QED
  BY <1>1, <1>2, <1>3

(* A new article has the type of one, and no commit ages it beyond its     *)
(* type.                                                                   *)
LEMMA BlankIsTyped ==
  ASSUME NEW s \in Slot, NEW alone \in BOOLEAN
  PROVE  Blank(s, alone) \in Article /\ Blank(s, alone).alone = alone
<1>1. PICK age : age = IF Kind[s] = "stack" THEN 0 ELSE None
  OBVIOUS
<1>2. PICK status \in Statuses :
        status = CASE Kind[s] = "stack" -> "open"
                   [] Kind[s] = "concept" -> "active"
                   [] OTHER -> "draft"
  BY KindAssumption DEF Statuses
<1>3. Slug[s] \in Name /\ Number[s] \in 1..MaxCode
  BY NameAssumption, NumberAssumption
<1>4. Blank(s, alone) =
        [name |-> Slug[s], aliases |-> {}, id |-> Number[s], links |-> {}, files |-> {},
         designs |-> {}, scope |-> {}, verified |-> "never", successor |-> None,
         age |-> age, past |-> 0, dirty |-> TRUE, notes |-> 0, empty |-> FALSE,
         form |-> "whole", wrong |-> {}, alone |-> alone, status |-> status]
  BY <1>1, <1>2 DEF Blank
<1>5. QED
  <2>1. age \in (0..(Ttl + 1)) \cup {None}
    BY <1>1, TtlAssumption
  <2>2. QED
    BY <1>3, <1>4, <2>1, BoundAssumption DEF Article, Form

LEMMA OlderIsTyped ==
  ASSUME NEW age \in (0..(Ttl + 1)) \cup {None}
  PROVE  Older(age) \in (0..(Ttl + 1)) \cup {None}
<1>1. CASE age = None \/ age = Ttl + 1
  BY <1>1 DEF Older
<1>2. CASE age # None /\ age # Ttl + 1
  <2>1. age \in 0..Ttl
    BY <1>2, TtlAssumption
  <2>2. QED
    BY <1>2, <2>1, TtlAssumption DEF Older
<1>3. QED
  BY <1>1, <1>2

LEMMA CommitIsTyped ==
  ASSUME NEW a \in Article
  PROVE  Like(a, [a EXCEPT !.age = Older(@), !.dirty = FALSE,
                           !.past = IF a.dirty /\ @ < Commits THEN @ + 1 ELSE @])
<1>1. Older(a.age) \in (0..(Ttl + 1)) \cup {None}
  BY OlderIsTyped DEF Article
<1>2. PICK past \in 0..Commits : past = IF a.dirty /\ a.past < Commits THEN a.past + 1 ELSE a.past
  BY BoundAssumption DEF Article
<1> DEFINE b == [a EXCEPT !.age = Older(a.age)]
           c == [b EXCEPT !.dirty = FALSE]
<1>3. b \in Article /\ b.alone = a.alone
  <2>1. PICK age \in (0..(Ttl + 1)) \cup {None} : age = Older(a.age)
    BY <1>1
  <2>2. [a EXCEPT !.age = age] \in Article /\ [a EXCEPT !.age = age].alone = a.alone
    BY DEF Article
  <2>3. QED
    BY <2>1, <2>2
<1>4. c \in Article /\ c.alone = b.alone
  <2> HIDE DEF b
  <2>1. QED
    BY <1>3 DEF Article
<1>5. [c EXCEPT !.past = past] \in Article /\ [c EXCEPT !.past = past].alone = c.alone
  <2> HIDE DEF c
  <2>1. QED
    BY <1>4 DEF Article
<1>6. [a EXCEPT !.age = Older(@), !.dirty = FALSE,
                !.past = IF a.dirty /\ @ < Commits THEN @ + 1 ELSE @]
        = [c EXCEPT !.past = past]
  BY <1>2 DEF Article
<1>7. QED
  <2> HIDE DEF b, c
  <2>1. QED
    BY <1>3, <1>4, <1>5, <1>6, Zenon DEF Like

-----------------------------------------------------------------------------
(* The inductive invariant.                                                *)

(* What a command is about to write is an article of the library proper;   *)
(* when no other command of its kind was under way since it chose the name *)
(* then none is now, and no article made alone has the code.               *)
Reserved ==
  \A c \in Client : client[c] # None =>
    /\ client[c].slot \notin Nested
    /\ client[c].alone =>
         /\ \A d \in Client \ {c} :
              client[d] # None => Kind[client[d].slot] # Kind[client[c].slot]
         /\ \A s \in Slot \ Nested :
              Kind[s] = Kind[client[c].slot] /\ article[s] # None /\ article[s].alone
                => Number[s] # Number[client[c].slot]

IInv == LibraryTypeOK /\ Reserved /\ CodesUnique

(* A step that makes no article: each one that is left was there and keeps *)
(* its type and how it was made.                                           *)
ArticlesKept ==
  /\ article' \in [Slot -> Article \cup {None}]
  /\ \A s \in Slot : article'[s] # None => article[s] # None /\ article'[s].alone = article[s].alone

(* Such a step leaves codes unique and what was reserved free.             *)
LEMMA KeptCodes ==
  ASSUME Reserved, CodesUnique, ArticlesKept, client' = client
  PROVE  Reserved' /\ CodesUnique'
<1>1. Reserved'
  BY Zenon DEF Reserved, ArticlesKept
<1>2. CodesUnique'
  BY Zenon DEF CodesUnique, ArticlesKept
<1>3. QED
  BY <1>1, <1>2

LEMMA UnchangedArticles ==
  ASSUME LibraryTypeOK, article' = article
  PROVE  ArticlesKept
BY DEF LibraryTypeOK, ArticlesKept

(* The change of one article that is there.                                *)
LEMMA OneArticle ==
  ASSUME LibraryTypeOK, NEW s \in Slot, NEW b, article[s] # None,
         Like(article[s], b), article' = [article EXCEPT ![s] = b]
  PROVE  ArticlesKept
BY DEF LibraryTypeOK, ArticlesKept, Like

LEMMA SavedArticle ==
  ASSUME LibraryTypeOK, NEW s \in Slot, NEW a, article[s] # None,
         Like(article[s], a), Save(s, a)
  PROVE  ArticlesKept
<1>1. PICK b : b = [a EXCEPT !.dirty = TRUE, !.wrong = @ \cap (Field \X {"value"})]
  OBVIOUS
<1>2. Like(a, b)
  BY <1>1, ManyFieldsChange DEF Like
<1>3. Like(article[s], b)
  BY <1>2, Zenon DEF Like
<1>4. article' = [article EXCEPT ![s] = b]
  BY <1>1, Zenon DEF Save
<1>5. QED
  BY <1>3, <1>4, OneArticle

-----------------------------------------------------------------------------
(* The actions.                                                            *)

(* A build of the link graph finds links to articles only.                 *)
LEMMA LinkedAreArticles == Linked \subseteq Slot
<1>1. ASSUME NEW S, S \subseteq Slot, S # {} PROVE First(S) \in Slot
  BY <1>1, FirstIsLeast, SlotAssumption
<1>2. /\ \A k : Of(k) \subseteq Slot /\ Files(k) \subseteq Slot
      /\ Concepts \subseteq Slot
      /\ \A n : Find(n) \subseteq Slot
  BY DEF Of, Files, Concepts, Find
<1>3. ASSUME NEW l PROVE Target(l) \subseteq Slot
  <2> DEFINE steps == <<Titled(Of("convention"), l), Aliased(Of("convention"), l), Find(l),
                        Titled(Of("playbook"), l) \cup Aliased(Of("playbook"), l)>>
             hits == {i \in DOMAIN steps : steps[i] # {}}
  <2>1. \A i \in 1..4 : steps[i] \subseteq Slot
    BY <1>2 DEF Titled, Aliased
  <2>2. DOMAIN steps = 1..4
    OBVIOUS
  <2>3. hits # {} => First(hits) \in hits
    <3>1. hits \subseteq Nat
      BY <2>2
    <3>2. QED
      BY <3>1, FirstIsLeast
  <2>4. hits # {} => First(steps[First(hits)]) \in Slot
    <3>1. SUFFICES ASSUME hits # {} PROVE First(steps[First(hits)]) \in Slot
      OBVIOUS
    <3>2. PICK i \in 1..4 : i = First(hits) /\ steps[i] # {}
      BY <2>2, <2>3, <3>1
    <3> HIDE DEF steps
    <3>3. QED
      BY <1>1, <2>1, <3>2
  <2>5. Target(l) = IF l \in Code \/ hits = {} THEN {} ELSE {First(steps[First(hits)])}
    BY DEF Target
  <2> HIDE DEF steps, hits
  <2>6. QED
    BY <2>4, <2>5
<1>4. ASSUME NEW l PROVE ConceptRef(l) \subseteq Slot
  <2>1. ByCode(l) \subseteq Slot
    BY <1>2 DEF ByCode
  <2>2. PICK hits : hits = IF l \in Code THEN ByCode(l) ELSE Find(l)
    OBVIOUS
  <2>3. hits \subseteq Slot
    BY <1>2, <2>1, <2>2
  <2>4. ConceptRef(l) = {} \/ (hits # {} /\ ConceptRef(l) = {First(hits)})
    BY <2>2 DEF ConceptRef
  <2>5. QED
    BY <1>1, <2>3, <2>4
<1>5. QED
  BY <1>3, <1>4, Zenon DEF Linked

(* A command chooses the name of its file: nobody's code, and from then on *)
(* no command of the kind is alone.                                        *)
LEMMA ClaimKeeps ==
  ASSUME IInv, NEW c \in Client, NEW s \in Slot, Claim(c, s)
  PROVE  IInv'
<1> DEFINE rivals == {d \in Client : client[d] # None /\ Kind[client[d].slot] = Kind[s]}
<1>1. /\ client' = [d \in Client |->
           IF d = c THEN [slot |-> s, alone |-> rivals = {}]
           ELSE IF d \in rivals THEN [client[d] EXCEPT !.alone = FALSE] ELSE client[d]]
      /\ article' = article /\ index' = index /\ sweep' = sweep
      /\ acts' = acts + 1 /\ acts < Acts
      /\ s \notin Nested /\ Number[s] = NextCode(Kind[s])
  BY DEF Claim, Acted
<1>2. client \in [Client -> [slot : Slot, alone : BOOLEAN] \cup {None}]
  BY DEF IInv, LibraryTypeOK
<1>3. \A d \in Client \ {c} : client'[d] # None =>
        /\ client[d] # None /\ client'[d].slot = client[d].slot
        /\ client'[d].alone => d \notin rivals /\ client[d].alone
  <2>1. SUFFICES ASSUME NEW d \in Client \ {c}, client'[d] # None
                 PROVE  /\ client[d] # None /\ client'[d].slot = client[d].slot
                        /\ client'[d].alone => d \notin rivals /\ client[d].alone
    OBVIOUS
  <2>2. CASE d \in rivals
    <3>1. PICK r \in [slot : Slot, alone : BOOLEAN] : r = client[d] /\ client[d] # None
      BY <1>2, <2>2
    <3>2. client'[d] = [r EXCEPT !.alone = FALSE]
      BY <1>1, <2>2, <3>1
    <3>3. QED
      BY <3>1, <3>2
  <2>3. CASE d \notin rivals
    <3>1. client'[d] = client[d]
      BY <1>1, <2>3
    <3>2. QED
      BY <2>1, <2>3, <3>1, Zenon
  <2>4. QED
    BY <2>2, <2>3
<1>4. client'[c] = [slot |-> s, alone |-> rivals = {}]
  BY <1>1
<1>5. LibraryTypeOK'
  <2>1. client' \in [Client -> [slot : Slot, alone : BOOLEAN] \cup {None}]
    BY <1>1, <1>2
  <2>2. acts' \in 0..Acts
    BY <1>1, BoundAssumption DEF IInv, LibraryTypeOK
  <2>3. QED
    BY <1>1, <2>1, <2>2 DEF IInv, LibraryTypeOK
<1>6. Reserved'
  <2>1. SUFFICES ASSUME NEW d \in Client, client'[d] # None
                 PROVE  /\ client'[d].slot \notin Nested
                        /\ client'[d].alone =>
                             /\ \A e \in Client \ {d} :
                                  client'[e] # None => Kind[client'[e].slot] # Kind[client'[d].slot]
                             /\ \A t \in Slot \ Nested :
                                  Kind[t] = Kind[client'[d].slot] /\ article[t] # None /\ article[t].alone
                                    => Number[t] # Number[client'[d].slot]
    BY <1>1, Zenon DEF Reserved
  <2>2. CASE d = c
    <3>1. client'[d].slot = s /\ (client'[d].alone => rivals = {})
      <4>1. PICK solo \in BOOLEAN : solo <=> rivals = {}
        OBVIOUS
      <4> HIDE DEF rivals
      <4>2. client'[d] = [slot |-> s, alone |-> solo]
        BY <1>4, <2>2, <4>1
      <4>3. client'[d].slot = s /\ client'[d].alone = solo
        BY <4>2
      <4>4. QED
        BY <4>1, <4>3, Zenon
    <3>2. \A t \in Slot \ Nested : Kind[t] = Kind[s] /\ article[t] # None => Number[t] # Number[s]
      <4>1. SUFFICES ASSUME NEW t \in Slot \ Nested, Kind[t] = Kind[s], article[t] # None
                     PROVE  Number[t] # Number[s]
        OBVIOUS
      <4>2. t \in Files(Kind[s])
        BY <4>1 DEF Files
      <4>3. QED
        BY <1>1, <4>2, NextCodeIsFresh
    <3>3. rivals = {} => \A e \in Client \ {d} :
                           client'[e] # None => Kind[client'[e].slot] # Kind[s]
      BY <1>3, <2>2
    <3>4. QED
      BY <1>1, <3>1, <3>2, <3>3
  <2>3. CASE d # c
    <3>1. client[d] # None /\ client'[d].slot = client[d].slot
          /\ (client'[d].alone => d \notin rivals /\ client[d].alone)
      BY <1>3, <2>1, <2>3
    <3>2. client[d].slot \notin Nested
      BY <3>1 DEF IInv, Reserved
    <3>3. SUFFICES ASSUME client'[d].alone
                   PROVE  /\ \A e \in Client \ {d} :
                               client'[e] # None => Kind[client'[e].slot] # Kind[client[d].slot]
                          /\ \A t \in Slot \ Nested :
                               Kind[t] = Kind[client[d].slot] /\ article[t] # None /\ article[t].alone
                                 => Number[t] # Number[client[d].slot]
      BY <3>1, <3>2
    <3>4. Kind[s] # Kind[client[d].slot]
      BY <3>1, <3>3
    <3>5. \A e \in Client \ {d} :
            client'[e] # None => Kind[client'[e].slot] # Kind[client[d].slot]
      <4>1. SUFFICES ASSUME NEW e \in Client \ {d}, client'[e] # None
                     PROVE  Kind[client'[e].slot] # Kind[client[d].slot]
        OBVIOUS
      <4>2. CASE e = c
        BY <1>4, <3>4, <4>2
      <4>3. CASE e # c
        <5>1. client[e] # None /\ client'[e].slot = client[e].slot
          BY <1>3, <4>1, <4>3
        <5>2. QED
          BY <3>1, <3>3, <5>1, Zenon DEF IInv, Reserved
      <4>4. QED
        BY <4>2, <4>3
    <3>6. QED
      BY <3>1, <3>3, <3>5, Zenon DEF IInv, Reserved
  <2>4. QED
    BY <2>2, <2>3
<1>7. CodesUnique'
  BY <1>1, Zenon DEF IInv, CodesUnique
<1>8. QED
  BY <1>5, <1>6, <1>7 DEF IInv

(* The command writes its file.                                            *)
LEMMA WriteKeeps ==
  ASSUME IInv, NEW c \in Client, Write(c)
  PROVE  IInv'
<1>1. PICK s, alone : s = client[c].slot /\ alone = client[c].alone
  OBVIOUS
<1>2. /\ client[c] # None /\ s \in Slot /\ alone \in BOOLEAN
      /\ article' = [article EXCEPT ![s] = Blank(s, alone)]
      /\ client' = [client EXCEPT ![c] = None]
      /\ index' = index /\ sweep' = sweep /\ acts' = acts
  BY <1>1 DEF Write, IInv, LibraryTypeOK
<1>3. PICK b \in Article : b = Blank(s, alone) /\ b.alone = alone
  BY <1>2, BlankIsTyped
<1>4. \A t \in Slot : article'[t] = IF t = s THEN b ELSE article[t]
  BY <1>2, <1>3 DEF IInv, LibraryTypeOK
<1>5. \A d \in Client : client'[d] = IF d = c THEN None ELSE client[d]
  BY <1>2 DEF IInv, LibraryTypeOK
<1>6. LibraryTypeOK'
  BY <1>2, <1>3 DEF IInv, LibraryTypeOK
<1>7. /\ s \notin Nested
      /\ alone =>
           /\ \A d \in Client \ {c} : client[d] # None => Kind[client[d].slot] # Kind[s]
           /\ \A t \in Slot \ Nested :
                Kind[t] = Kind[s] /\ article[t] # None /\ article[t].alone
                  => Number[t] # Number[s]
  BY <1>1, <1>2, Zenon DEF IInv, Reserved
<1>8. CodesUnique'
  <2>1. SUFFICES ASSUME NEW t \in Slot \ Nested, NEW u \in Slot \ Nested,
                        t # u, Kind[t] = Kind[u], Number[t] = Number[u],
                        article'[t] # None, article'[u] # None,
                        article'[t].alone, article'[u].alone
                 PROVE  FALSE
    BY Zenon DEF CodesUnique
  <2>2. CASE t # s /\ u # s
    BY <1>4, <2>1, <2>2, Zenon DEF IInv, CodesUnique
  <2>3. CASE t = s
    <3>1. article'[u] = article[u] /\ article'[t] = b
      BY <1>4, <2>1, <2>3
    <3>2. QED
      BY <1>3, <1>7, <2>1, <2>3, <3>1, Zenon
  <2>4. CASE u = s
    <3>1. article'[t] = article[t] /\ article'[u] = b
      BY <1>4, <2>1, <2>4
    <3>2. QED
      BY <1>3, <1>7, <2>1, <2>4, <3>1, Zenon
  <2>5. QED
    BY <2>2, <2>3, <2>4
<1>9. Reserved'
  <2>1. SUFFICES ASSUME NEW d \in Client, client'[d] # None
                 PROVE  /\ client'[d].slot \notin Nested
                        /\ client'[d].alone =>
                             /\ \A e \in Client \ {d} :
                                  client'[e] # None => Kind[client'[e].slot] # Kind[client'[d].slot]
                             /\ \A t \in Slot \ Nested :
                                  Kind[t] = Kind[client'[d].slot] /\ article'[t] # None /\ article'[t].alone
                                    => Number[t] # Number[client'[d].slot]
    BY Zenon DEF Reserved
  <2>2. d # c /\ client'[d] = client[d] /\ client[d] # None
    BY <1>5, <2>1
  <2>3. client[d].slot \notin Nested
    BY <2>2 DEF IInv, Reserved
  <2>4. SUFFICES ASSUME client[d].alone
                 PROVE  /\ \A e \in Client \ {d} :
                             client'[e] # None => Kind[client'[e].slot] # Kind[client[d].slot]
                        /\ \A t \in Slot \ Nested :
                             Kind[t] = Kind[client[d].slot] /\ article'[t] # None /\ article'[t].alone
                               => Number[t] # Number[client[d].slot]
    BY <2>2, <2>3
  <2>5. Kind[s] # Kind[client[d].slot]
    BY <1>1, <1>2, <2>2, <2>4, Zenon DEF IInv, Reserved
  <2>6. \A t \in Slot : Kind[t] = Kind[client[d].slot] => article'[t] = article[t]
    BY <1>4, <2>5
  <2>7. \A e \in Client : client'[e] # None => client'[e] = client[e]
    BY <1>5
  <2>8. \A e \in Client \ {d} :
          client'[e] # None => Kind[client'[e].slot] # Kind[client[d].slot]
    <3>1. \A e \in Client \ {d} : client[e] # None => Kind[client[e].slot] # Kind[client[d].slot]
      BY <2>2, <2>4, Zenon DEF IInv, Reserved
    <3>2. QED
      BY <2>7, <3>1, Zenon
  <2>9. \A t \in Slot \ Nested :
          Kind[t] = Kind[client[d].slot] /\ article[t] # None /\ article[t].alone
            => Number[t] # Number[client[d].slot]
    BY <2>2, <2>4, Zenon DEF IInv, Reserved
  <2>10. \A t \in Slot \ Nested :
          Kind[t] = Kind[client[d].slot] /\ article'[t] # None /\ article'[t].alone
            => Number[t] # Number[client[d].slot]
    <3>1. SUFFICES ASSUME NEW t \in Slot \ Nested, Kind[t] = Kind[client[d].slot],
                          article'[t] # None, article'[t].alone
                   PROVE  Number[t] # Number[client[d].slot]
      BY Zenon
    <3>2. article'[t] = article[t]
      BY <2>6, <3>1
    <3>3. QED
      BY <2>9, <3>1, <3>2, Zenon
  <2>11. QED
    BY <2>8, <2>10
<1>10. QED
  BY <1>6, <1>8, <1>9 DEF IInv

(* What the changes of one article have in common: nothing else moves.     *)
LEMMA ChangeKeeps ==
  ASSUME LibraryTypeOK, NEW s \in Slot, NEW k, NEW a, article[s] # None,
         Like(article[s], a), Change(s, k, a)
  PROVE  ArticlesKept /\ UNCHANGED <<index, client, sweep>> /\ acts' \in 0..Acts
<1>1. ArticlesKept
  BY SavedArticle, Zenon DEF Change
<1>2. UNCHANGED <<index, client, sweep>>
  BY DEF Change
<1>3. acts' \in 0..Acts
  BY BoundAssumption DEF Change, Acted, LibraryTypeOK
<1>4. QED
  BY <1>1, <1>2, <1>3

(* The commands that change one article.                                   *)
LEMMA CommandsKeep ==
  ASSUME LibraryTypeOK, NEW s \in Slot, NEW by \in Successors \cup {None},
         \/ ApproveConvention(s) \/ ApprovePlaybook(s)
         \/ DeprecateConcept(s, by) \/ DeprecateConvention(s) \/ DeprecatePlaybook(s, by)
         \/ Verify(s)
         \/ AddFinding(s) \/ AcceptFinding(s) \/ MarkDuplicate(s) \/ MarkOutdated(s)
         \/ MarkStale(s) \/ MarkUnstale(s)
  PROVE  ArticlesKept /\ UNCHANGED <<index, client, sweep>> /\ acts' \in 0..Acts
<1> DEFINE Goal == ArticlesKept /\ UNCHANGED <<index, client, sweep>> /\ acts' \in 0..Acts
<1>1. article[s] # None => article[s] \in Article
  BY DEF LibraryTypeOK
<1>2. ASSUME NEW k, NEW x \in Statuses, article[s] # None,
             Change(s, k, [article[s] EXCEPT !.status = x])
      PROVE  Goal
  BY <1>1, <1>2, FieldsChange, ChangeKeeps
<1>3. CASE ApproveConvention(s)
  BY <1>2, <1>3 DEF ApproveConvention, Is, Statuses
<1>4. CASE ApprovePlaybook(s)
  BY <1>2, <1>4 DEF ApprovePlaybook, Is, Statuses
<1>5. CASE DeprecateConcept(s, by)
  BY <1>1, <1>5, ManyFieldsChange, ChangeKeeps, NameAssumption DEF DeprecateConcept
<1>6. CASE DeprecateConvention(s)
  BY <1>1, <1>6, ManyFieldsChange, ChangeKeeps DEF DeprecateConvention
<1>7. CASE DeprecatePlaybook(s, by)
  BY <1>1, <1>7, ManyFieldsChange, ChangeKeeps, NameAssumption DEF DeprecatePlaybook
<1>8. CASE Verify(s)
  BY <1>1, <1>8, FieldsChange, ChangeKeeps DEF Verify, Verified
<1>9. CASE AddFinding(s)
  BY <1>1, <1>9, FieldsChange, ChangeKeeps DEF AddFinding
<1>10. CASE AcceptFinding(s)
  BY <1>2, <1>10 DEF AcceptFinding, Settled, Statuses
<1>11. CASE MarkDuplicate(s)
  BY <1>2, <1>11 DEF MarkDuplicate, Settled, Statuses
<1>12. CASE MarkOutdated(s)
  BY <1>2, <1>12 DEF MarkOutdated, Settled, Statuses
<1>13. CASE MarkStale(s)
  BY <1>2, <1>13 DEF MarkStale, Is, Settled, Statuses
<1>14. CASE MarkUnstale(s)
  BY <1>2, <1>14 DEF MarkUnstale, Is, Settled, Statuses
<1>15. QED
  BY <1>3, <1>4, <1>5, <1>6, <1>7, <1>8, <1>9, <1>10, <1>11, <1>12, <1>13, <1>14

(* An article rewritten by hand is one.                                    *)
LEMMA RewriteIsLike ==
  ASSUME NEW s, article[s] \in Article, NEW a \in Rewrites(s)
  PROVE  Like(article[s], a)
<1>1. "active" \in Statuses
  BY DEF Statuses
<1>2. \/ \E n \in Name : a = [article[s] EXCEPT !.name = n]
      \/ \E n \in Name : a = [article[s] EXCEPT !.aliases = {n}]
      \/ \E l \in {{}} \cup {{n} : n \in Name \cup Code} : a = [article[s] EXCEPT !.links = l]
      \/ \E t \in {"active"} : a = [article[s] EXCEPT !.status = t]
  BY Zenon DEF Rewrites
<1>3. CASE \E n \in Name : a = [article[s] EXCEPT !.name = n]
  BY <1>3, FieldsChange, Zenon
<1>4. CASE \E n \in Name : a = [article[s] EXCEPT !.aliases = {n}]
  BY <1>4, FieldsChange, Zenon
<1>5. CASE \E l \in {{}} \cup {{n} : n \in Name \cup Code} : a = [article[s] EXCEPT !.links = l]
  <2>1. PICK l \in SUBSET (Name \cup Code) : a = [article[s] EXCEPT !.links = l]
    BY <1>5
  <2>2. QED
    BY <2>1, FieldsChange, Zenon
<1>6. CASE \E t \in {"active"} : a = [article[s] EXCEPT !.status = t]
  BY <1>1, <1>6, FieldsChange
<1>7. QED
  BY <1>2, <1>3, <1>4, <1>5, <1>6

(* Comments and rewrites by hand.                                          *)
LEMMA HandsKeep ==
  ASSUME LibraryTypeOK, NEW s \in Slot, Comment(s) \/ Edit(s)
  PROVE  ArticlesKept /\ UNCHANGED <<index, client, sweep>> /\ acts' \in 0..Acts
<1>1. article[s] # None /\ article[s] \in Article
  BY DEF LibraryTypeOK, Comment, Edit
<1>2. UNCHANGED <<index, client, sweep>> /\ acts' \in 0..Acts
  BY BoundAssumption DEF Comment, Edit, Acted, LibraryTypeOK
<1>3. CASE Comment(s)
  <2>1. article' = [article EXCEPT ![s] = [article[s] EXCEPT !.notes = @ + 1]]
    BY <1>1, <1>3 DEF Comment, LibraryTypeOK
  <2>2. Like(article[s], [article[s] EXCEPT !.notes = @ + 1])
    BY <1>1, <1>3, FieldsChange DEF Comment
  <2>3. QED
    BY <1>1, <1>2, <2>1, <2>2, OneArticle
<1>4. CASE Edit(s)
  <2>1. PICK a \in Rewrites(s) : article' = [article EXCEPT ![s] = [a EXCEPT !.dirty = TRUE]]
    BY <1>4 DEF Edit
  <2>2. Like(article[s], a)
    BY <1>1, <2>1, RewriteIsLike
  <2>3. Like(article[s], [a EXCEPT !.dirty = TRUE])
    <3>1. Like(a, [a EXCEPT !.dirty = TRUE])
      BY <2>2, FieldsChange DEF Like
    <3>2. QED
      BY <2>2, <3>1, Zenon DEF Like
  <2>4. QED
    BY <1>1, <1>2, <2>1, <2>3, OneArticle
<1>5. QED
  BY <1>3, <1>4

(* What the update run and the passing of time do.                         *)
LEMMA RunsKeep ==
  ASSUME LibraryTypeOK, Commit \/ Build \/ Unbuild \/ Expire
  PROVE  /\ ArticlesKept
         /\ index' \in (SUBSET Slot) \cup {None}
         /\ UNCHANGED <<client, sweep, acts>>
<1>1. CASE Commit
  <2>1. \A t \in Slot : article[t] # None => Like(article[t], Committed[t])
    <3>1. SUFFICES ASSUME NEW t \in Slot, article[t] # None
                   PROVE  Like(article[t], Committed[t])
      OBVIOUS
    <3>2. article[t] \in Article
      BY <3>1 DEF LibraryTypeOK
    <3>3. Committed[t] = [article[t] EXCEPT
             !.age = Older(@), !.dirty = FALSE,
             !.past = IF article[t].dirty /\ @ < Commits THEN @ + 1 ELSE @]
      BY <3>1 DEF Committed
    <3>4. QED
      BY <3>2, <3>3, CommitIsTyped, Zenon
  <2>2. \A t \in Slot : article[t] = None => Committed[t] = None
    BY DEF Committed
  <2>3. Committed \in [Slot -> Article \cup {None}]
    <3>1. \A t \in Slot : Committed[t] \in Article \cup {None}
      BY <2>1, <2>2 DEF Like
    <3>2. Committed = [t \in Slot |-> Committed[t]]
      BY DEF Committed
    <3> HIDE DEF Committed
    <3>3. QED
      BY <3>1, <3>2, Zenon
  <2>4. ArticlesKept
    BY <1>1, <2>1, <2>2, <2>3, Zenon DEF ArticlesKept, Commit, Like
  <2>5. QED
    BY <1>1, <2>4 DEF Commit, LibraryTypeOK
<1>2. CASE Build
  BY <1>2, LinkedAreArticles, UnchangedArticles DEF Build, articles
<1>3. CASE Unbuild
  BY <1>3, UnchangedArticles DEF Unbuild, articles
<1>4. CASE Expire
  <2>1. PICK gone : article' = [t \in Slot |-> IF t \in gone THEN None ELSE article[t]]
    BY <1>4 DEF Expire
  <2>2. ArticlesKept
    BY <2>1 DEF ArticlesKept, LibraryTypeOK
  <2>3. QED
    BY <1>4, <2>2 DEF Expire, LibraryTypeOK
<1>5. QED
  BY <1>1, <1>2, <1>3, <1>4

(* The curator: what is collected are articles, and what is done to one    *)
(* makes none.                                                             *)
LEMMA CollectKeeps ==
  ASSUME LibraryTypeOK, Collect
  PROVE  LibraryTypeOK' /\ ArticlesKept /\ client' = client
<1>1. PICK known, todo : sweep' = [known |-> known, todo |-> todo] /\ known = index
        /\ todo = (Orphans \X {"deprecate"}) \cup (Retired \X {"delete"}) \cup (Outdated \X {"stale"})
  BY Zenon DEF Collect
<1>2. Orphans \subseteq Slot /\ Retired \subseteq Slot /\ Outdated \subseteq Slot
  BY DEF Orphans, Retired, Outdated, Shelved, Of
<1>3. known \in (SUBSET Slot) \cup {None} /\ todo \in SUBSET (Slot \X {"deprecate", "delete", "stale"})
  BY <1>1, <1>2 DEF LibraryTypeOK
<1>4. sweep' \in [known : (SUBSET Slot) \cup {None},
                  todo : SUBSET (Slot \X {"deprecate", "delete", "stale"})] \cup {None}
  BY <1>1, <1>3
<1>5. QED
  BY <1>4, UnchangedArticles DEF Collect, LibraryTypeOK

LEMMA CuratorKeeps ==
  ASSUME LibraryTypeOK, NEW s \in Slot, Retire(s) \/ Remove(s) \/ Stale(s)
  PROVE  LibraryTypeOK' /\ ArticlesKept /\ client' = client
<1>1. PICK what : Item(s, what) /\ Done(s, what)
                  /\ UNCHANGED <<source, dirs, design, index, client, acts>>
  BY Zenon DEF Retire, Remove, Stale
<1>2. sweep' \in [known : (SUBSET Slot) \cup {None},
                  todo : SUBSET (Slot \X {"deprecate", "delete", "stale"})]
  BY <1>1 DEF Item, Done, LibraryTypeOK
<1>3. ArticlesKept
  <2>1. CASE article' = article
    BY <2>1, UnchangedArticles
  <2>2. CASE article' = [article EXCEPT ![s] = None]
    BY <2>2 DEF ArticlesKept, LibraryTypeOK
  <2>3. CASE Reads(s) /\ Save(s, Deprecated(article[s]))
    <3>1. article[s] # None /\ article[s] \in Article
      BY <2>3 DEF Reads, LibraryTypeOK
    <3>2. QED
      BY <2>3, <3>1, ManyFieldsChange, SavedArticle
  <2>4. article' = article \/ article' = [article EXCEPT ![s] = None]
          \/ (Reads(s) /\ Save(s, Deprecated(article[s])))
    BY DEF Retire, Remove, Stale
  <2>5. QED
    BY <2>1, <2>2, <2>3, <2>4
<1>4. QED
  BY <1>1, <1>2, <1>3 DEF ArticlesKept, LibraryTypeOK

-----------------------------------------------------------------------------
(* The theorems.                                                           *)

(* Any typed library with unique codes satisfies the invariant.            *)
LEMMA InitHolds == LibraryInit => IInv
<1>1. SUFFICES ASSUME LibraryInit PROVE IInv
  OBVIOUS
<1>2. LibraryTypeOK
  BY <1>1, BoundAssumption DEF LibraryInit, LibraryTypeOK
<1>3. Reserved
  BY <1>1 DEF LibraryInit, Reserved
<1>4. CodesUnique
  BY <1>1, Zenon DEF LibraryInit, CodesUnique
<1>5. QED
  BY <1>2, <1>3, <1>4 DEF IInv

(* Every step keeps it.                                                    *)
LEMMA StepHolds == IInv /\ [LibraryNext]_libraryVars => IInv'
<1>1. SUFFICES ASSUME IInv, [LibraryNext]_libraryVars PROVE IInv'
  OBVIOUS
<1>2. LibraryTypeOK
  BY <1>1 DEF IInv
<1>3. ASSUME LibraryTypeOK', ArticlesKept, client' = client PROVE IInv'
  BY <1>1, <1>3, KeptCodes DEF IInv
<1>4. ASSUME ArticlesKept, UNCHANGED <<client, sweep>>, acts' \in 0..Acts,
             index' \in (SUBSET Slot) \cup {None}
      PROVE  IInv'
  <2>1. LibraryTypeOK'
    BY <1>2, <1>4 DEF ArticlesKept, LibraryTypeOK
  <2>2. QED
    BY <1>3, <1>4, <2>1
<1>5. index \in (SUBSET Slot) \cup {None} /\ acts \in 0..Acts
  BY <1>2 DEF LibraryTypeOK
<1>6. CASE UNCHANGED libraryVars
  BY <1>2, <1>4, <1>5, <1>6, UnchangedArticles DEF libraryVars, articles
<1>7. ASSUME NEW c \in Client, Write(c) PROVE IInv'
  BY <1>1, <1>7, WriteKeeps
<1>8. ASSUME NEW c \in Client, NEW s \in Slot,
             NewConcept(c, s) \/ NewConvention(c, s) \/ NewPlaybook(c, s) \/ NewPost(c, s)
      PROVE  IInv'
  <2>1. Claim(c, s)
    BY <1>8 DEF NewConcept, NewConvention, NewPlaybook, NewPost
  <2>2. QED
    BY <1>1, <2>1, ClaimKeeps
<1>9. ASSUME NEW s \in Slot, NEW by \in Successors \cup {None},
             \/ ApproveConvention(s) \/ ApprovePlaybook(s)
             \/ DeprecateConcept(s, by) \/ DeprecateConvention(s) \/ DeprecatePlaybook(s, by)
             \/ Verify(s)
             \/ AddFinding(s) \/ AcceptFinding(s) \/ MarkDuplicate(s) \/ MarkOutdated(s)
             \/ MarkStale(s) \/ MarkUnstale(s)
      PROVE  IInv'
  <2>1. ArticlesKept /\ UNCHANGED <<index, client, sweep>> /\ acts' \in 0..Acts
    BY <1>2, <1>9, CommandsKeep
  <2>2. QED
    BY <1>4, <1>5, <2>1
<1>10. ASSUME NEW s \in Slot, Comment(s) \/ Edit(s) PROVE IInv'
  <2>1. ArticlesKept /\ UNCHANGED <<index, client, sweep>> /\ acts' \in 0..Acts
    BY <1>2, <1>10, HandsKeep
  <2>2. QED
    BY <1>4, <1>5, <2>1
<1>11. ASSUME NEW s \in Slot, NEW f \in File, Link(s, f) PROVE IInv'
  <2>1. acts' \in 0..Acts
    BY <1>5, <1>11, BoundAssumption DEF Link, Acted
  <2>2. UNCHANGED <<article, index, client, sweep>>
    BY <1>11 DEF Link
  <2>3. QED
    BY <1>2, <1>4, <1>5, <2>1, <2>2, UnchangedArticles
<1>12. ASSUME NEW s \in Slot, Retire(s) \/ Remove(s) \/ Stale(s) PROVE IInv'
  BY <1>2, <1>3, <1>12, CuratorKeeps
<1>13. CASE Commit \/ Build \/ Unbuild \/ Expire
  BY <1>2, <1>4, <1>5, <1>13, RunsKeep
<1>14. CASE Collect
  BY <1>2, <1>3, <1>14, CollectKeeps
<1>15. CASE EndSweep
  <2>1. LibraryTypeOK'
    BY <1>2, <1>15 DEF EndSweep, LibraryTypeOK
  <2>2. ArticlesKept /\ client' = client
    BY <1>2, <1>15, UnchangedArticles DEF EndSweep
  <2>3. QED
    BY <1>3, <2>1, <2>2
<1>16. Successors \cup {None} # {}
  OBVIOUS
<1>17. QED
  BY <1>1, <1>6, <1>7, <1>8, <1>9, <1>10, <1>11, <1>12, <1>13, <1>14, <1>15, <1>16,
     Zenon DEF LibraryNext

(* The types of articles, of commands and of the curator's list hold in    *)
(* every state, from any library whose codes are unique.                   *)
THEOREM TypeCorrect == LibrarySpec => []LibraryTypeOK
<1>1. IInv => LibraryTypeOK
  BY DEF IInv
<1>2. QED
  BY <1>1, InitHolds, StepHolds, PTL DEF LibrarySpec

(* Two articles of a kind carry the same code only when the commands that  *)
(* made them overlapped, however many files, names and commands there are. *)
THEOREM CodesAreUnique == LibrarySpec => []CodesUnique
<1>1. IInv => CodesUnique
  BY DEF IInv
<1>2. QED
  BY <1>1, InitHolds, StepHolds, PTL DEF LibrarySpec

-----------------------------------------------------------------------------
(* The expiry of the update run and the links of active texts.             *)

(* A link leads to an article that a step of its resolution found, and it  *)
(* leads somewhere when any step finds one.                                *)
Leads ==
  \A l :
    /\ Resolve(l) # 0 =>
         IF l \in Code THEN Resolve(l) \in ByCode(l)
         ELSE \E i \in 1..6 : Resolve(l) \in Steps(l)[i]
    /\ (IF l \in Code THEN ByCode(l) # {} ELSE \E i \in 1..6 : Steps(l)[i] # {})
         => Resolve(l) # 0

(* First picks a member of the first step that finds anything.             *)
LEMMA StepsLead == Leads
<1> SUFFICES ASSUME NEW l
             PROVE  /\ Resolve(l) # 0 =>
                         IF l \in Code THEN Resolve(l) \in ByCode(l)
                         ELSE \E i \in 1..6 : Resolve(l) \in Steps(l)[i]
                    /\ (IF l \in Code THEN ByCode(l) # {} ELSE \E i \in 1..6 : Steps(l)[i] # {})
                         => Resolve(l) # 0
  BY DEF Leads
<1>1. /\ \A k : Of(k) \subseteq Slot /\ Files(k) \subseteq Slot
      /\ Concepts \subseteq Slot
      /\ \A n : Find(n) \subseteq Slot
  BY DEF Of, Files, Concepts, Find
<1>2. ByCode(l) \subseteq Slot
  BY <1>1 DEF ByCode
<1>3. Fuzzy(l) \subseteq Slot
  <2>1. PICK best : best = Closest(l)
    OBVIOUS
  <2>2. Fuzzy(l) = UNION {Find(m) : m \in best}
          \/ Fuzzy(l) = UNION {Titled(Of("playbook"), m) : m \in best}
    BY <2>1 DEF Fuzzy
  <2>3. UNION {Find(m) : m \in best} \subseteq Slot
    BY <1>1
  <2>4. UNION {Titled(Of("playbook"), m) : m \in best} \subseteq Slot
    BY <1>1 DEF Titled
  <2>5. QED
    BY <2>2, <2>3, <2>4
<1>4. \A i \in 1..6 : Steps(l)[i] \subseteq Slot
  BY <1>1, <1>3 DEF Steps, Titled, Aliased
<1>5. DOMAIN Steps(l) = 1..6
  BY DEF Steps
<1>6. \A S : S \subseteq Slot /\ S # {} => First(S) \in S /\ First(S) # 0
  BY FirstIsLeast, SlotAssumption
<1>7. CASE l \in Code
  <2> DEFINE found == <<ByCode(l)>>
             hits == {i \in DOMAIN found : found[i] # {}}
  <2>1. Resolve(l) = IF hits = {} THEN 0 ELSE First(found[First(hits)])
    BY <1>7 DEF Resolve
  <2>2. DOMAIN found = {1} /\ found[1] = ByCode(l)
    OBVIOUS
  <2>3. CASE ByCode(l) = {}
    <3>1. hits = {}
      BY <2>2, <2>3
    <3>2. QED
      BY <1>7, <2>1, <2>3, <3>1
  <2>4. CASE ByCode(l) # {}
    <3>1. hits = {1}
      BY <2>2, <2>4
    <3>2. First(hits) = 1
      BY <3>1, FirstIsLeast
    <3>3. Resolve(l) = First(ByCode(l))
      BY <2>1, <2>2, <3>1, <3>2
    <3>4. QED
      BY <1>2, <1>6, <1>7, <2>4, <3>3
  <2>5. QED
    BY <2>3, <2>4
<1>8. CASE l \notin Code
  <2> DEFINE hits == {i \in 1..6 : Steps(l)[i] # {}}
  <2>1. Resolve(l) = IF hits = {} THEN 0 ELSE First(Steps(l)[First(hits)])
    BY <1>5, <1>8 DEF Resolve
  <2>2. hits # {} => First(hits) \in hits
    BY FirstIsLeast
  <2>3. CASE hits = {}
    BY <1>8, <2>1, <2>3
  <2>4. CASE hits # {}
    <3>1. PICK i \in 1..6 : i = First(hits) /\ Steps(l)[i] # {}
      BY <2>2, <2>4
    <3>2. Resolve(l) = First(Steps(l)[i])
      BY <2>1, <2>4, <3>1
    <3>3. Resolve(l) \in Steps(l)[i] /\ Resolve(l) # 0
      BY <1>4, <1>6, <3>1, <3>2
    <3>4. QED
      BY <1>8, <3>3
  <2>5. QED
    BY <2>3, <2>4
<1>9. QED
  BY <1>7, <1>8

(* A link that leads to the concept s leads to one the index holds.        *)
LEMMA LeadsToConcept ==
  ASSUME NEW l, NEW s \in Slot, s = Resolve(l), Kind[s] = "concept"
  PROVE  s \in Concepts /\ (l \in Code => l[1] = "concept" /\ article[s].id = l[2])
<1>1. s # 0
  BY SlotAssumption
<1>2. \A k : \A t \in Of(k) \cup Files(k) : Kind[t] = k
  BY DEF Of, Files
<1>3. \A n : Find(n) \subseteq Concepts
  BY DEF Find
<1>4. CASE l \in Code
  <2>1. s \in ByCode(l)
    BY <1>1, <1>4, StepsLead DEF Leads
  <2>2. l[1] = "concept"
    <3>1. CASE l[1] = "design"
      BY <2>1, <3>1 DEF ByCode
    <3>2. CASE l[1] # "concept" /\ l[1] # "design"
      <4>1. ByCode(l) = {t \in Files(l[1]) : Number[t] = l[2]}
        BY <3>2 DEF ByCode
      <4>2. Kind[s] = l[1]
        BY <1>2, <2>1, <4>1
      <4>3. QED
        BY <3>2, <4>2
    <3>3. QED
      BY <3>1, <3>2
  <2>3. QED
    BY <2>1, <2>2 DEF ByCode
<1>5. CASE l \notin Code
  <2>1. PICK i \in 1..6 : s \in Steps(l)[i]
    BY <1>1, <1>5, StepsLead DEF Leads
  <2>2. i = 1 \/ i = 2 \/ i = 3 \/ i = 4 \/ i = 5 \/ i = 6
    OBVIOUS
  <2>3. \A n : /\ s \notin Titled(Of("convention"), n) /\ s \notin Aliased(Of("convention"), n)
               /\ s \notin Titled(Of("playbook"), n)
    BY <1>2 DEF Titled, Aliased
  <2>4. \A n : Titled(Concepts, n) \cup Aliased(Concepts, n) \subseteq Concepts
    BY DEF Titled, Aliased
  <2>5. s \in Fuzzy(l) => s \in Concepts
    <3>1. PICK best : best = Closest(l)
      OBVIOUS
    <3>2. Fuzzy(l) = UNION {Find(m) : m \in best}
            \/ Fuzzy(l) = UNION {Titled(Of("playbook"), m) : m \in best}
      BY <3>1 DEF Fuzzy
    <3>3. QED
      BY <1>3, <2>3, <3>2
  <2>6. /\ Steps(l)[1] = Titled(Of("convention"), l) /\ Steps(l)[2] = Aliased(Of("convention"), l)
        /\ Steps(l)[3] = Titled(Concepts, l) /\ Steps(l)[4] = Aliased(Concepts, l)
        /\ Steps(l)[5] = Titled(Of("playbook"), l) /\ Steps(l)[6] = Fuzzy(l)
    BY DEF Steps
  <2>7. QED
    BY <1>5, <2>1, <2>2, <2>3, <2>4, <2>5, <2>6
<1>6. QED
  BY <1>4, <1>5

(* A concept that an active text names is not among the expired.           *)
LEMMA CitedStays ==
  ASSUME NEW s \in Of("concept"), NEW l \in ActiveTexts(s), l \in Names(s)
  PROVE  s \notin ExpiredConcepts \cup ExpiredConventions
<1>1. References(s) # {}
  <2>1. CASE \E f \in File : ReadsDesign(f) /\ design[f].status = "active" /\ l \in design[f].links
    <3>1. PICK f \in File : ReadsDesign(f) /\ design[f].status = "active" /\ l \in design[f].links
      BY <2>1
    <3>2. design[f].links \in References(s)
      BY <3>1, Zenon DEF References
    <3>3. QED
      BY <3>2
  <2>2. CASE \E t \in Of("concept") :
               article[t].status = "active" /\ article[t].name # article[s].name /\ l \in article[t].links
    <3>1. PICK t \in Of("concept") :
            article[t].status = "active" /\ article[t].name # article[s].name /\ l \in article[t].links
      BY <2>2
    <3>2. article[t].links \in References(s)
      BY <3>1, Zenon DEF References
    <3>3. QED
      BY <3>2
  <2>3. QED
    BY <2>1, <2>2, Zenon DEF ActiveTexts
<1>2. s \notin ExpiredConventions
  BY DEF ExpiredConventions, Of
<1>3. QED
  BY <1>1, <1>2 DEF ExpiredConcepts

(* The expiry of the update run cuts no link of an active design file, or  *)
(* of an active concept of another title, that names a concept by title or *)
(* alias: for any library and any number of articles.                      *)
THEOREM LinksSurvive == LibrarySpec => LinksSurviveExpiry
<1> DEFINE Kept == \A s \in Of("concept") : \A l \in ActiveTexts(s) :
                     Exact(l) /\ Resolve(l) = s => Resolve(l)' # 0
<1>0. Leads'
  BY StepsLead, PTL
<1>1. Expire => Kept
  <2>1. SUFFICES ASSUME Expire, NEW s \in Of("concept"), NEW l \in ActiveTexts(s),
                        Exact(l), Resolve(l) = s
                 PROVE  Resolve(l)' # 0
    OBVIOUS
  <2>2. s \in Slot /\ Kind[s] = "concept" /\ l \in Names(s)
    BY <2>1 DEF Of, Exact
  <2>3. s \in Concepts /\ (l \in Code => l[1] = "concept" /\ article[s].id = l[2])
    BY <2>1, <2>2, LeadsToConcept
  <2>4. PICK gone : /\ article' = [t \in Slot |-> IF t \in gone THEN None ELSE article[t]]
                    /\ s \notin gone
    BY <2>1, <2>2, CitedStays DEF Expire
  <2>5. article'[s] = article[s] /\ \A t \in Slot : article'[t] # None => article'[t] = article[t]
    BY <2>2, <2>4
  <2>6. \A t \in Slot : Reads(t)' => Reads(t) /\ article'[t] = article[t]
    BY <2>5 DEF Reads
  <2>7. Reads(s)'
    BY <2>1, <2>5, Zenon DEF Of, Reads
  <2>8. s \in Concepts'
    BY <2>2, <2>3, <2>5, <2>6, <2>7, Zenon DEF Concepts, Of
  <2>9. CASE l \in Code
    <3>1. s \in ByCode(l)'
      BY <2>3, <2>5, <2>8, <2>9 DEF ByCode
    <3>2. QED
      BY <1>0, <2>9, <3>1 DEF Leads
  <2>10. CASE l \notin Code
    <3>1. s \in Titled(Concepts, l)' \/ s \in Aliased(Concepts, l)'
      BY <2>2, <2>5, <2>8 DEF Names, Titled, Aliased
    <3>2. Steps(l)'[3] # {} \/ Steps(l)'[4] # {}
      BY <3>1 DEF Steps
    <3>3. QED
      BY <1>0, <2>10, <3>2 DEF Leads
  <2>11. QED
    BY <2>9, <2>10
<1>2. [Expire => Kept]_libraryVars
  BY <1>1, Zenon
<1>3. QED
  BY <1>2, PTL DEF LinksSurviveExpiry
-----------------------------------------------------------------------------
(* The curator and the links.                                              *)

(* The fuzzy step finds concepts by a name known, or playbooks by title.   *)
LEMMA FuzzyFinds ==
  ASSUME NEW l
  PROVE  /\ Fuzzy(l) \subseteq Concepts \cup Of("playbook")
         /\ l \in AllNames => Fuzzy(l) \subseteq Concepts \cup Titled(Of("playbook"), l)
<1>1. PICK best : best = Closest(l)
  OBVIOUS
<1>2. Fuzzy(l) = UNION {Find(m) : m \in best}
        \/ Fuzzy(l) = UNION {Titled(Of("playbook"), m) : m \in best}
  BY <1>1 DEF Fuzzy
<1>3. UNION {Find(m) : m \in best} \subseteq Concepts
  BY DEF Find
<1>4. UNION {Titled(Of("playbook"), m) : m \in best} \subseteq Of("playbook")
  BY DEF Titled
<1>5. l \in AllNames => best = {l}
  BY <1>1 DEF Closest
<1>6. QED
  BY <1>2, <1>3, <1>4, <1>5

(* Every step finds slots.                                                 *)
LEMMA StepsFindSlots ==
  ASSUME NEW l, NEW i \in 1..6
  PROVE  Steps(l)[i] \subseteq Slot
<1>1. /\ \A k : Of(k) \subseteq Slot
      /\ Concepts \subseteq Slot
  BY DEF Of, Concepts
<1>2. Fuzzy(l) \subseteq Slot
  BY <1>1, FuzzyFinds
<1>3. QED
  BY <1>1, <1>2 DEF Steps, Titled, Aliased

(* The first step that finds anything decides where a name leads.          *)
LEMMA FirstStepDecides ==
  ASSUME NEW l, l \notin Code, Resolve(l) # 0
  PROVE  \E i \in 1..6 : /\ Resolve(l) = First(Steps(l)[i]) /\ Resolve(l) \in Steps(l)[i]
                         /\ \A j \in 1..6 : j < i => Steps(l)[j] = {}
<1> DEFINE hits == {i \in 1..6 : Steps(l)[i] # {}}
<1>1. DOMAIN Steps(l) = 1..6
  BY DEF Steps
<1>2. Resolve(l) = IF hits = {} THEN 0 ELSE First(Steps(l)[First(hits)])
  BY <1>1 DEF Resolve
<1>3. hits # {} /\ hits \subseteq Nat
  BY <1>2
<1>4. First(hits) \in hits /\ \A j \in hits : First(hits) <= j
  BY <1>3, FirstIsLeast
<1>5. PICK i \in 1..6 : i = First(hits) /\ Steps(l)[i] # {} /\ \A j \in 1..6 : j < i => Steps(l)[j] = {}
  <2>1. PICK i \in 1..6 : i = First(hits) /\ Steps(l)[i] # {}
    BY <1>4
  <2>2. \A j \in 1..6 : j < i => j \notin hits
    <3> HIDE DEF hits
    <3>1. QED
      BY <1>4, <2>1
  <2>3. QED
    BY <2>1, <2>2
<1>6. Steps(l)[i] \subseteq Nat
  BY StepsFindSlots, SlotAssumption
<1>7. QED
  BY <1>2, <1>3, <1>5, <1>6, FirstIsLeast

(* The first of a set of one.                                              *)
LEMMA FirstOfOne ==
  ASSUME NEW S, NEW s \in Slot, s \in S, S \subseteq {s}
  PROVE  First(S) = s
<1>1. S = {s} /\ S \subseteq Nat /\ S # {}
  BY SlotAssumption
<1>2. QED
  BY <1>1, FirstIsLeast

(* An article that a link leads to is one that its reader reads, and has   *)
(* names.                                                                  *)
LEMMA LedToHasNames ==
  ASSUME LibraryTypeOK, NEW s \in Slot, NEW l, Resolve(l) = s
  PROVE  article[s] # None /\ Names(s) \subseteq Name
<1>1. s # 0
  BY SlotAssumption
<1>2. \A k : \A t \in Of(k) \cup Files(k) : article[t] # None
  BY DEF Of, Files, Reads
<1>3. Concepts \subseteq Of("concept") /\ \A n : Find(n) \subseteq Of("concept")
  BY DEF Concepts, Find
<1>4. article[s] # None
  <2>1. CASE l \in Code
    <3>1. s \in ByCode(l)
      BY <1>1, <2>1, StepsLead DEF Leads
    <3>2. QED
      BY <1>2, <1>3, <3>1 DEF ByCode
  <2>2. CASE l \notin Code
    <3>1. PICK i \in 1..6 : s \in Steps(l)[i]
      BY <1>1, <2>2, StepsLead DEF Leads
    <3>2. \A k : Titled(Of(k), l) \cup Aliased(Of(k), l) \subseteq Of(k)
      BY DEF Titled, Aliased
    <3>3. Titled(Concepts, l) \cup Aliased(Concepts, l) \subseteq Of("concept")
      BY <1>3 DEF Titled, Aliased
    <3>4. Fuzzy(l) \subseteq Of("concept") \cup Of("playbook")
      BY <1>3, FuzzyFinds
    <3>5. i = 1 \/ i = 2 \/ i = 3 \/ i = 4 \/ i = 5 \/ i = 6
      OBVIOUS
    <3>6. /\ Steps(l)[1] = Titled(Of("convention"), l) /\ Steps(l)[2] = Aliased(Of("convention"), l)
          /\ Steps(l)[3] = Titled(Concepts, l) /\ Steps(l)[4] = Aliased(Concepts, l)
          /\ Steps(l)[5] = Titled(Of("playbook"), l) /\ Steps(l)[6] = Fuzzy(l)
      BY DEF Steps
    <3>7. PICK k : s \in Of(k)
      BY <3>1, <3>2, <3>3, <3>4, <3>5, <3>6
    <3>8. QED
      BY <1>2, <3>7
  <2>3. QED
    BY <2>1, <2>2
<1>5. article[s] \in Article
  BY <1>4 DEF LibraryTypeOK
<1>6. article[s].name \in Name /\ article[s].aliases \subseteq Name
  BY <1>5 DEF Article
<1>7. QED
  BY <1>4, <1>6 DEF Names

(* A link that names s, by no code, and leads to it is one that the link   *)
(* graph has for s too.                                                    *)
LEMMA TargetAgrees ==
  ASSUME LibraryTypeOK, NEW s \in Slot, NEW l, Exact(l), Resolve(l) = s,
         Find(l) \cup Aliased(Of("playbook"), l) \subseteq {s}
  PROVE  Target(l) = {s}
<1> DEFINE conv == Titled(Of("convention"), l)
           also == Aliased(Of("convention"), l)
           book == Titled(Of("playbook"), l)
           books == book \cup Aliased(Of("playbook"), l)
           steps == <<conv, also, Find(l), books>>
           hits == {i \in 1..4 : steps[i] # {}}
<1>1. s # 0 /\ l \in Names(s) /\ article[s] # None /\ Names(s) \subseteq Name
  BY SlotAssumption, LedToHasNames DEF Exact
<1>2. l \notin Code
  BY <1>1, LinkAssumption
<1>3. Target(l) = IF hits = {} THEN {} ELSE {First(steps[First(hits)])}
  <2>1. DOMAIN steps = 1..4
    OBVIOUS
  <2>2. QED
    BY <1>2, <2>1 DEF Target
<1>4. steps[1] = conv /\ steps[2] = also /\ steps[3] = Find(l) /\ steps[4] = books
  OBVIOUS
<1>5. /\ \A k : Of(k) \subseteq Slot /\ \A t \in Of(k) : Kind[t] = k
      /\ Concepts \subseteq Of("concept") /\ Find(l) \subseteq Concepts
  BY DEF Of, Concepts, Find
<1>6. s \in Concepts => s \in Find(l)
  BY <1>1 DEF Find, Names
<1>7. \E i \in 1..6 : s = First(Steps(l)[i]) /\ s \in Steps(l)[i]
                     /\ \A j \in 1..6 : j < i => Steps(l)[j] = {}
  BY <1>1, <1>2, FirstStepDecides
<1>8. PICK i \in 1..6 : s = First(Steps(l)[i]) /\ s \in Steps(l)[i]
                     /\ \A j \in 1..6 : j < i => Steps(l)[j] = {}
  BY <1>7
<1>9. /\ Steps(l)[1] = conv /\ Steps(l)[2] = also
      /\ Steps(l)[3] = Titled(Concepts, l) /\ Steps(l)[4] = Aliased(Concepts, l)
      /\ Steps(l)[5] = book /\ Steps(l)[6] = Fuzzy(l)
  BY DEF Steps
<1>10. s \in Concepts => s \in Steps(l)[3] \cup Steps(l)[4]
  BY <1>1, <1>9 DEF Names, Titled, Aliased
<1>11. s \in Of("playbook") => l \in AllNames
  BY <1>1, Zenon DEF AllNames, Names
<1>12. \A n \in 1..4 : n \in hits /\ (\A m \in 1..4 : m < n => m \notin hits)
                       => Target(l) = {First(steps[n])}
  <2>1. SUFFICES ASSUME NEW n \in 1..4, n \in hits, \A m \in 1..4 : m < n => m \notin hits
                 PROVE  First(hits) = n
    BY <1>3
  <2>2. First(hits) \in hits /\ \A m \in hits : First(hits) <= m
    <3>1. hits \subseteq Nat /\ hits # {}
      BY <2>1
    <3>2. QED
      BY <3>1, FirstIsLeast
  <2>3. QED
    BY <2>1, <2>2
<1> HIDE DEF conv, also, book, books, steps
<1>13. CASE i = 1
  BY <1>4, <1>8, <1>9, <1>12, <1>13
<1>14. CASE i = 2
  BY <1>4, <1>8, <1>9, <1>12, <1>14
<1>15. CASE i = 3 \/ i = 4
  <2>1. s \in Concepts
    BY <1>8, <1>9, <1>15 DEF Titled, Aliased
  <2>2. conv = {} /\ also = {}
    BY <1>8, <1>9, <1>15
  <2>3. First(Find(l)) = s
    BY <1>6, <2>1, FirstOfOne
  <2>4. QED
    BY <1>4, <1>6, <1>12, <2>1, <2>2, <2>3
<1>16. CASE i = 5
  <2>1. s \in Of("playbook")
    BY <1>8, <1>9, <1>16 DEF book, Titled
  <2>2. conv = {} /\ also = {}
    BY <1>8, <1>9, <1>16
  <2>3. Find(l) = {}
    <3>1. Kind[s] = "playbook"
      BY <1>5, <2>1
    <3>2. QED
      BY <1>5, <3>1
  <2>4. books = book
    BY <1>8, <1>9, <1>16 DEF books
  <2>5. QED
    BY <1>4, <1>8, <1>9, <1>12, <1>16, <2>2, <2>3, <2>4
<1>17. CASE i = 6
  <2>1. s \notin Concepts /\ s \notin book
    BY <1>8, <1>9, <1>10, <1>17
  <2>2. s \in Of("playbook")
    BY <1>8, <1>9, <1>17, <2>1, FuzzyFinds
  <2>3. s \in book
    BY <1>8, <1>9, <1>11, <1>17, <2>1, <2>2, FuzzyFinds DEF book
  <2>4. QED
    BY <2>1, <2>3
<1>18. QED
  BY <1>13, <1>14, <1>15, <1>16, <1>17

(* What the curator has collected as an orphan had no link when it looked. *)
Unlinked ==
  sweep # None =>
    \A s \in Slot : <<s, "deprecate">> \in sweep.todo => sweep.known # None /\ s \notin sweep.known

LEMMA UnlinkedKept ==
  ASSUME IInv, Unlinked, [LibraryNext]_libraryVars
  PROVE  Unlinked'
<1>1. LibraryTypeOK
  BY DEF IInv
<1>2. ASSUME sweep' = sweep PROVE Unlinked'
  BY <1>2 DEF Unlinked
<1>3. CASE UNCHANGED libraryVars
  BY <1>2, <1>3 DEF libraryVars, articles
<1>4. ASSUME NEW c \in Client, Write(c) PROVE Unlinked'
  BY <1>2, <1>4 DEF Write
<1>5. ASSUME NEW c \in Client, NEW s \in Slot,
             NewConcept(c, s) \/ NewConvention(c, s) \/ NewPlaybook(c, s) \/ NewPost(c, s)
      PROVE  Unlinked'
  BY <1>2, <1>5 DEF NewConcept, NewConvention, NewPlaybook, NewPost, Claim
<1>6. ASSUME NEW s \in Slot, NEW by \in Successors \cup {None},
             \/ ApproveConvention(s) \/ ApprovePlaybook(s)
             \/ DeprecateConcept(s, by) \/ DeprecateConvention(s) \/ DeprecatePlaybook(s, by)
             \/ Verify(s)
             \/ AddFinding(s) \/ AcceptFinding(s) \/ MarkDuplicate(s) \/ MarkOutdated(s)
             \/ MarkStale(s) \/ MarkUnstale(s)
      PROVE  Unlinked'
  BY <1>1, <1>2, <1>6, CommandsKeep
<1>7. ASSUME NEW s \in Slot, Comment(s) \/ Edit(s) PROVE Unlinked'
  BY <1>1, <1>2, <1>7, HandsKeep
<1>8. ASSUME NEW s \in Slot, NEW f \in File, Link(s, f) PROVE Unlinked'
  BY <1>2, <1>8 DEF Link
<1>9. CASE Commit \/ Build \/ Unbuild \/ Expire
  BY <1>1, <1>2, <1>9, RunsKeep
<1>10. ASSUME NEW s \in Slot, Retire(s) \/ Remove(s) \/ Stale(s) PROVE Unlinked'
  <2>1. PICK what : Item(s, what) /\ Done(s, what)
    BY <1>10, Zenon DEF Retire, Remove, Stale
  <2>2. sweep # None /\ sweep' = [sweep EXCEPT !.todo = @ \ {<<s, what>>}]
    BY <2>1 DEF Item, Done
  <2>3. sweep'.known = sweep.known /\ sweep'.todo \subseteq sweep.todo
    BY <1>1, <2>2 DEF LibraryTypeOK
  <2>4. QED
    BY <2>2, <2>3 DEF Unlinked
<1>11. CASE Collect
  <2>1. PICK known, todo : sweep' = [known |-> known, todo |-> todo] /\ known = index
          /\ todo = (Orphans \X {"deprecate"}) \cup (Retired \X {"delete"}) \cup (Outdated \X {"stale"})
    BY <1>11, Zenon DEF Collect
  <2>2. \A s \in Slot : <<s, "deprecate">> \in todo => s \in Orphans
    BY <2>1
  <2>3. \A s \in Orphans : index # None /\ s \notin index
    BY DEF Orphans
  <2>4. QED
    BY <2>1, <2>2, <2>3 DEF Unlinked
<1>12. CASE EndSweep
  BY <1>12 DEF EndSweep, Unlinked
<1>13. Successors \cup {None} # {}
  OBVIOUS
<1>14. QED
  BY <1>3, <1>4, <1>5, <1>6, <1>7, <1>8, <1>9, <1>10, <1>11, <1>12, <1>13, Zenon DEF LibraryNext

(* With a link graph that is up to date the curator retires no article     *)
(* that a text links to by a name nobody else answers to: for any library  *)
(* and any number of articles.                                             *)
THEOREM CuratorSparesLinked == LibrarySpec => CuratorKeepsLinked
<1> DEFINE Spared == \A s \in Slot : article'[s] # article[s] =>
             \/ ~(Retire(s) /\ sweep.known = Linked) /\ ~(Remove(s) /\ index = Linked)
             \/ \A l \in Texts :
                  Exact(l) /\ Find(l) \cup Aliased(Of("playbook"), l) \subseteq {s} => Resolve(l) # s
<1>1. ASSUME LibraryTypeOK, Unlinked PROVE Spared
  <2>1. SUFFICES ASSUME NEW s \in Slot, article'[s] # article[s],
                        \/ Retire(s) /\ sweep.known = Linked
                        \/ Remove(s) /\ index = Linked,
                        NEW l \in Texts, Exact(l), Resolve(l) = s,
                        Find(l) \cup Aliased(Of("playbook"), l) \subseteq {s}
                 PROVE  FALSE
    BY Zenon
  <2>2. s \in Linked
    <3>1. Target(l) = {s}
      BY <1>1, <2>1, TargetAgrees
    <3>2. l \in DesignLinks \cup ConceptLinks \cup ConventionLinks
      BY <2>1 DEF Texts
    <3>3. Target(l) \subseteq Linked
      BY <3>2, Zenon DEF Linked
    <3>4. QED
      BY <3>1, <3>3
  <2>3. CASE Retire(s) /\ sweep.known = Linked
    <3>1. sweep # None /\ <<s, "deprecate">> \in sweep.todo
      BY <2>3 DEF Retire, Item
    <3>2. QED
      BY <1>1, <2>2, <2>3, <3>1 DEF Unlinked
  <2>4. CASE Remove(s) /\ index = Linked
    <3>1. index # None
      BY <2>4, LinkedAreArticles, LinkAssumption
    <3>2. article' = article
      BY <2>2, <2>4, <3>1 DEF Remove
    <3>3. QED
      BY <2>1, <3>2
  <2>5. QED
    BY <2>1, <2>3, <2>4
<1>2. LibraryInit => Unlinked
  BY DEF LibraryInit, Unlinked
<1>3. IInv /\ Unlinked /\ [LibraryNext]_libraryVars => IInv' /\ Unlinked'
  BY StepHolds, UnlinkedKept
<1>4. IInv /\ Unlinked => [Spared]_libraryVars
  BY <1>1, Zenon DEF IInv
<1>5. QED
  BY <1>2, <1>3, <1>4, InitHolds, PTL DEF LibrarySpec, CuratorKeepsLinked

-----------------------------------------------------------------------------
(* The fixes of lexi validate --fix: what the report says of each, and     *)
(* what a fix leaves as it was.                                            *)

Fixable == Checked(Safe) \cup Checked(Escalated) \cup Checked(Destructive)

(* What a report can name.                                                 *)
Thing ==
  File \cup Slot \cup Name \cup Dir \cup Shelf
    \cup ({"source", "design"} \X File) \cup ({"article"} \X Slot)

Pass ==
  [order : Seq(Fixable), todo : SUBSET (Nat \X Thing), mode : {"tty", "pipe", "interactive"},
   fixed : SUBSET (Fixable \X Thing), alone : BOOLEAN]

ValidatorTypeOK == LibraryTypeOK /\ FilesTypeOK /\ pass \in Pass \cup {None}

(* Each fault a reader stops at is one that the check of the kind asks     *)
(* about, one that nobody asks about, or one that makes the check fail.    *)
LEMMA FatalByTable ==
  /\ ConceptFatal \subseteq ConceptErrors \cup Unseen.concept \cup (Choices.concept \X {"type"})
  /\ ConventionFatal \subseteq ConventionErrors \cup Unseen.convention \cup (Choices.convention \X {"type"})
  /\ PlaybookFatal \subseteq PlaybookErrors \cup Unseen.playbook \cup (Choices.playbook \X {"type"})
  /\ PostFatal \subseteq PostErrors \cup Unseen.stack \cup (Choices.stack \X {"type"})
  /\ DesignFatal \subseteq DesignErrors \cup Unseen.design \cup (Choices.design \X {"type"})
  /\ SignalFatal \subseteq IwhErrors \cup Unseen.signal \cup (Choices.signal \X {"type"})
<1>1. ConceptFatal \subseteq ConceptErrors \cup Unseen.concept \cup (Choices.concept \X {"type"})
  BY DEF ConceptFatal, ConceptErrors, Unseen, Choices, Gone, Any
<1>2. ConventionFatal \subseteq ConventionErrors \cup Unseen.convention \cup (Choices.convention \X {"type"})
  BY DEF ConventionFatal, ConventionErrors, Unseen, Choices, Any
<1>3. PlaybookFatal \subseteq PlaybookErrors \cup Unseen.playbook \cup (Choices.playbook \X {"type"})
  BY DEF PlaybookFatal, PlaybookErrors, Unseen, Choices, Any
<1>4. PostFatal \subseteq PostErrors \cup Unseen.stack \cup (Choices.stack \X {"type"})
  BY DEF PostFatal, PostErrors, Unseen, Choices, Any
<1>5. DesignFatal \subseteq DesignErrors \cup Unseen.design \cup (Choices.design \X {"type"})
  BY DEF DesignFatal, DesignErrors, Unseen, Choices, Any
<1>6. SignalFatal \subseteq IwhErrors \cup Unseen.signal \cup (Choices.signal \X {"type"})
  BY DEF SignalFatal, IwhErrors, Unseen, Choices, Any
<1>7. QED
  BY <1>1, <1>2, <1>3, <1>4, <1>5, <1>6

(* A file whose check does not fail on it and that has a fault of the      *)
(* check's is found faulty, or its faults are all overlooked.              *)
LEMMA FaultyOrOverlooked ==
  ASSUME NEW a, a # None, NEW kind, NEW fatal, NEW errors, ~Raises(a, kind),
         fatal \subseteq errors \cup Unseen[kind] \cup (Choices[kind] \X {"type"})
  PROVE  Faulty(a, errors) \/ Overlooked(a, fatal, kind)
<1>1. SUFFICES ASSUME ~Faulty(a, errors) PROVE Overlooked(a, fatal, kind)
  OBVIOUS
<1>2. a.form = "whole" /\ a.wrong \cap errors = {}
  BY <1>1 DEF Faulty
<1>3. a.wrong \cap (Choices[kind] \X {"type"}) = {}
  BY <1>2 DEF Raises
<1>4. a.wrong \cap fatal \subseteq Unseen[kind]
  BY <1>2, <1>3
<1>5. QED
  BY <1>2, <1>4 DEF Overlooked

LEMMA ArticleByTable ==
  ASSUME NEW k \in {"concept", "convention", "playbook", "stack"}, NEW errors,
         NEW s \in Looked(k), article[s] # None, ~Failed(k),
         Fatal[k] \subseteq errors \cup Unseen[k] \cup (Choices[k] \X {"type"})
  PROVE  s \in FaultyOf(k, errors) \/ Overlooked(article[s], Fatal[k], k)
<1>1. ~Raises(article[s], k)
  BY DEF Failed
<1>2. PICK a : a = article[s]
  OBVIOUS
<1>3. Faulty(a, errors) \/ Overlooked(a, Fatal[k], k)
  BY <1>1, <1>2, FaultyOrOverlooked
<1>4. QED
  BY <1>2, <1>3 DEF FaultyOf, Unless

(* What readers drop is what the checks report, by their tables of faults. *)
LEMMA DroppedByTable == FilesTypeOK => DroppedIsReported
<1> SUFFICES ASSUME FilesTypeOK PROVE DroppedIsReported
  OBVIOUS
<1>1. ASSUME NEW s \in Slot, article[s] # None, ~Reads(s)
      PROVE  \/ s \in ConceptFrontmatter \cup ConventionFrontmatter \cup PlaybookFrontmatter
                        \cup StackFrontmatter
             \/ Overlooked(article[s], Fatal[Kind[s]], Kind[s])
             \/ Kind[s] = "stack" /\ s \notin Nested
             \/ Failed(Kind[s])
  <2>1. SUFFICES ASSUME ~Failed(Kind[s]), ~(Kind[s] = "stack" /\ s \notin Nested)
                 PROVE  \/ s \in ConceptFrontmatter \cup ConventionFrontmatter \cup PlaybookFrontmatter
                                   \cup StackFrontmatter
                        \/ Overlooked(article[s], Fatal[Kind[s]], Kind[s])
    OBVIOUS
  <2>2. PICK k \in {"concept", "convention", "playbook", "stack"} : k = Kind[s]
    BY KindAssumption
  <2>3. s \in Looked(k) /\ ~Failed(k)
    BY <1>1, <2>1, <2>2, KindAssumption DEF Looked, Files
  <2>4. CASE k = "concept"
    <3>1. Fatal[k] = ConceptFatal /\ Unseen[k] = Unseen.concept /\ Choices[k] = Choices.concept
      BY <2>4 DEF Fatal
    <3>2. Fatal[k] \subseteq ConceptErrors \cup Unseen[k] \cup (Choices[k] \X {"type"})
      BY <3>1, FatalByTable
    <3>3. s \in FaultyOf(k, ConceptErrors) \/ Overlooked(article[s], Fatal[k], k)
      BY <1>1, <2>3, <3>2, ArticleByTable
    <3>4. QED
      BY <2>2, <2>4, <3>3, Zenon DEF ConceptFrontmatter
  <2>5. CASE k = "convention"
    <3>1. Fatal[k] = ConventionFatal /\ Unseen[k] = Unseen.convention /\ Choices[k] = Choices.convention
      BY <2>5 DEF Fatal
    <3>2. Fatal[k] \subseteq ConventionErrors \cup Unseen[k] \cup (Choices[k] \X {"type"})
      BY <3>1, FatalByTable
    <3>3. s \in FaultyOf(k, ConventionErrors) \/ Overlooked(article[s], Fatal[k], k)
      BY <1>1, <2>3, <3>2, ArticleByTable
    <3>4. QED
      BY <2>2, <2>5, <3>3, Zenon DEF ConventionFrontmatter
  <2>6. CASE k = "playbook"
    <3>1. Fatal[k] = PlaybookFatal /\ Unseen[k] = Unseen.playbook /\ Choices[k] = Choices.playbook
      BY <2>6 DEF Fatal
    <3>2. Fatal[k] \subseteq PlaybookErrors \cup Unseen[k] \cup (Choices[k] \X {"type"})
      BY <3>1, FatalByTable
    <3>3. s \in FaultyOf(k, PlaybookErrors) \/ Overlooked(article[s], Fatal[k], k)
      BY <1>1, <2>3, <3>2, ArticleByTable
    <3>4. QED
      BY <2>2, <2>6, <3>3, Zenon DEF PlaybookFrontmatter
  <2>7. CASE k = "stack"
    <3>1. Fatal[k] = PostFatal /\ Unseen[k] = Unseen.stack /\ Choices[k] = Choices.stack
      BY <2>7 DEF Fatal
    <3>2. Fatal[k] \subseteq PostErrors \cup Unseen[k] \cup (Choices[k] \X {"type"})
      BY <3>1, FatalByTable
    <3>3. s \in FaultyOf(k, PostErrors) \/ Overlooked(article[s], Fatal[k], k)
      BY <1>1, <2>3, <3>2, ArticleByTable
    <3>4. QED
      BY <2>2, <2>7, <3>3, Zenon DEF StackFrontmatter
  <2>8. QED
    BY <2>4, <2>5, <2>6, <2>7
<1>2. ASSUME NEW f \in File, design[f] # None, ~ReadsDesign(f)
      PROVE  \/ f \in DesignFrontmatter \cup DesignStructure
             \/ /\ Overlooked(design[f], DesignFatal, "design")
                /\ {"title", "footer"} \cap design[f].lacks = {}
             \/ DesignsFailed
  <2>1. SUFFICES ASSUME ~DesignsFailed, f \notin DesignFrontmatter, f \notin DesignStructure
                 PROVE  /\ Overlooked(design[f], DesignFatal, "design")
                        /\ {"title", "footer"} \cap design[f].lacks = {}
    OBVIOUS
  <2>2. \A g \in File : ~Raises(design[g], "design")
    BY <2>1 DEF DesignsFailed
  <2>3. ~Faulty(design[f], DesignErrors)
    BY <2>1 DEF DesignFrontmatter, Unless
  <2>4. Overlooked(design[f], DesignFatal, "design")
    <3>1. DesignFatal \subseteq DesignErrors \cup Unseen["design"] \cup (Choices["design"] \X {"type"})
      BY FatalByTable
    <3>2. PICK d : d = design[f]
      OBVIOUS
    <3>3. Faulty(d, DesignErrors) \/ Overlooked(d, DesignFatal, "design")
      BY <1>2, <2>2, <3>1, <3>2, FaultyOrOverlooked
    <3>4. QED
      BY <2>3, <3>2, <3>3
  <2>5. {"title", "footer"} \cap design[f].lacks = {}
    <3>1. \A g \in File : ~Undated(design[g])
      BY <2>2 DEF Raises, Undated
    <3>2. Fenced(design[f])
      BY <1>2, <2>4 DEF Fenced, Overlooked
    <3>3. design[f].lacks \ {"fields"} = {}
      BY <2>1, <3>1, <3>2 DEF DesignStructure, Unless
    <3>4. QED
      BY <3>3
  <2>6. QED
    BY <2>4, <2>5
<1>3. ASSUME NEW p \in DOMAIN signal, signal[p] # None, ~ReadsSignal(p)
      PROVE  \/ p \in IwhFrontmatter
             \/ Overlooked(signal[p], SignalFatal, "signal")
             \/ signal[p].form = "unfenced"
             \/ SignalsFailed
  <2>1. SUFFICES ASSUME ~SignalsFailed, p \notin IwhFrontmatter, signal[p].form # "unfenced"
                 PROVE  Overlooked(signal[p], SignalFatal, "signal")
    OBVIOUS
  <2>2. signal[p].form \in Form
    BY <1>3 DEF FilesTypeOK, SignalRecord
  <2>3. PICK n : n = signal[p]
    OBVIOUS
  <2>4. ~Raises(n, "signal") /\ n # None
    BY <1>3, <2>1, <2>3 DEF SignalsFailed
  <2>5. n.form = "whole" /\ n.wrong \cap IwhErrors = {}
    <3>1. n.form \notin {"unreadable", "torn", "list"} /\ n.wrong \cap IwhErrors = {}
      BY <1>3, <2>1, <2>3 DEF IwhFrontmatter, Unless
    <3>2. n.form # "undated"
      BY <2>4 DEF Raises
    <3>3. QED
      BY <2>1, <2>2, <2>3, <3>1, <3>2 DEF Form
  <2>6. ~Faulty(n, IwhErrors)
    BY <2>5 DEF Faulty
  <2>7. SignalFatal \subseteq IwhErrors \cup Unseen["signal"] \cup (Choices["signal"] \X {"type"})
    BY FatalByTable
  <2>8. QED
    BY <2>3, <2>4, <2>6, <2>7, FaultyOrOverlooked
<1>4. QED
  BY <1>1, <1>2, <1>3, Zenon DEF DroppedIsReported

-----------------------------------------------------------------------------
(* The report.                                                             *)

(* Each finding of a check names one of what the check looks at.           *)
Named(c, x) ==
  /\ c \in {"orphaned_designs", "bidirectional_deps", "lookup_token_budget_exceeded", "deprecated_ttl"}
       => x \in File
  /\ c \in {"aindex_coverage", "orphaned_aindex", "orphaned_iwh"} => x \in Dir
  /\ c = "orphaned_iwh_signals" => x \in Dir \cup Shelf
  /\ c = "orphan_artifacts" => x \in ({"source", "design"} \X File) \cup ({"article"} \X Slot)
  /\ c \in {"convention_stale", "playbook_staleness"} => x \in Slot

(* What a destructive fixer does not look at again is still as reported.   *)
Still(c, x) ==
  /\ c \in {"orphaned_aindex", "orphaned_iwh"} => x \notin dirs
  /\ c = "orphan_artifacts" =>
       (x[1] = "design" => design[x[2]] = None) /\ (x[1] = "article" => article[x[2]] = None)

LEMMA Fixers ==
  /\ Checked(Safe) = {"wikilink_resolution", "orphaned_designs", "aindex_coverage",
        "bidirectional_deps", "lookup_token_budget_exceeded", "orphaned_iwh_signals"}
  /\ Checked(Escalated) = {"orphan_concepts", "stale_concept", "convention_stale", "playbook_staleness"}
  /\ Checked(Destructive) = {"orphan_artifacts", "orphaned_aindex", "orphaned_iwh", "deprecated_ttl"}
<1>1. Checked(Safe) = {"wikilink_resolution", "orphaned_designs", "aindex_coverage",
        "bidirectional_deps", "lookup_token_budget_exceeded", "orphaned_iwh_signals"}
  BY DEF Checked, Safe
<1>2. Checked(Escalated) = {"orphan_concepts", "stale_concept", "convention_stale", "playbook_staleness"}
  BY DEF Checked, Escalated
<1>3. Checked(Destructive) = {"orphan_artifacts", "orphaned_aindex", "orphaned_iwh", "deprecated_ttl"}
  BY DEF Checked, Destructive
<1>4. QED
  BY <1>1, <1>2, <1>3

LEMMA OrderIsTyped ==
  ASSUME NEW mode, NEW destroy \in BOOLEAN
  PROVE  Order(mode, destroy) \in Seq(Fixable)
<1>1. Safe \in Seq(Fixable) /\ Escalated \in Seq(Fixable) /\ Destructive \in Seq(Fixable)
  BY Fixers DEF Safe, Escalated, Destructive, Fixable
<1>2. PICK first : first = IF mode = "interactive" THEN Escalated \o Safe ELSE Safe \o Escalated
  OBVIOUS
<1>3. first \in Seq(Fixable)
  BY <1>1, <1>2
<1>4. Order(mode, destroy) = first \o (IF destroy THEN Destructive ELSE <<>>)
  BY <1>2 DEF Order
<1>5. CASE destroy
  BY <1>1, <1>3, <1>4, <1>5
<1>6. CASE ~destroy
  BY <1>3, <1>4, <1>6
<1>7. QED
  BY <1>5, <1>6

LEMMA ReportOf ==
  /\ Issues["wikilink_resolution"] = WikilinkResolution
  /\ Issues["orphaned_designs"] = OrphanedDesigns
  /\ Issues["aindex_coverage"] = AindexCoverage
  /\ Issues["bidirectional_deps"] = BidirectionalDeps
  /\ Issues["lookup_token_budget_exceeded"] = LookupBudget
  /\ Issues["orphaned_iwh_signals"] = OrphanedSignals
  /\ Issues["orphan_concepts"] = OrphanConcepts
  /\ Issues["stale_concept"] = StaleConcept
  /\ Issues["convention_stale"] = ConventionStale
  /\ Issues["playbook_staleness"] = PlaybookStaleness
  /\ Issues["orphan_artifacts"] = OrphanArtifacts
  /\ Issues["orphaned_aindex"] = OrphanedAindex
  /\ Issues["orphaned_iwh"] = OrphanedIwh
  /\ Issues["deprecated_ttl"] = DeprecatedTtl
BY DEF Issues

(* What is reported at the start is named so, and has just been looked at. *)
LEMMA ReportNames ==
  ASSUME LibraryTypeOK, FilesTypeOK, NEW c \in Fixable, NEW x \in Issues[c]
  PROVE  x \in Thing /\ Named(c, x) /\ Still(c, x)
<1>1. /\ source \in [File -> Nat] /\ dirs \subseteq Dir
      /\ DOMAIN signal = Dir \cup Shelf
      /\ \A k : Of(k) \subseteq Slot
      /\ Concepts \subseteq Of("concept") /\ Read \subseteq File
  BY DEF FilesTypeOK, Of, Concepts, Read
<1>2. c = "wikilink_resolution" \/ c = "orphaned_designs" \/ c = "aindex_coverage"
        \/ c = "bidirectional_deps" \/ c = "lookup_token_budget_exceeded" \/ c = "orphaned_iwh_signals"
        \/ c = "orphan_concepts" \/ c = "stale_concept" \/ c = "convention_stale"
        \/ c = "playbook_staleness" \/ c = "orphan_artifacts" \/ c = "orphaned_aindex"
        \/ c = "orphaned_iwh" \/ c = "deprecated_ttl"
  BY Fixers DEF Fixable
<1>3. CASE c = "wikilink_resolution"
  <2>1. x \in WikilinkResolution
    BY <1>3, ReportOf
  <2>2. x \in File \cup Slot
    BY <1>1, <2>1 DEF WikilinkResolution
  <2>3. QED
    BY <1>3, <2>2 DEF Thing, Named, Still
<1>4. CASE c \in {"orphaned_designs", "bidirectional_deps", "lookup_token_budget_exceeded", "deprecated_ttl"}
  <2>1. x \in OrphanedDesigns \cup BidirectionalDeps \cup LookupBudget \cup DeprecatedTtl
    BY <1>4, ReportOf
  <2>2. x \in File
    BY <1>1, <2>1 DEF OrphanedDesigns, BidirectionalDeps, LookupBudget, TokenBudgets, DeprecatedTtl
  <2>3. QED
    BY <1>4, <2>2 DEF Thing, Named, Still
<1>5. CASE c = "aindex_coverage"
  <2>1. x \in AindexCoverage
    BY <1>5, ReportOf
  <2>2. x \in Dir
    BY <1>1, <2>1 DEF AindexCoverage
  <2>3. QED
    BY <1>5, <2>2 DEF Thing, Named, Still
<1>6. CASE c = "orphaned_iwh_signals"
  <2>1. x \in OrphanedSignals
    BY <1>6, ReportOf
  <2>2. x \in Dir \cup Shelf
    BY <1>1, <2>1 DEF OrphanedSignals
  <2>3. QED
    BY <1>6, <2>2 DEF Thing, Named, Still
<1>7. CASE c \in {"orphan_concepts", "stale_concept"}
  <2>1. x \in OrphanConcepts \cup StaleConcept
    BY <1>7, ReportOf
  <2>2. PICK s \in Met : x = article[s].name
    BY <2>1, Zenon DEF OrphanConcepts, StaleConcept, Titles
  <2>3. PICK t \in Concepts : s = First(Find(article[t].name))
    BY <2>2, Zenon DEF Met
  <2>4. t \in Find(article[t].name) /\ Find(article[t].name) \subseteq Concepts
    BY <2>3 DEF Find
  <2>5. Find(article[t].name) \subseteq Nat
    BY <1>1, <2>4, SlotAssumption
  <2>6. s \in Concepts
    BY <2>3, <2>4, <2>5, FirstIsLeast
  <2>7. s \in Slot /\ article[s] # None
    BY <1>1, <2>6 DEF Of, Reads
  <2>8. x \in Name
    BY <2>2, <2>7 DEF LibraryTypeOK, Article
  <2>9. QED
    BY <1>7, <2>8 DEF Thing, Named, Still
<1>8. CASE c \in {"convention_stale", "playbook_staleness"}
  <2>1. x \in ConventionStale \cup PlaybookStaleness
    BY <1>8, ReportOf
  <2>2. x \in Slot
    BY <1>1, <2>1 DEF ConventionStale, PlaybookStaleness
  <2>3. QED
    BY <1>8, <2>2 DEF Thing, Named, Still
<1>9. CASE c \in {"orphaned_aindex", "orphaned_iwh"}
  <2>1. x \in OrphanedAindex \cup OrphanedIwh
    BY <1>9, ReportOf
  <2>2. x \in Dir \ dirs
    BY <2>1 DEF OrphanedAindex, OrphanedIwh
  <2>3. QED
    BY <1>9, <2>2 DEF Thing, Named, Still
<1>10. CASE c = "orphan_artifacts"
  <2>1. x \in Lost(graph) /\ graph \in GraphRecord
    BY <1>10, ReportOf DEF OrphanArtifacts, Usable, FilesTypeOK
  <2>2. graph.sources \subseteq File /\ graph.designs \subseteq File /\ graph.articles \subseteq Slot
    BY <2>1 DEF GraphRecord
  <2>3. \/ \E f \in File : x = <<"source", f>>
        \/ \E f \in File : x = <<"design", f>> /\ design[f] = None
        \/ \E s \in Slot : x = <<"article", s>> /\ article[s] = None
    BY <2>1, <2>2 DEF Lost
  <2>4. QED
    BY <1>10, <2>3 DEF Thing, Named, Still
<1>11. QED
  BY <1>2, <1>3, <1>4, <1>5, <1>6, <1>7, <1>8, <1>9, <1>10

-----------------------------------------------------------------------------
(* One fix.                                                                *)

Importers(f) == {g \in File : <<g, f>> \in graph.edges}

(* Why x, once fixed, is not what check c reports, and what the fixes of   *)
(* other findings do not undo; the links of a fresh design file and a      *)
(* design file that is unlinked are not claimed.                           *)
Remedied(c, x) ==
  \/ c = "wikilink_resolution"
  \/ /\ c = "orphaned_designs"
     /\ x \in File /\ (x \in tracked \/ design[x] = None \/ design[x].status = "deprecated")
  \/ /\ c = "aindex_coverage"
     /\ x \in Dir \cap dirs /\ aindex[x] # None
  \/ /\ c = "bidirectional_deps"
     /\ x \in File /\ (design[x] = None \/ design[x].dependents = Importers(x))
  \/ /\ c = "lookup_token_budget_exceeded"
     /\ x \in File /\ (design[x] = None \/ ~design[x].big)
  \/ /\ c = "orphaned_iwh_signals"
     /\ x \in Dir \cup Shelf /\ (signal[x] = None \/ ~signal[x].old)
  \/ /\ c = "orphaned_aindex"
     /\ x \in Dir \ dirs /\ aindex[x] = None
  \/ /\ c = "orphaned_iwh"
     /\ x \in Dir \ dirs /\ signal[x] = None
  \/ /\ c = "deprecated_ttl"
     /\ x \in File /\ design[x] = None

(* A design file that a fix leaves: it was there, is not revived without   *)
(* its source in git, does not grow, and its importers are as they were or *)
(* those of the link graph.                                                *)
Tamed(f, d) ==
  /\ design[f] # None
  /\ design[f].status = "deprecated" => d.status = "deprecated" \/ f \in tracked
  /\ d.big => design[f].big
  /\ d.dependents = design[f].dependents \/ d.dependents = Importers(f)

DesignsTamed == \A f \in File : design'[f] # None => Tamed(f, design'[f])

(* An index file is made where there is a directory, and deleted where     *)
(* there is none.                                                          *)
IndexesFollow ==
  \A d \in Dir : /\ d \in dirs /\ aindex[d] # None => aindex'[d] # None
                 /\ d \notin dirs /\ aindex[d] = None => aindex'[d] = None

(* New signals are fresh ones beside the articles.                         *)
SignalsFresh ==
  \A p \in Dir \cup Shelf :
    signal'[p] # None => signal'[p] = signal[p] \/ (p \in Shelf /\ ~signal'[p].old)

ArticlesGo == \A s \in Slot : article[s] = None => article'[s] = None

(* What a fixing does not take back while nobody else is at work.          *)
Kept ==
  /\ UNCHANGED <<source, dirs, graph, setup, tracked>>
  /\ DesignsTamed /\ IndexesFollow /\ SignalsFresh /\ ArticlesGo

LEMMA RemediesKept ==
  ASSUME Kept, NEW c, NEW x, Remedied(c, x)
  PROVE  Remedied(c, x)'
<1>1. UNCHANGED <<source, dirs, graph, setup, tracked>>
  BY DEF Kept
<1>2. CASE c = "wikilink_resolution"
  BY <1>2 DEF Remedied
<1>3. CASE /\ c = "orphaned_designs"
           /\ x \in File /\ (x \in tracked \/ design[x] = None \/ design[x].status = "deprecated")
  BY <1>1, <1>3 DEF Kept, Remedied, DesignsTamed, Tamed
<1>4. CASE c = "aindex_coverage" /\ x \in Dir \cap dirs /\ aindex[x] # None
  BY <1>1, <1>4 DEF Kept, Remedied, IndexesFollow
<1>5. CASE /\ c = "bidirectional_deps"
           /\ x \in File /\ (design[x] = None \/ design[x].dependents = Importers(x))
  BY <1>1, <1>5 DEF Kept, Remedied, DesignsTamed, Tamed, Importers
<1>6. CASE /\ c = "lookup_token_budget_exceeded"
           /\ x \in File /\ (design[x] = None \/ ~design[x].big)
  BY <1>1, <1>6 DEF Kept, Remedied, DesignsTamed, Tamed
<1>7. CASE /\ c = "orphaned_iwh_signals"
           /\ x \in Dir \cup Shelf /\ (signal[x] = None \/ ~signal[x].old)
  BY <1>1, <1>7 DEF Kept, Remedied, SignalsFresh
<1>8. CASE c = "orphaned_aindex" /\ x \in Dir \ dirs /\ aindex[x] = None
  BY <1>1, <1>8 DEF Kept, Remedied, IndexesFollow
<1>9. CASE c = "orphaned_iwh" /\ x \in Dir \ dirs /\ signal[x] = None
  BY <1>1, <1>9, PlaceAssumption DEF Kept, Remedied, SignalsFresh
<1>10. CASE c = "deprecated_ttl" /\ x \in File /\ design[x] = None
  BY <1>1, <1>10 DEF Kept, Remedied, DesignsTamed, Tamed
<1>11. QED
  BY <1>2, <1>3, <1>4, <1>5, <1>6, <1>7, <1>8, <1>9, <1>10 DEF Remedied

LEMMA StillKept ==
  ASSUME Kept, NEW c, NEW x, Named(c, x), Still(c, x)
  PROVE  Still(c, x)'
<1>1. dirs' = dirs
  BY DEF Kept
<1>2. c = "orphan_artifacts" /\ x[1] = "design" => x[2] \in File
  BY DEF Named
<1>3. c = "orphan_artifacts" /\ x[1] = "article" => x[2] \in Slot
  BY DEF Named
<1>4. QED
  BY <1>1, <1>2, <1>3 DEF Still, Kept, DesignsTamed, Tamed, ArticlesGo

(* What a fix takes away is what it was asked about, or dead.              *)
Takes(c, x) ==
  /\ \A s \in Slot : article[s] # None /\ article'[s] = None =>
       c = "orphan_artifacts" /\ x = <<"article", s>>
  /\ \A f \in File : design[f] # None /\ design'[f] = None =>
       \/ design[f].status = "deprecated" /\ design[f].age > Ttl
       \/ source[f] = 0 /\ c = "orphan_artifacts" /\ x = <<"design", f>>
  /\ \A d \in Dir : aindex[d] # None /\ aindex'[d] = None => c = "orphaned_aindex" /\ x = d
  /\ \A p \in Dir \cup Shelf : signal[p] # None /\ signal'[p] = None =>
       signal[p].old \/ (c = "orphaned_iwh" /\ x = p)

(* What holds of a step that works off the finding x of check c.           *)
WorkedOff(c, x) ==
  /\ FilesTypeOK'
  /\ article' \in [Slot -> Article \cup {None}]
  /\ UNCHANGED rest
  /\ Takes(c, x)
  /\ Still(c, x) => Kept
  /\ \E fixed \in BOOLEAN :
       Ended(c, x, fixed) /\ (fixed /\ Still(c, x) => Remedied(c, x)')

LEMMA NothingChanges ==
  ASSUME LibraryTypeOK, FilesTypeOK, UNCHANGED <<files, article>>
  PROVE  /\ FilesTypeOK' /\ article' \in [Slot -> Article \cup {None}]
         /\ Kept
         /\ \A c, x : Takes(c, x)
<1>1. UNCHANGED <<source, dirs, design, aindex, signal, graph, setup, tracked, article>>
  BY DEF files
<1>2. FilesTypeOK' /\ article' \in [Slot -> Article \cup {None}]
  BY <1>1 DEF FilesTypeOK, LibraryTypeOK
<1>3. Kept
  BY <1>1, Zenon DEF Kept, DesignsTamed, Tamed, IndexesFollow, SignalsFresh, ArticlesGo
<1>4. \A c, x : Takes(c, x)
  BY <1>1, Zenon DEF Takes
<1>5. QED
  BY <1>2, <1>3, <1>4

LEMMA SkipWorksOff ==
  ASSUME LibraryTypeOK, FilesTypeOK, NEW c, NEW x, Skip(c, x), UNCHANGED rest
  PROVE  WorkedOff(c, x)
BY NothingChanges, Zenon DEF Skip, WorkedOff

(* A fixer that changes the design file of f, and one that deletes it.     *)
LEMMA DesignChanges ==
  ASSUME LibraryTypeOK, FilesTypeOK, NEW f \in File, NEW d \in DesignRecord, Tamed(f, d),
         design' = [design EXCEPT ![f] = d],
         UNCHANGED <<source, dirs, aindex, signal, graph, setup, tracked, article>>
  PROVE  /\ FilesTypeOK' /\ article' \in [Slot -> Article \cup {None}]
         /\ Kept
         /\ \A c, x : Takes(c, x)
         /\ design'[f] = d
<1>1. design \in [File -> DesignRecord \cup {None}]
  BY DEF FilesTypeOK
<1>2. design' \in [File -> DesignRecord \cup {None}] /\ design'[f] = d
  BY <1>1
<1>3. FilesTypeOK' /\ article' \in [Slot -> Article \cup {None}]
  BY <1>2 DEF FilesTypeOK, LibraryTypeOK
<1>4. \A g \in File \ {f} : design'[g] = design[g]
  BY <1>1
<1>5. DesignsTamed
  <2>1. SUFFICES ASSUME NEW g \in File, design'[g] # None PROVE Tamed(g, design'[g])
    BY DEF DesignsTamed
  <2>2. CASE g = f
    BY <1>2, <2>2
  <2>3. CASE g # f
    BY <1>4, <2>1, <2>3, Zenon DEF Tamed
  <2>4. QED
    BY <2>2, <2>3
<1>6. Kept
  BY <1>5, Zenon DEF Kept, IndexesFollow, SignalsFresh, ArticlesGo
<1>7. \A g \in File : design[g] # None => design'[g] # None
  BY <1>2, <1>4, NothingAssumption
<1>8. \A c, x : Takes(c, x)
  BY <1>7, Zenon DEF Takes
<1>9. QED
  BY <1>2, <1>3, <1>6, <1>8

LEMMA DesignGoes ==
  ASSUME LibraryTypeOK, FilesTypeOK, NEW f \in File,
         design' = [design EXCEPT ![f] = None],
         UNCHANGED <<source, dirs, aindex, signal, graph, setup, tracked, article>>
  PROVE  /\ FilesTypeOK' /\ article' \in [Slot -> Article \cup {None}]
         /\ Kept
         /\ design'[f] = None /\ \A g \in File \ {f} : design'[g] = design[g]
<1>1. design \in [File -> DesignRecord \cup {None}]
  BY DEF FilesTypeOK
<1>2. design' \in [File -> DesignRecord \cup {None}] /\ design'[f] = None
  BY <1>1
<1>3. FilesTypeOK' /\ article' \in [Slot -> Article \cup {None}]
  BY <1>2 DEF FilesTypeOK, LibraryTypeOK
<1>4. \A g \in File \ {f} : design'[g] = design[g]
  BY <1>1
<1>5. DesignsTamed
  BY <1>2, <1>4, Zenon DEF DesignsTamed, Tamed
<1>6. Kept
  BY <1>5, Zenon DEF Kept, IndexesFollow, SignalsFresh, ArticlesGo
<1>7. QED
  BY <1>2, <1>3, <1>4, <1>6

(* A fixer that makes or deletes an index file, and one that deletes a     *)
(* signal.                                                                 *)
LEMMA IndexChanges ==
  ASSUME LibraryTypeOK, FilesTypeOK, NEW d \in Dir, NEW i \in IndexRecord \cup {None},
         aindex' = [aindex EXCEPT ![d] = i],
         UNCHANGED <<source, dirs, design, signal, graph, setup, tracked, article>>
  PROVE  /\ FilesTypeOK' /\ article' \in [Slot -> Article \cup {None}]
         /\ (d \in dirs <=> i # None) => Kept
         /\ aindex'[d] = i
         /\ \A c, x : (i = None => c = "orphaned_aindex" /\ x = d) => Takes(c, x)
<1>1. aindex \in [Dir -> IndexRecord \cup {None}]
  BY DEF FilesTypeOK
<1>2. aindex' \in [Dir -> IndexRecord \cup {None}] /\ aindex'[d] = i
      /\ \A e \in Dir \ {d} : aindex'[e] = aindex[e]
  BY <1>1
<1>3. FilesTypeOK' /\ article' \in [Slot -> Article \cup {None}]
  BY <1>2 DEF FilesTypeOK, LibraryTypeOK
<1>4. (d \in dirs <=> i # None) => IndexesFollow
  BY <1>2, Zenon DEF IndexesFollow
<1>5. (d \in dirs <=> i # None) => Kept
  BY <1>4, Zenon DEF Kept, DesignsTamed, Tamed, SignalsFresh, ArticlesGo
<1>6. \A c, x : (i = None => c = "orphaned_aindex" /\ x = d) => Takes(c, x)
  <2>1. SUFFICES ASSUME NEW c, NEW x, i = None => c = "orphaned_aindex" /\ x = d
                 PROVE  \A e \in Dir : aindex[e] # None /\ aindex'[e] = None
                                       => c = "orphaned_aindex" /\ x = e
    BY Zenon DEF Takes
  <2>2. QED
    BY <1>2, <2>1
<1>7. QED
  BY <1>2, <1>3, <1>5, <1>6

LEMMA SignalGoes ==
  ASSUME LibraryTypeOK, FilesTypeOK, NEW p \in Dir \cup Shelf,
         signal' = [signal EXCEPT ![p] = None],
         UNCHANGED <<source, dirs, design, aindex, graph, setup, tracked, article>>
  PROVE  /\ FilesTypeOK' /\ article' \in [Slot -> Article \cup {None}]
         /\ Kept
         /\ signal'[p] = None
         /\ \A c, x : (signal[p] # None => signal[p].old \/ (c = "orphaned_iwh" /\ x = p)) => Takes(c, x)
<1>1. signal \in [Dir \cup Shelf -> SignalRecord \cup {None}]
  BY DEF FilesTypeOK
<1>2. signal' \in [Dir \cup Shelf -> SignalRecord \cup {None}] /\ signal'[p] = None
      /\ \A q \in (Dir \cup Shelf) \ {p} : signal'[q] = signal[q]
  BY <1>1
<1>3. FilesTypeOK' /\ article' \in [Slot -> Article \cup {None}]
  BY <1>2 DEF FilesTypeOK, LibraryTypeOK
<1>4. SignalsFresh
  BY <1>2, Zenon DEF SignalsFresh
<1>5. Kept
  BY <1>4, Zenon DEF Kept, DesignsTamed, Tamed, IndexesFollow, ArticlesGo
<1>6. \A c, x : (signal[p] # None => signal[p].old \/ (c = "orphaned_iwh" /\ x = p)) => Takes(c, x)
  <2>1. SUFFICES ASSUME NEW c, NEW x,
                        signal[p] # None => signal[p].old \/ (c = "orphaned_iwh" /\ x = p)
                 PROVE  \A q \in Dir \cup Shelf : signal[q] # None /\ signal'[q] = None
                                       => signal[q].old \/ (c = "orphaned_iwh" /\ x = q)
    BY Zenon DEF Takes
  <2>2. QED
    BY <1>2, <2>1, Zenon
<1>7. QED
  BY <1>2, <1>3, <1>5, <1>6

-----------------------------------------------------------------------------
(* The fixers, one by one.                                                 *)

LEMMA WikilinkWorksOff ==
  ASSUME LibraryTypeOK, FilesTypeOK, NEW x, FixWikilink(x), UNCHANGED rest
  PROVE  WorkedOff("wikilink_resolution", x)
<1>1. Remedied("wikilink_resolution", x)'
  BY DEF Remedied
<1>2. CASE Skip("wikilink_resolution", x)
  BY <1>2, SkipWorksOff
<1>3. CASE Ended("wikilink_resolution", x, TRUE) /\ UNCHANGED <<files, article>>
  BY <1>1, <1>3, NothingChanges, Zenon DEF WorkedOff
<1>4. CASE /\ x \in File /\ ReadsDesign(x)
           /\ \E l \in SUBSET design[x].links :
                design' = [design EXCEPT ![x].links = l, ![x].hash = source[x]]
           /\ Ended("wikilink_resolution", x, TRUE)
           /\ UNCHANGED <<source, dirs, aindex, signal, graph, setup, tracked, article>>
  <2>1. design \in [File -> DesignRecord \cup {None}] /\ source[x] \in Nat /\ design[x] # None
    BY <1>4 DEF FilesTypeOK, ReadsDesign
  <2>2. PICK r \in DesignRecord : r = design[x]
    BY <1>4, <2>1
  <2>3. PICK l \in SUBSET design[x].links :
          design' = [design EXCEPT ![x].links = l, ![x].hash = source[x]]
    BY <1>4
  <2>4. PICK h \in Nat : h = source[x]
    BY <2>1
  <2>5. PICK d : d = [r EXCEPT !.links = l, !.hash = h]
    OBVIOUS
  <2>6. l \in SUBSET (Name \cup Code)
    BY <2>2, <2>3 DEF DesignRecord
  <2>7. d \in DesignRecord /\ d.status = r.status /\ d.big = r.big /\ d.dependents = r.dependents
    BY <2>5, <2>6 DEF DesignRecord
  <2>8. design' = [design EXCEPT ![x] = d]
    BY <1>4, <2>1, <2>2, <2>3, <2>4, <2>5
  <2>9. Tamed(x, d)
    BY <2>1, <2>2, <2>7, Zenon DEF Tamed
  <2>10. QED
    BY <1>1, <1>4, <2>7, <2>8, <2>9, DesignChanges, Zenon DEF WorkedOff
<1>5. QED
  BY <1>2, <1>3, <1>4, Zenon DEF FixWikilink

LEMMA OrphanedDesignWorksOff ==
  ASSUME LibraryTypeOK, FilesTypeOK, NEW f \in File, FixOrphanedDesign(f), UNCHANGED rest
  PROVE  WorkedOff("orphaned_designs", f)
<1>1. CASE ~ReadsDesign(f)
  BY <1>1, SkipWorksOff DEF FixOrphanedDesign
<1>2. CASE ReadsDesign(f)
  <2>1. design \in [File -> DesignRecord \cup {None}] /\ design[f] # None
    BY <1>2 DEF FilesTypeOK, ReadsDesign
  <2>2. PICK r \in DesignRecord : r = design[f]
    BY <2>1
  <2>3. PICK d : d = IF f \in tracked THEN [r EXCEPT !.status = "unlinked"]
                     ELSE [r EXCEPT !.status = "deprecated", !.age = 0]
    OBVIOUS
  <2>4. design' = [design EXCEPT ![f] = d] /\ Ended("orphaned_designs", f, TRUE)
        /\ UNCHANGED <<source, dirs, aindex, signal, graph, setup, tracked, article>>
    BY <1>2, <2>1, <2>2, <2>3 DEF FixOrphanedDesign
  <2>5. d \in DesignRecord /\ d.big = r.big /\ d.dependents = r.dependents
        /\ (f \in tracked \/ d.status = "deprecated")
    <3>1. CASE f \in tracked
      BY <2>3, <3>1 DEF DesignRecord
    <3>2. CASE f \notin tracked
      <4>1. PICK e : e = [r EXCEPT !.status = "deprecated"]
        OBVIOUS
      <4>2. e \in DesignRecord /\ e.big = r.big /\ e.dependents = r.dependents
            /\ e.status = "deprecated"
        BY <4>1 DEF DesignRecord
      <4>3. PICK a \in (0..(Ttl + 1)) \cup {None} : a = 0
        BY TtlAssumption
      <4>4. d = [e EXCEPT !.age = a]
        BY <2>3, <3>2, <4>1, <4>3 DEF DesignRecord
      <4>5. d \in DesignRecord /\ d.big = e.big /\ d.dependents = e.dependents
            /\ d.status = e.status
        BY <4>2, <4>4 DEF DesignRecord
      <4>6. QED
        BY <4>2, <4>5
    <3>3. QED
      BY <3>1, <3>2
  <2>6. Tamed(f, d)
    BY <2>1, <2>2, <2>5, Zenon DEF Tamed
  <2>7. tracked' = tracked /\ design'[f] = d
    BY <2>4, <2>5, <2>6, DesignChanges, Zenon
  <2>8. Remedied("orphaned_designs", f)'
    BY <2>5, <2>7 DEF Remedied
  <2>9. QED
    BY <2>4, <2>5, <2>6, <2>8, DesignChanges, Zenon DEF WorkedOff
<1>3. QED
  BY <1>1, <1>2

LEMMA AindexWorksOff ==
  ASSUME LibraryTypeOK, FilesTypeOK, NEW d \in Dir, FixAindex(d), UNCHANGED rest
  PROVE  WorkedOff("aindex_coverage", d)
<1>1. CASE d \notin dirs
  BY <1>1, SkipWorksOff DEF FixAindex
<1>2. CASE d \in dirs
  <2>1. PICK i : i = [files |-> Inside(d), dirs |-> Within(d)]
    OBVIOUS
  <2>2. i \in IndexRecord /\ i # None
    <3>1. Inside(d) \subseteq File /\ Within(d) \subseteq Dir
      BY DEF Inside, Within, FilesTypeOK
    <3>2. i \in IndexRecord
      BY <2>1, <3>1 DEF IndexRecord
    <3>3. QED
      BY <3>2, NothingAssumption
  <2>3. aindex' = [aindex EXCEPT ![d] = i] /\ Ended("aindex_coverage", d, TRUE)
        /\ UNCHANGED <<source, dirs, design, signal, graph, setup, tracked, article>>
    BY <1>2, <2>1, Zenon DEF FixAindex
  <2>4. aindex'[d] = i /\ dirs' = dirs /\ Kept
    BY <1>2, <2>2, <2>3, IndexChanges, Zenon
  <2>5. Remedied("aindex_coverage", d)'
    BY <1>2, <2>2, <2>4 DEF Remedied
  <2>6. QED
    BY <2>2, <2>3, <2>4, <2>5, IndexChanges, Zenon DEF WorkedOff
<1>3. QED
  BY <1>1, <1>2

LEMMA DepsWorksOff ==
  ASSUME LibraryTypeOK, FilesTypeOK, NEW f \in File, FixDeps(f), UNCHANGED rest
  PROVE  WorkedOff("bidirectional_deps", f)
<1>1. CASE ~ReadsDesign(f) \/ ~Usable
  BY <1>1, SkipWorksOff DEF FixDeps
<1>2. CASE ReadsDesign(f) /\ Usable
  <2>1. design \in [File -> DesignRecord \cup {None}] /\ design[f] # None
    BY <1>2 DEF FilesTypeOK, ReadsDesign
  <2>2. PICK r \in DesignRecord : r = design[f]
    BY <2>1
  <2>3. PICK d : d = Reconciled(f)
    OBVIOUS
  <2>4. design' = [design EXCEPT ![f] = d] /\ Ended("bidirectional_deps", f, TRUE)
        /\ UNCHANGED <<source, dirs, aindex, signal, graph, setup, tracked, article>>
    BY <1>2, <2>3, Zenon DEF FixDeps
  <2>5. PICK to : to = IF source[f] = 0 THEN {} ELSE Present(Imports[f])
    OBVIOUS
  <2>6. to \in SUBSET File /\ Importers(f) \in SUBSET File
    BY <2>5, PlaceAssumption DEF Present, Importers
  <2>7. \/ d = r /\ r.dependents = Importers(f)
        \/ d = [r EXCEPT !.deps = to, !.dependents = Importers(f), !.by = "archivist", !.whole = TRUE]
    BY <2>2, <2>3, <2>5 DEF Reconciled, Importers
  <2>8. d \in DesignRecord /\ d.big = r.big /\ d.status = r.status /\ d.dependents = Importers(f)
    <3>1. CASE d = r /\ r.dependents = Importers(f)
      BY <3>1
    <3>2. CASE d = [r EXCEPT !.deps = to, !.dependents = Importers(f), !.by = "archivist", !.whole = TRUE]
      <4>1. PICK from \in SUBSET File : from = Importers(f)
        BY <2>6
      <4>2. PICK e : e = [r EXCEPT !.deps = to, !.dependents = from]
        OBVIOUS
      <4>3. e \in DesignRecord /\ e.big = r.big /\ e.status = r.status /\ e.dependents = from
        BY <2>6, <4>1, <4>2 DEF DesignRecord
      <4>4. d = [e EXCEPT !.by = "archivist", !.whole = TRUE]
        BY <3>2, <4>1, <4>2 DEF DesignRecord
      <4>5. d \in DesignRecord /\ d.big = e.big /\ d.status = e.status /\ d.dependents = e.dependents
        BY <4>3, <4>4 DEF DesignRecord
      <4>6. QED
        BY <4>1, <4>3, <4>5, Zenon
    <3>3. QED
      BY <2>7, <3>1, <3>2
  <2>9. Tamed(f, d)
    BY <2>1, <2>2, <2>8, Zenon DEF Tamed
  <2>10. design'[f] = d /\ graph' = graph
    BY <2>4, <2>8, <2>9, DesignChanges, Zenon
  <2>11. Remedied("bidirectional_deps", f)'
    BY <2>8, <2>10 DEF Remedied, Importers
  <2>12. QED
    BY <2>4, <2>8, <2>9, <2>11, DesignChanges, Zenon DEF WorkedOff
<1>3. QED
  BY <1>1, <1>2

LEMMA BudgetWorksOff ==
  ASSUME LibraryTypeOK, FilesTypeOK, NEW f \in File, FixBudget(f), UNCHANGED rest
  PROVE  WorkedOff("lookup_token_budget_exceeded", f)
<1>1. CASE Skip("lookup_token_budget_exceeded", f)
  BY <1>1, SkipWorksOff
<1>2. CASE ~Skip("lookup_token_budget_exceeded", f)
  <2>1. design[f] # None /\ design[f].big
    BY <1>2 DEF FixBudget
  <2>2. PICK big \in BOOLEAN :
          /\ design' = [design EXCEPT ![f].big = big, ![f].by = "archivist",
                           ![f].hash = IF source[f] = 0 THEN @ ELSE source[f]]
          /\ Ended("lookup_token_budget_exceeded", f, ~big)
          /\ UNCHANGED <<source, dirs, aindex, signal, graph, setup, tracked, article>>
    BY <1>2, Zenon DEF FixBudget
  <2>3. design \in [File -> DesignRecord \cup {None}] /\ source[f] \in Nat
    BY DEF FilesTypeOK
  <2>4. PICK r \in DesignRecord : r = design[f]
    BY <2>1, <2>3
  <2>5. PICK h \in Nat : h = IF source[f] = 0 THEN r.hash ELSE source[f]
    BY <2>3 DEF DesignRecord
  <2>6. PICK d : d = [r EXCEPT !.big = big, !.by = "archivist", !.hash = h]
    OBVIOUS
  <2>7. d \in DesignRecord /\ d.big = big /\ d.status = r.status /\ d.dependents = r.dependents
    BY <2>6 DEF DesignRecord
  <2>8. design' = [design EXCEPT ![f] = d]
    BY <2>2, <2>3, <2>4, <2>5, <2>6
  <2>9. Tamed(f, d)
    BY <2>1, <2>4, <2>7, Zenon DEF Tamed
  <2>10. design'[f] = d
    BY <2>2, <2>7, <2>8, <2>9, DesignChanges, Zenon
  <2>11. ~big => Remedied("lookup_token_budget_exceeded", f)'
    BY <2>7, <2>10 DEF Remedied
  <2>12. (~big) \in BOOLEAN
    OBVIOUS
  <2>13. QED
    BY <2>2, <2>7, <2>8, <2>9, <2>11, <2>12, DesignChanges, Zenon DEF WorkedOff
<1>3. QED
  BY <1>1, <1>2

LEMMA SignalWorksOff ==
  ASSUME LibraryTypeOK, FilesTypeOK, NEW p \in Dir \cup Shelf, FixSignal(p), UNCHANGED rest
  PROVE  WorkedOff("orphaned_iwh_signals", p)
<1>1. CASE Skip("orphaned_iwh_signals", p)
  BY <1>1, SkipWorksOff
<1>2. CASE ~Skip("orphaned_iwh_signals", p)
  <2>1. /\ signal[p].old
        /\ signal' = [signal EXCEPT ![p] = None]
        /\ Ended("orphaned_iwh_signals", p, TRUE)
        /\ UNCHANGED <<source, dirs, design, aindex, graph, setup, tracked, article>>
    BY <1>2, Zenon DEF FixSignal
  <2>2. signal'[p] = None
    BY <2>1, SignalGoes, Zenon
  <2>3. Remedied("orphaned_iwh_signals", p)'
    BY <2>2 DEF Remedied
  <2>4. QED
    BY <2>1, <2>3, SignalGoes, Zenon DEF WorkedOff
<1>3. QED
  BY <1>1, <1>2

LEMMA ArtifactWorksOff ==
  ASSUME LibraryTypeOK, FilesTypeOK, NEW r, Named("orphan_artifacts", r),
         FixOrphanArtifact(r), UNCHANGED rest
  PROVE  WorkedOff("orphan_artifacts", r)
<1>1. r \in ({"source", "design"} \X File) \cup ({"article"} \X Slot)
  BY DEF Named
<1>2. CASE Skip("orphan_artifacts", r)
  BY <1>2, SkipWorksOff
<1>3. CASE /\ r[1] = "design" /\ design[r[2]] # None /\ source[r[2]] = 0
           /\ design' = [design EXCEPT ![r[2]] = None]
           /\ Ended("orphan_artifacts", r, TRUE)
           /\ UNCHANGED <<source, dirs, aindex, signal, graph, setup, tracked, article>>
  <2>1. PICK f \in File : r = <<"design", f>> /\ f = r[2]
    BY <1>1, <1>3
  <2>2. ~Still("orphan_artifacts", r)
    BY <1>3 DEF Still
  <2>3. /\ FilesTypeOK' /\ article' \in [Slot -> Article \cup {None}]
        /\ \A g \in File \ {f} : design'[g] = design[g]
    BY <1>3, <2>1, DesignGoes, Zenon
  <2>4. Takes("orphan_artifacts", r)
    BY <1>3, <2>1, <2>3, Zenon DEF Takes
  <2>5. QED
    BY <1>3, <2>2, <2>3, <2>4, Zenon DEF WorkedOff
<1>4. CASE /\ r[1] = "article" /\ article[r[2]] # None
           /\ article' = [article EXCEPT ![r[2]] = None]
           /\ Ended("orphan_artifacts", r, TRUE)
           /\ UNCHANGED files
  <2>1. PICK s \in Slot : r = <<"article", s>> /\ s = r[2]
    BY <1>1, <1>4
  <2>2. ~Still("orphan_artifacts", r)
    BY <1>4 DEF Still
  <2>3. article \in [Slot -> Article \cup {None}] /\ article' = [article EXCEPT ![s] = None]
    BY <1>4, <2>1 DEF LibraryTypeOK
  <2>4. article' \in [Slot -> Article \cup {None}] /\ \A t \in Slot \ {s} : article'[t] = article[t]
    BY <2>3
  <2>5. UNCHANGED <<source, dirs, design, aindex, signal, graph, setup, tracked>>
    BY <1>4 DEF files
  <2>6. FilesTypeOK'
    BY <2>5 DEF FilesTypeOK
  <2>7. Takes("orphan_artifacts", r)
    BY <2>1, <2>4, <2>5, Zenon DEF Takes
  <2>8. QED
    BY <1>4, <2>2, <2>4, <2>6, <2>7, Zenon DEF WorkedOff
<1>5. QED
  BY <1>2, <1>3, <1>4, Zenon DEF FixOrphanArtifact

LEMMA OrphanedAindexWorksOff ==
  ASSUME LibraryTypeOK, FilesTypeOK, NEW d \in Dir, FixOrphanedAindex(d), UNCHANGED rest
  PROVE  WorkedOff("orphaned_aindex", d)
<1>1. /\ aindex' = [aindex EXCEPT ![d] = None]
      /\ Ended("orphaned_aindex", d, aindex[d] # None)
      /\ UNCHANGED <<source, dirs, design, signal, graph, setup, tracked, article>>
  BY Zenon DEF FixOrphanedAindex
<1>2. aindex'[d] = None /\ dirs' = dirs
  BY <1>1, IndexChanges, Zenon
<1>3. Still("orphaned_aindex", d) => d \notin dirs
  BY DEF Still
<1>4. Still("orphaned_aindex", d) => Kept /\ Remedied("orphaned_aindex", d)'
  <2>1. Still("orphaned_aindex", d) => Kept
    BY <1>1, <1>3, IndexChanges, Zenon
  <2>2. Still("orphaned_aindex", d) => Remedied("orphaned_aindex", d)'
    BY <1>2, <1>3 DEF Remedied
  <2>3. QED
    BY <2>1, <2>2
<1>5. Takes("orphaned_aindex", d) /\ FilesTypeOK' /\ article' \in [Slot -> Article \cup {None}]
  BY <1>1, IndexChanges, Zenon
<1>6. (aindex[d] # None) \in BOOLEAN
  OBVIOUS
<1>7. QED
  BY <1>1, <1>4, <1>5, <1>6, Zenon DEF WorkedOff

LEMMA OrphanedIwhWorksOff ==
  ASSUME LibraryTypeOK, FilesTypeOK, NEW d \in Dir, FixOrphanedIwh(d), UNCHANGED rest
  PROVE  WorkedOff("orphaned_iwh", d)
<1>1. /\ signal' = [signal EXCEPT ![d] = None]
      /\ Ended("orphaned_iwh", d, signal[d] # None)
      /\ UNCHANGED <<source, dirs, design, aindex, graph, setup, tracked, article>>
  BY Zenon DEF FixOrphanedIwh
<1>2. d \in Dir \cup Shelf
  OBVIOUS
<1>3. signal'[d] = None /\ dirs' = dirs /\ Kept
  BY <1>1, <1>2, SignalGoes, Zenon
<1>4. Still("orphaned_iwh", d) => Remedied("orphaned_iwh", d)'
  BY <1>3 DEF Remedied, Still
<1>5. Takes("orphaned_iwh", d) /\ FilesTypeOK' /\ article' \in [Slot -> Article \cup {None}]
  BY <1>1, <1>2, SignalGoes, Zenon
<1>6. (signal[d] # None) \in BOOLEAN
  OBVIOUS
<1>7. QED
  BY <1>1, <1>3, <1>4, <1>5, <1>6, Zenon DEF WorkedOff

LEMMA DeprecatedWorksOff ==
  ASSUME LibraryTypeOK, FilesTypeOK, NEW f \in File, FixDeprecated(f), UNCHANGED rest
  PROVE  WorkedOff("deprecated_ttl", f)
<1>1. CASE f \notin DeprecatedTtl
  BY <1>1, SkipWorksOff DEF FixDeprecated
<1>2. CASE f \in DeprecatedTtl
  <2>1. /\ design' = [design EXCEPT ![f] = None]
        /\ Ended("deprecated_ttl", f, TRUE)
        /\ UNCHANGED <<source, dirs, aindex, signal, graph, setup, tracked, article>>
    BY <1>2, Zenon DEF FixDeprecated
  <2>2. /\ FilesTypeOK' /\ article' \in [Slot -> Article \cup {None}] /\ Kept
        /\ design'[f] = None /\ \A g \in File \ {f} : design'[g] = design[g]
    BY <2>1, DesignGoes, Zenon
  <2>3. design[f].status = "deprecated" /\ design[f].age > Ttl
    BY <1>2 DEF DeprecatedTtl
  <2>4. Takes("deprecated_ttl", f)
    BY <2>1, <2>2, <2>3, Zenon DEF Takes
  <2>5. Remedied("deprecated_ttl", f)'
    BY <2>2 DEF Remedied
  <2>6. QED
    BY <2>1, <2>2, <2>4, <2>5, Zenon DEF WorkedOff
<1>3. QED
  BY <1>1, <1>2

(* Whatever fixer a finding falls to.                                      *)
LEMMA FixWorksOff ==
  ASSUME LibraryTypeOK, FilesTypeOK, NEW c \in Checked(Safe) \cup Checked(Destructive), NEW x,
         Named(c, x), Fix(c, x)
  PROVE  WorkedOff(c, x)
<1>1. UNCHANGED rest
  BY DEF Fix
<1> SUFFICES ASSUME ~Skip(c, x) PROVE WorkedOff(c, x)
  BY <1>1, SkipWorksOff
<1>2. c \in {"wikilink_resolution", "orphaned_designs", "aindex_coverage", "bidirectional_deps",
             "lookup_token_budget_exceeded", "orphaned_iwh_signals", "orphan_artifacts",
             "orphaned_aindex", "orphaned_iwh", "deprecated_ttl"}
  BY Fixers
<1>3. CASE c = "wikilink_resolution"
  <2>1. FixWikilink(x)
    BY <1>3 DEF Fix
  <2>2. QED
    BY <1>1, <1>3, <2>1, WikilinkWorksOff
<1>4. CASE c = "orphaned_designs"
  <2>1. FixOrphanedDesign(x) /\ x \in File
    BY <1>4 DEF Fix, Named
  <2>2. QED
    BY <1>1, <1>4, <2>1, OrphanedDesignWorksOff
<1>5. CASE c = "aindex_coverage"
  <2>1. FixAindex(x) /\ x \in Dir
    BY <1>5 DEF Fix, Named
  <2>2. QED
    BY <1>1, <1>5, <2>1, AindexWorksOff
<1>6. CASE c = "bidirectional_deps"
  <2>1. FixDeps(x) /\ x \in File
    BY <1>6 DEF Fix, Named
  <2>2. QED
    BY <1>1, <1>6, <2>1, DepsWorksOff
<1>7. CASE c = "lookup_token_budget_exceeded"
  <2>1. FixBudget(x) /\ x \in File
    BY <1>7 DEF Fix, Named
  <2>2. QED
    BY <1>1, <1>7, <2>1, BudgetWorksOff
<1>8. CASE c = "orphaned_iwh_signals"
  <2>1. FixSignal(x) /\ x \in Dir \cup Shelf
    BY <1>8 DEF Fix, Named
  <2>2. QED
    BY <1>1, <1>8, <2>1, SignalWorksOff
<1>9. CASE c = "orphan_artifacts"
  <2>1. FixOrphanArtifact(x)
    BY <1>9 DEF Fix
  <2>2. QED
    BY <1>1, <1>9, <2>1, ArtifactWorksOff
<1>10. CASE c = "orphaned_aindex"
  <2>1. FixOrphanedAindex(x) /\ x \in Dir
    BY <1>10 DEF Fix, Named
  <2>2. QED
    BY <1>1, <1>10, <2>1, OrphanedAindexWorksOff
<1>11. CASE c = "orphaned_iwh"
  <2>1. FixOrphanedIwh(x) /\ x \in Dir
    BY <1>11 DEF Fix, Named
  <2>2. QED
    BY <1>1, <1>11, <2>1, OrphanedIwhWorksOff
<1>12. CASE c = "deprecated_ttl"
  <2>1. FixDeprecated(x) /\ x \in File
    BY <1>12 DEF Fix, Named
  <2>2. QED
    BY <1>1, <1>12, <2>1, DeprecatedWorksOff
<1>13. QED
  BY <1>2, <1>3, <1>4, <1>5, <1>6, <1>7, <1>8, <1>9, <1>10, <1>11, <1>12

-----------------------------------------------------------------------------
(* Decisions.                                                              *)

LEMMA MeantIsArticle ==
  ASSUME NEW c \in Checked(Escalated), NEW x, Named(c, x), Meant(c, x) # 0
  PROVE  Meant(c, x) \in Slot /\ (Reads(Meant(c, x)) => article[Meant(c, x)] # None)
<1>1. CASE c \in {"orphan_concepts", "stale_concept"}
  <2>1. Find(x) # {} /\ Meant(c, x) = First(Find(x))
    BY <1>1, Zenon DEF Meant
  <2>2. Find(x) \subseteq Slot
    BY DEF Find, Concepts, Of
  <2>3. Meant(c, x) \in Slot
    BY <2>1, <2>2, FirstIsLeast, SlotAssumption
  <2>4. QED
    BY <2>3 DEF Reads
<1>2. CASE c \in {"convention_stale", "playbook_staleness"}
  <2>1. x \in Slot /\ Meant(c, x) = x
    BY <1>2 DEF Named, Meant
  <2>2. QED
    BY <2>1 DEF Reads
<1>3. QED
  BY <1>1, <1>2, Fixers

LEMMA FreshIsTyped == Fresh \in SignalRecord /\ Fresh # None /\ ~Fresh.old
<1>1. Fresh \in SignalRecord /\ ~Fresh.old
  BY DEF Fresh, SignalRecord, Form
<1>2. QED
  BY <1>1, NothingAssumption

LEMMA EscalateWorksOff ==
  ASSUME LibraryTypeOK, FilesTypeOK, NEW c \in Checked(Escalated), NEW x, Named(c, x),
         Escalate(c, x)
  PROVE  WorkedOff(c, x)
<1>1. /\ Ended(c, x, FALSE)
      /\ UNCHANGED <<source, dirs, design, aindex, graph, setup, tracked, article, rest>>
  BY DEF Escalate
<1>2. CASE UNCHANGED signal
  <2>1. UNCHANGED <<files, article>>
    BY <1>1, <1>2 DEF files
  <2>2. QED
    BY <1>1, <2>1, NothingChanges, Zenon DEF WorkedOff
<1>3. CASE Meant(c, x) # 0 /\ signal' = [signal EXCEPT ![ShelfOf[Kind[Meant(c, x)]]] = Fresh]
  <2>1. PICK p \in Shelf : p = ShelfOf[Kind[Meant(c, x)]]
    <3>1. Kind[Meant(c, x)] \in {"concept", "convention", "playbook", "stack"}
      BY <1>3, MeantIsArticle, KindAssumption
    <3>2. QED
      BY <3>1 DEF ShelfOf, Shelf
  <2>2. signal \in [Dir \cup Shelf -> SignalRecord \cup {None}]
        /\ signal' = [signal EXCEPT ![p] = Fresh]
    BY <1>3, <2>1 DEF FilesTypeOK
  <2>3. /\ signal' \in [Dir \cup Shelf -> SignalRecord \cup {None}]
        /\ signal'[p] = Fresh
        /\ \A q \in (Dir \cup Shelf) \ {p} : signal'[q] = signal[q]
    BY <2>2, FreshIsTyped
  <2>4. FilesTypeOK' /\ article' \in [Slot -> Article \cup {None}]
    BY <1>1, <2>3 DEF FilesTypeOK, LibraryTypeOK
  <2>5. SignalsFresh /\ \A q \in Dir \cup Shelf : signal[q] # None => signal'[q] # None
    BY <2>1, <2>3, FreshIsTyped, Zenon DEF SignalsFresh
  <2>6. Kept
    BY <1>1, <2>5, Zenon DEF Kept, DesignsTamed, Tamed, IndexesFollow, ArticlesGo
  <2>7. Takes(c, x)
    BY <1>1, <2>5, Zenon DEF Takes
  <2>8. QED
    BY <1>1, <2>4, <2>6, <2>7, Zenon DEF WorkedOff
<1>4. QED
  BY <1>2, <1>3, Zenon DEF Escalate

(* A saved article stays.                                                  *)
LEMMA SaveStays ==
  ASSUME LibraryTypeOK, NEW s \in Slot, NEW a, article[s] # None, Like(article[s], a), Save(s, a)
  PROVE  /\ article' \in [Slot -> Article \cup {None}]
         /\ \A t \in Slot : article[t] = None <=> article'[t] = None
<1>1. ArticlesKept
  BY SavedArticle
<1>2. PICK b : b = [a EXCEPT !.dirty = TRUE, !.wrong = @ \cap (Field \X {"value"})]
  OBVIOUS
<1>3. b \in Article
  BY <1>2, ManyFieldsChange DEF Like
<1>4. article' = [article EXCEPT ![s] = b]
  BY <1>2, Zenon DEF Save
<1>5. \A t \in Slot : article[t] # None => article'[t] # None
  BY <1>3, <1>4, NothingAssumption DEF LibraryTypeOK
<1>6. QED
  BY <1>1, <1>5, Zenon DEF ArticlesKept

LEMMA RefreshedIsLike ==
  ASSUME NEW c \in Checked(Escalated), NEW a \in Article, NEW scope \in SUBSET Dir
  PROVE  Like(a, Refreshed(c, a, scope))
<1>1. CASE c \in {"orphan_concepts", "playbook_staleness"}
  BY <1>1, FieldsChange DEF Refreshed, Verified
<1>2. CASE c = "stale_concept"
  <2>1. PICK fs \in SUBSET File : fs = Present(a.files)
    BY DEF Present, Article
  <2>2. [a EXCEPT !.files = fs] \in Article /\ [a EXCEPT !.files = fs].alone = a.alone
    BY DEF Article
  <2>3. Refreshed(c, a, scope) = [a EXCEPT !.files = fs]
    BY <1>2, <2>1 DEF Refreshed
  <2>4. QED
    BY <2>2, <2>3 DEF Like
<1>3. CASE c = "convention_stale"
  <2>1. [a EXCEPT !.scope = scope] \in Article /\ [a EXCEPT !.scope = scope].alone = a.alone
    BY DEF Article
  <2>2. QED
    BY <1>3, <2>1 DEF Like, Refreshed
<1>4. QED
  BY <1>1, <1>2, <1>3, Fixers

LEMMA DecideWorksOff ==
  ASSUME LibraryTypeOK, FilesTypeOK, NEW c \in Checked(Escalated), NEW x, Named(c, x),
         Decide(c, x)
  PROVE  WorkedOff(c, x)
<1>1. Ended(c, x, FALSE) /\ UNCHANGED <<files, rest>>
  BY Zenon DEF Decide
<1>2. UNCHANGED <<source, dirs, design, aindex, signal, graph, setup, tracked>> /\ UNCHANGED rest
  BY <1>1 DEF files
<1>3. FilesTypeOK'
  BY <1>2 DEF FilesTypeOK
<1>4. ASSUME NEW s \in Slot, NEW a, article[s] # None, Like(article[s], a), Save(s, a)
      PROVE  WorkedOff(c, x)
  <2>1. /\ article' \in [Slot -> Article \cup {None}]
        /\ \A t \in Slot : article[t] = None <=> article'[t] = None
    BY <1>4, SaveStays
  <2>2. Kept
    BY <1>2, <2>1, Zenon DEF Kept, DesignsTamed, Tamed, IndexesFollow, SignalsFresh, ArticlesGo
  <2>3. Takes(c, x)
    BY <1>2, <2>1, Zenon DEF Takes
  <2>4. QED
    BY <1>1, <1>2, <1>3, <2>1, <2>2, <2>3, Zenon DEF WorkedOff
<1>5. CASE UNCHANGED article
  BY <1>1, <1>2, <1>5, NothingChanges, Zenon DEF WorkedOff
<1>6. PICK s : s = Meant(c, x)
  OBVIOUS
<1>7. s # 0 /\ Reads(s) => s \in Slot /\ article[s] # None /\ article[s] \in Article
  BY <1>6, MeantIsArticle DEF LibraryTypeOK
<1>8. CASE s # 0 /\ Reads(s) /\ Save(s, Deprecated(article[s]))
  BY <1>4, <1>7, <1>8, ManyFieldsChange
<1>9. CASE s # 0 /\ Reads(s) /\ \E scope \in SUBSET Dir : Save(s, Refreshed(c, article[s], scope))
  BY <1>4, <1>7, <1>9, RefreshedIsLike
<1>10. QED
  BY <1>5, <1>6, <1>8, <1>9, Zenon DEF Decide

-----------------------------------------------------------------------------
(* The invariant.                                                          *)

(* What is left of a report is named; as long as nobody else is at work,   *)
(* what is not looked at again is as reported and what is fixed stays so.  *)
PassHolds ==
  pass # None =>
    /\ \A t \in pass.todo : Named(pass.order[t[1]], t[2])
    /\ pass.alone =>
         /\ \A t \in pass.todo : Still(pass.order[t[1]], t[2])
         /\ \A done \in pass.fixed : Remedied(done[1], done[2])

VInv == ValidatorTypeOK /\ PassHolds

LEMMA WorkKeeps ==
  ASSUME VInv, pass # None, NEW t \in pass.todo, NEW c \in Fixable, NEW x,
         c = pass.order[t[1]], x = t[2], WorkedOff(c, x)
  PROVE  VInv'
<1>1. PICK fixed \in BOOLEAN :
        Ended(c, x, fixed) /\ (fixed /\ Still(c, x) => Remedied(c, x)')
  BY Zenon DEF WorkedOff
<1>2. pass \in Pass /\ LibraryTypeOK /\ FilesTypeOK
  BY DEF VInv, ValidatorTypeOK
<1>3. x \in Thing
  BY <1>2 DEF Pass
<1>4. PICK todo : todo = {u \in pass.todo : pass.order[u[1]] # c \/ u[2] # x}
  OBVIOUS
<1>5. PICK done : done = IF fixed THEN pass.fixed \cup {<<c, x>>} ELSE pass.fixed
  OBVIOUS
<1>6. todo \subseteq pass.todo /\ done \subseteq Fixable \X Thing
      /\ \A e \in done : e \in pass.fixed \/ (fixed /\ e = <<c, x>>)
  <2>1. pass.fixed \subseteq Fixable \X Thing
    BY <1>2 DEF Pass
  <2>2. QED
    BY <1>3, <1>4, <1>5, <2>1
<1>7. pass' = [pass EXCEPT !.todo = todo, !.fixed = done]
  BY <1>1, <1>4, <1>5, Zenon DEF Ended
<1>8. /\ pass' \in Pass
      /\ pass'.order = pass.order /\ pass'.alone = pass.alone
      /\ pass'.todo = todo /\ pass'.fixed = done
  BY <1>2, <1>6, <1>7 DEF Pass
<1>9. ValidatorTypeOK'
  <2>1. UNCHANGED <<index, client, sweep, acts>>
    BY DEF WorkedOff, rest
  <2>2. FilesTypeOK' /\ article' \in [Slot -> Article \cup {None}]
    BY DEF WorkedOff
  <2>3. LibraryTypeOK'
    BY <1>2, <2>1, <2>2 DEF LibraryTypeOK
  <2>4. QED
    BY <1>8, <2>2, <2>3 DEF ValidatorTypeOK
<1>10. \A u \in todo : Named(pass'.order[u[1]], u[2])
  BY <1>6, <1>8, Zenon DEF VInv, PassHolds
<1>11. ASSUME pass.alone
       PROVE  /\ \A u \in todo : \A k : k = pass'.order[u[1]] => Still(k, u[2])'
              /\ \A e \in done : Remedied(e[1], e[2])'
  <2>1. Still(c, x)
    BY <1>11, Zenon DEF VInv, PassHolds
  <2>2. Kept
    BY <2>1, Zenon DEF WorkedOff
  <2>3. ASSUME NEW u \in todo, NEW k, k = pass'.order[u[1]] PROVE Still(k, u[2])'
    <3>1. k = pass.order[u[1]]
      BY <1>8, <2>3
    <3>2. Named(k, u[2]) /\ Still(k, u[2])
      BY <1>6, <1>11, <3>1, Zenon DEF VInv, PassHolds
    <3>3. QED
      BY <2>2, <3>2, StillKept
  <2>4. ASSUME NEW e \in done PROVE Remedied(e[1], e[2])'
    <3>1. CASE e \in pass.fixed
      <4>1. Remedied(e[1], e[2])
        BY <1>11, <3>1, Zenon DEF VInv, PassHolds
      <4>2. QED
        BY <2>2, <4>1, RemediesKept
    <3>2. CASE fixed /\ e = <<c, x>>
      <4>1. Remedied(c, x)'
        BY <1>1, <2>1, <3>2
      <4>2. e[1] = c /\ e[2] = x
        BY <3>2
      <4>3. QED
        BY <4>1, <4>2, Zenon
    <3>3. QED
      BY <1>6, <3>1, <3>2
  <2>5. QED
    BY <2>3, <2>4
<1>12. PassHolds'
  <2>1. SUFFICES ASSUME (pass # None)'
                 PROVE  (/\ \A u \in pass.todo : Named(pass.order[u[1]], u[2])
                         /\ pass.alone =>
                              /\ \A u \in pass.todo : Still(pass.order[u[1]], u[2])
                              /\ \A e \in pass.fixed : Remedied(e[1], e[2]))'
    BY DEF PassHolds
  <2>2. (\A u \in pass.todo : Named(pass.order[u[1]], u[2]))'
    BY <1>8, <1>10, Zenon
  <2>3. ASSUME pass.alone PROVE (\A u \in pass.todo : Still(pass.order[u[1]], u[2]))'
    BY <1>8, <1>11, <2>3, Zenon DEF Still
  <2>4. ASSUME pass.alone PROVE (\A e \in pass.fixed : Remedied(e[1], e[2]))'
    BY <1>8, <1>11, <2>4, Zenon
  <2>5. QED
    BY <1>8, <2>2, <2>3, <2>4
<1>13. QED
  BY <1>9, <1>12 DEF VInv

LEMMA StartKeeps ==
  ASSUME VInv, NEW mode \in {"tty", "pipe", "interactive"}, NEW destroy \in BOOLEAN,
         Start(mode, destroy)
  PROVE  VInv'
<1>1. PICK order : order = Order(mode, destroy)
  OBVIOUS
<1>2. PICK todo : todo = Todo(order)
  OBVIOUS
<1>3. pass' = [order |-> order, todo |-> todo, mode |-> mode, fixed |-> {}, alone |-> TRUE]
      /\ UNCHANGED <<files, article, rest>>
  BY <1>1, <1>2, Zenon DEF Start
<1>4. LibraryTypeOK /\ FilesTypeOK /\ order \in Seq(Fixable)
  BY <1>1, OrderIsTyped DEF VInv, ValidatorTypeOK
<1>5. UNCHANGED <<source, dirs, design, aindex, signal, graph, setup, tracked, article>>
      /\ UNCHANGED <<index, client, sweep, acts>>
  BY <1>3 DEF files, rest
<1>6. ASSUME NEW t \in todo
      PROVE  /\ t \in Nat \X Thing
             /\ Named(order[t[1]], t[2]) /\ Still(order[t[1]], t[2])
  <2>1. PICK i \in DOMAIN order : \E x \in Issues[order[i]] : t = <<i, x>>
    BY <1>2, <1>6, Zenon DEF Todo
  <2>2. PICK x \in Issues[order[i]] : t = <<i, x>>
    BY <2>1
  <2>3. order[i] \in Fixable /\ i \in Nat
    BY <1>4, <2>2
  <2>4. PICK c \in Fixable : c = order[i]
    BY <2>3
  <2>5. x \in Thing /\ Named(c, x) /\ Still(c, x)
    BY <1>4, <2>2, <2>4, ReportNames
  <2>6. t[1] = i /\ t[2] = x
    BY <2>2
  <2>7. QED
    BY <2>2, <2>3, <2>4, <2>5, <2>6, Zenon
<1>7. ValidatorTypeOK'
  <2>1. LibraryTypeOK' /\ FilesTypeOK'
    BY <1>4, <1>5 DEF LibraryTypeOK, FilesTypeOK
  <2>2. pass' \in Pass
    BY <1>3, <1>4, <1>6 DEF Pass
  <2>3. QED
    BY <2>1, <2>2 DEF ValidatorTypeOK
<1>8. PassHolds'
  <2>1. pass'.order = order /\ pass'.todo = todo /\ pass'.fixed = {}
    BY <1>3
  <2>2. \A t \in todo : Named(order[t[1]], t[2]) /\ Still(order[t[1]], t[2])
    BY <1>6
  <2>3. \A t \in todo : \A k : k = order[t[1]] => Still(k, t[2])'
    BY <1>5, <2>2, Zenon DEF Still
  <2>4. (\A t \in pass.todo : Still(pass.order[t[1]], t[2]))'
    BY <2>1, <2>3, Zenon DEF Still
  <2>5. (\A done \in pass.fixed : Remedied(done[1], done[2]))'
    BY <2>1
  <2>6. QED
    BY <2>1, <2>2, <2>4, <2>5, Zenon DEF PassHolds
<1>9. QED
  BY <1>7, <1>8 DEF VInv

(* Other people: what they change has its type, and the fixing is no       *)
(* longer alone.                                                           *)
LEMMA MeanwhileKeeps ==
  ASSUME VInv, Meanwhile, FilesTypeOK', article' \in [Slot -> Article \cup {None}]
  PROVE  VInv'
<1>1. /\ acts < Acts /\ acts' = acts + 1 /\ UNCHANGED <<index, client, sweep>>
      /\ pass' = IF pass = None THEN None ELSE [pass EXCEPT !.alone = FALSE]
  BY DEF Meanwhile
<1>2. LibraryTypeOK /\ pass \in Pass \cup {None}
  BY DEF VInv, ValidatorTypeOK
<1>3. LibraryTypeOK'
  BY <1>1, <1>2, BoundAssumption DEF LibraryTypeOK
<1>4. CASE pass = None
  BY <1>1, <1>3, <1>4 DEF VInv, ValidatorTypeOK, PassHolds
<1>5. CASE pass # None
  <2>1. pass' = [pass EXCEPT !.alone = FALSE] /\ pass \in Pass
    BY <1>1, <1>2, <1>5
  <2>2. pass' \in Pass /\ pass'.order = pass.order /\ pass'.todo = pass.todo /\ pass'.alone = FALSE
    BY <2>1 DEF Pass
  <2>3. PassHolds'
    BY <1>5, <2>2, Zenon DEF VInv, PassHolds
  <2>4. QED
    BY <1>3, <2>2, <2>3 DEF VInv, ValidatorTypeOK
<1>6. QED
  BY <1>4, <1>5

LEMMA PeopleKeep ==
  ASSUME VInv,
         \/ \E s \in Slot : RewriteArticle(s) \/ BringBack(s) \/ DropArticle(s)
         \/ \E f \in File : RewriteDesign(f) \/ \E v \in 0..2 : ChangeSource(f, v)
         \/ \E d \in Dir : RemoveDir(d) \/ Leave(d)
         \/ CommitAll
  PROVE  VInv' /\ Meanwhile
<1>1. LibraryTypeOK /\ FilesTypeOK /\ article \in [Slot -> Article \cup {None}]
  BY DEF VInv, ValidatorTypeOK, LibraryTypeOK
<1>2. ASSUME UNCHANGED files PROVE FilesTypeOK'
  <2>1. UNCHANGED <<source, dirs, design, aindex, signal, graph, setup, tracked>>
    BY <1>2 DEF files
  <2>2. QED
    BY <1>1, <2>1 DEF FilesTypeOK
<1>3. ASSUME NEW s \in Slot, RewriteArticle(s) PROVE VInv' /\ Meanwhile
  <2>1. PICK a \in Rewrites(s) : article' = [article EXCEPT ![s] = a]
    BY <1>3, Zenon DEF RewriteArticle
  <2>2. article[s] \in Article
    BY <1>1, <1>3 DEF RewriteArticle
  <2>3. a \in Article
    BY <2>1, <2>2, RewriteIsLike DEF Like
  <2>4. article' \in [Slot -> Article \cup {None}]
    BY <1>1, <2>1, <2>3
  <2>5. QED
    BY <1>2, <1>3, <2>4, MeanwhileKeeps DEF RewriteArticle
<1>4. ASSUME NEW s \in Slot, BringBack(s) PROVE VInv' /\ Meanwhile
  <2>1. Blank(s, TRUE) \in Article
    BY BlankIsTyped
  <2>2. article' \in [Slot -> Article \cup {None}]
    BY <1>1, <1>4, <2>1 DEF BringBack
  <2>3. QED
    BY <1>2, <1>4, <2>2, MeanwhileKeeps DEF BringBack
<1>5. ASSUME NEW s \in Slot, DropArticle(s) PROVE VInv' /\ Meanwhile
  <2>1. article' \in [Slot -> Article \cup {None}]
    BY <1>1, <1>5 DEF DropArticle
  <2>2. QED
    BY <1>2, <1>5, <2>1, MeanwhileKeeps DEF DropArticle
<1>6. ASSUME NEW f \in File, RewriteDesign(f) PROVE VInv' /\ Meanwhile
  <2>1. PICK l \in {{}} \cup {{n} : n \in Name} :
          design' = [design EXCEPT ![f] = [design[f] EXCEPT !.status = "active", !.links = l]]
    BY <1>6 DEF RewriteDesign
  <2>2. design \in [File -> DesignRecord \cup {None}] /\ design[f] # None
        /\ UNCHANGED <<source, dirs, aindex, signal, graph, setup, tracked, article>> /\ Meanwhile
    BY <1>1, <1>6 DEF FilesTypeOK, RewriteDesign
  <2>3. PICK r \in DesignRecord : r = design[f]
    BY <2>2
  <2>4. l \in SUBSET (Name \cup Code)
    BY <2>1
  <2>5. PICK d : d = [r EXCEPT !.status = "active", !.links = l]
    OBVIOUS
  <2>6. d \in DesignRecord
    BY <2>4, <2>5 DEF DesignRecord
  <2>7. design' = [design EXCEPT ![f] = d]
    BY <2>1, <2>3, <2>5
  <2>8. design' \in [File -> DesignRecord \cup {None}]
    BY <2>2, <2>6, <2>7
  <2>9. FilesTypeOK'
    BY <1>1, <2>2, <2>8 DEF FilesTypeOK
  <2>10. QED
    BY <1>1, <2>2, <2>9, MeanwhileKeeps
<1>7. ASSUME NEW f \in File, NEW v \in 0..2, ChangeSource(f, v) PROVE VInv' /\ Meanwhile
  <2>1. source' \in [File -> Nat] /\ dirs' \subseteq Dir
    <3>1. Above[DirOf[f]] \subseteq Dir
      BY PlaceAssumption
    <3>2. QED
      BY <1>1, <1>7, <3>1 DEF FilesTypeOK, ChangeSource
  <2>2. UNCHANGED <<design, aindex, signal, graph, setup, tracked, article>> /\ Meanwhile
    BY <1>7 DEF ChangeSource
  <2>3. FilesTypeOK'
    BY <1>1, <2>1, <2>2 DEF FilesTypeOK
  <2>4. QED
    BY <1>1, <2>2, <2>3, MeanwhileKeeps
<1>8. ASSUME NEW d \in Dir, RemoveDir(d) PROVE VInv' /\ Meanwhile
  <2>1. source' \in [File -> Nat] /\ dirs' \subseteq Dir
    BY <1>1, <1>8 DEF FilesTypeOK, RemoveDir
  <2>2. UNCHANGED <<design, aindex, signal, graph, setup, tracked, article>> /\ Meanwhile
    BY <1>8 DEF RemoveDir
  <2>3. FilesTypeOK'
    BY <1>1, <2>1, <2>2 DEF FilesTypeOK
  <2>4. QED
    BY <1>1, <2>2, <2>3, MeanwhileKeeps
<1>9. ASSUME NEW d \in Dir, Leave(d) PROVE VInv' /\ Meanwhile
  <2>1. signal' \in [Dir \cup Shelf -> SignalRecord \cup {None}]
    BY <1>1, <1>9, FreshIsTyped DEF FilesTypeOK, Leave
  <2>2. UNCHANGED <<source, dirs, design, aindex, graph, setup, tracked, article>> /\ Meanwhile
    BY <1>9 DEF Leave
  <2>3. FilesTypeOK'
    BY <1>1, <2>1, <2>2 DEF FilesTypeOK
  <2>4. QED
    BY <1>1, <2>2, <2>3, MeanwhileKeeps
<1>10. CASE CommitAll
  <2>1. article' \in [Slot -> Article \cup {None}]
    <3>1. ASSUME NEW s \in Slot PROVE Committed[s] \in Article \cup {None}
      <4>1. CASE article[s] = None
        BY <4>1 DEF Committed
      <4>2. CASE article[s] # None
        <5>1. PICK a \in Article : a = article[s]
          BY <1>1, <4>2
        <5>2. Committed[s] = [a EXCEPT !.age = Older(@), !.dirty = FALSE,
                               !.past = IF a.dirty /\ @ < Commits THEN @ + 1 ELSE @]
          BY <4>2, <5>1, Zenon DEF Committed
        <5>3. QED
          BY <5>2, CommitIsTyped DEF Like
      <4>3. QED
        BY <4>1, <4>2
    <3>2. article' = Committed
      BY <1>10 DEF CommitAll
    <3>3. QED
      BY <3>1, <3>2 DEF Committed
  <2>2. design' \in [File -> DesignRecord \cup {None}]
    <3>1. ASSUME NEW f \in File, design[f] # None
          PROVE  [design[f] EXCEPT !.age = Older(@)] \in DesignRecord
      <4>1. PICK r \in DesignRecord : r = design[f]
        BY <1>1, <3>1 DEF FilesTypeOK
      <4>2. r.age \in (0..(Ttl + 1)) \cup {None}
        BY DEF DesignRecord
      <4>3. PICK age \in (0..(Ttl + 1)) \cup {None} : age = Older(r.age)
        BY <4>2, OlderIsTyped
      <4>4. [r EXCEPT !.age = age] \in DesignRecord
        BY DEF DesignRecord
      <4>5. QED
        BY <4>1, <4>3, <4>4
    <3>2. design' = [f \in File |-> IF design[f] = None THEN None
                                    ELSE [design[f] EXCEPT !.age = Older(@)]]
      BY <1>10, Zenon DEF CommitAll
    <3>3. ASSUME NEW f \in File PROVE design'[f] \in DesignRecord \cup {None}
      <4>1. CASE design[f] = None
        BY <3>2, <4>1
      <4>2. CASE design[f] # None
        <5>1. design'[f] = [design[f] EXCEPT !.age = Older(@)]
          BY <3>2, <4>2, Zenon
        <5>2. QED
          BY <3>1, <4>2, <5>1, Zenon
      <4>3. QED
        BY <4>1, <4>2
    <3>4. QED
      BY <3>2, <3>3, Zenon
  <2>3. UNCHANGED <<source, dirs, aindex, signal, graph, setup>> /\ tracked' \subseteq File /\ Meanwhile
    BY <1>10 DEF CommitAll
  <2>4. FilesTypeOK'
    BY <1>1, <2>2, <2>3 DEF FilesTypeOK
  <2>5. QED
    BY <2>1, <2>3, <2>4, MeanwhileKeeps
<1>11. QED
  BY <1>3, <1>4, <1>5, <1>6, <1>7, <1>8, <1>9, <1>10

LEMMA ValidatorInitHolds == ValidatorInit => VInv
BY DEF ValidatorInit, VInv, ValidatorTypeOK, PassHolds

(* A finding whose turn it is.                                             *)
LEMMA DueIsFindings ==
  ASSUME VInv, NEW checks, NEW t \in Due(checks)
  PROVE  /\ pass # None /\ t \in pass.todo /\ pass.order[t[1]] \in checks
         /\ Named(pass.order[t[1]], t[2])
BY Zenon DEF Due, VInv, PassHolds

(* Every step keeps the invariant, and works off a finding, or deletes     *)
(* nothing, or is somebody else's.                                         *)
LEMMA ValidatorStep ==
  ASSUME VInv, [ValidatorNext]_vars
  PROVE  /\ VInv'
         /\ \/ UNCHANGED <<files, article>>
            \/ Meanwhile
            \/ pass # None /\ \E t \in pass.todo : \E c, x :
                 c = pass.order[t[1]] /\ x = t[2] /\ WorkedOff(c, x)
<1>1. LibraryTypeOK /\ FilesTypeOK
  BY DEF VInv, ValidatorTypeOK
<1>2. CASE UNCHANGED vars
  <2>1. UNCHANGED <<source, dirs, design, aindex, signal, graph, setup, tracked, article, pass>>
        /\ UNCHANGED <<index, client, sweep, acts>> /\ UNCHANGED <<files, article>>
    BY <1>2 DEF vars, files, rest
  <2>2. ValidatorTypeOK'
    BY <2>1 DEF VInv, ValidatorTypeOK, LibraryTypeOK, FilesTypeOK
  <2>3. PassHolds'
    BY <2>1 DEF VInv, PassHolds, Named, Still, Remedied, Importers
  <2>4. QED
    BY <2>1, <2>2, <2>3 DEF VInv
<1>3. ASSUME NEW mode \in {"tty", "pipe", "interactive"}, NEW destroy \in BOOLEAN, Start(mode, destroy)
      PROVE  VInv' /\ UNCHANGED <<files, article>>
  BY <1>3, StartKeeps DEF Start
<1>4. ASSUME NEW t, NEW c \in Fixable, NEW x, pass # None, t \in pass.todo,
             c = pass.order[t[1]], x = t[2], WorkedOff(c, x)
      PROVE  /\ VInv'
             /\ pass # None /\ \E u \in pass.todo : \E k, y :
                  k = pass.order[u[1]] /\ y = u[2] /\ WorkedOff(k, y)
  <2>1. VInv'
    BY <1>4, WorkKeeps
  <2>2. QED
    BY <1>4, <2>1, Zenon
<1>5. ASSUME NEW t \in Due(Checked(Safe) \cup Checked(Destructive)), Fix(pass.order[t[1]], t[2])
      PROVE  /\ VInv'
             /\ pass # None /\ \E u \in pass.todo : \E k, y :
                  k = pass.order[u[1]] /\ y = u[2] /\ WorkedOff(k, y)
  <2>1. pass # None /\ t \in pass.todo /\ Named(pass.order[t[1]], t[2])
        /\ pass.order[t[1]] \in Checked(Safe) \cup Checked(Destructive)
    BY <1>5, DueIsFindings
  <2>2. PICK c, x : c = pass.order[t[1]] /\ x = t[2]
    OBVIOUS
  <2>3. Fix(c, x) /\ Named(c, x) /\ c \in Checked(Safe) \cup Checked(Destructive)
    BY <1>5, <2>1, <2>2, Zenon
  <2>4. WorkedOff(c, x)
    BY <1>1, <2>3, FixWorksOff
  <2>5. c \in Fixable
    BY <2>3 DEF Fixable
  <2>6. QED
    BY <1>4, <2>1, <2>2, <2>4, <2>5, Zenon
<1>6. ASSUME NEW t \in Due(Checked(Escalated)),
             Escalate(pass.order[t[1]], t[2]) \/ Decide(pass.order[t[1]], t[2])
      PROVE  /\ VInv'
             /\ pass # None /\ \E u \in pass.todo : \E k, y :
                  k = pass.order[u[1]] /\ y = u[2] /\ WorkedOff(k, y)
  <2>1. pass # None /\ t \in pass.todo /\ Named(pass.order[t[1]], t[2])
        /\ pass.order[t[1]] \in Checked(Escalated)
    BY <1>6, DueIsFindings
  <2>2. PICK c, x : c = pass.order[t[1]] /\ x = t[2]
    OBVIOUS
  <2>3. (Escalate(c, x) \/ Decide(c, x)) /\ Named(c, x) /\ c \in Checked(Escalated)
    BY <1>6, <2>1, <2>2, Zenon
  <2>4. WorkedOff(c, x)
    BY <1>1, <2>3, EscalateWorksOff, DecideWorksOff
  <2>5. c \in Fixable
    BY <2>3 DEF Fixable
  <2>6. QED
    BY <1>4, <2>1, <2>2, <2>4, <2>5, Zenon
<1>7. CASE Finish \/ Quit
  <2>1. pass' = None /\ UNCHANGED <<files, article, rest>>
    BY <1>7 DEF Finish, Quit
  <2>2. UNCHANGED <<source, dirs, design, aindex, signal, graph, setup, tracked, article>>
        /\ UNCHANGED <<index, client, sweep, acts>> /\ UNCHANGED <<files, article>>
    BY <2>1 DEF files, rest
  <2>3. ValidatorTypeOK'
    BY <1>1, <2>1, <2>2 DEF ValidatorTypeOK, LibraryTypeOK, FilesTypeOK
  <2>4. QED
    BY <2>1, <2>2, <2>3 DEF VInv, PassHolds
<1>8. CASE \/ \E s \in Slot : RewriteArticle(s) \/ BringBack(s) \/ DropArticle(s)
           \/ \E f \in File : RewriteDesign(f) \/ \E v \in 0..2 : ChangeSource(f, v)
           \/ \E d \in Dir : RemoveDir(d) \/ Leave(d)
           \/ CommitAll
  BY <1>8, PeopleKeep
<1>9. QED
  BY <1>2, <1>3, <1>5, <1>6, <1>7, <1>8, Zenon DEF ValidatorNext

-----------------------------------------------------------------------------
(* What the fixing promises, for any library and any number of people.     *)

(* The files, the articles and the pass under way have their types.        *)
THEOREM ValidatorTypeCorrect == ValidatorSpec => []ValidatorTypeOK
<1>1. VInv /\ [ValidatorNext]_vars => VInv'
  BY ValidatorStep
<1>2. VInv => ValidatorTypeOK
  BY DEF VInv
<1>3. QED
  BY <1>1, <1>2, ValidatorInitHolds, PTL DEF ValidatorSpec

(* Whatever a reader drops silently is reported by a check, but for what   *)
(* Unseen lists, whatever the fixing and people do in any order.           *)
THEOREM DroppedAreReported == ValidatorSpec => []DroppedIsReported
<1>1. VInv /\ [ValidatorNext]_vars => VInv'
  BY ValidatorStep
<1>2. VInv => DroppedIsReported
  BY DroppedByTable DEF VInv, ValidatorTypeOK
<1>3. QED
  BY <1>1, <1>2, ValidatorInitHolds, PTL DEF ValidatorSpec

(* What remedies a finding keeps it out of the next report.                *)
LEMMA RemediedIsGone ==
  ASSUME FilesTypeOK, NEW c, NEW x, Remedied(c, x)
  PROVE  \/ x \notin Issues[c]
         \/ c = "wikilink_resolution"
         \/ c = "orphaned_designs" /\ x \in tracked
         \/ c = "bidirectional_deps"
              /\ {<<x, g>> : g \in design[x].deps} # {e \in graph.edges : e[1] = x}
<1>1. CASE c = "orphaned_designs"
  BY <1>1, ReportOf DEF Remedied, OrphanedDesigns, Read, ReadsDesign
<1>2. CASE c = "aindex_coverage"
  BY <1>2, ReportOf DEF Remedied, AindexCoverage
<1>3. CASE c = "bidirectional_deps"
  <2>1. SUFFICES ASSUME x \in Issues[c],
                        {<<x, g>> : g \in design[x].deps} = {e \in graph.edges : e[1] = x}
                 PROVE  FALSE
    BY <1>3
  <2>2. x \in BidirectionalDeps /\ Usable
    BY <1>3, <2>1, ReportOf DEF BidirectionalDeps
  <2>3. x \in File /\ design[x] # None /\ design[x] \in DesignRecord /\ graph \in GraphRecord
    BY <2>2 DEF BidirectionalDeps, Read, ReadsDesign, FilesTypeOK, Usable
  <2>4. design[x].dependents = Importers(x)
    BY <1>3, <2>3 DEF Remedied
  <2>5. design[x].deps # {g \in File : <<x, g>> \in graph.edges}
    BY <2>2, <2>4 DEF BidirectionalDeps, Importers
  <2>6. design[x].deps \subseteq File /\ graph.edges \subseteq File \X File
    BY <2>3 DEF DesignRecord, GraphRecord
  <2>7. \A g \in File : g \in design[x].deps <=> <<x, g>> \in graph.edges
    <3>1. ASSUME NEW g \in design[x].deps PROVE <<x, g>> \in graph.edges
      BY <2>1
    <3>2. ASSUME NEW g \in File, <<x, g>> \in graph.edges PROVE g \in design[x].deps
      <4>1. <<x, g>> \in {<<x, h>> : h \in design[x].deps}
        BY <2>1, <3>2
      <4>2. QED
        BY <4>1
    <3>3. QED
      BY <3>1, <3>2
  <2>8. QED
    BY <2>5, <2>6, <2>7
<1>4. CASE c = "lookup_token_budget_exceeded"
  BY <1>4, ReportOf DEF Remedied, LookupBudget, TokenBudgets
<1>5. CASE c = "orphaned_iwh_signals"
  BY <1>5, ReportOf DEF Remedied, OrphanedSignals, ReadsSignal
<1>6. CASE c = "orphaned_aindex"
  BY <1>6, ReportOf DEF Remedied, OrphanedAindex
<1>7. CASE c = "orphaned_iwh"
  BY <1>7, ReportOf DEF Remedied, OrphanedIwh
<1>8. CASE c = "deprecated_ttl"
  BY <1>8, ReportOf DEF Remedied, DeprecatedTtl, Frontmatter
<1>9. QED
  BY <1>1, <1>2, <1>3, <1>4, <1>5, <1>6, <1>7, <1>8, Zenon DEF Remedied

(* What a fixing reports as fixed, with nobody else at work, the next      *)
(* report does not name, but for the three cases of FixedIsGone.           *)
THEOREM FixedAreGone == ValidatorSpec => []FixedIsGone
<1>1. VInv /\ [ValidatorNext]_vars => VInv'
  BY ValidatorStep
<1>2. VInv => FixedIsGone
  <2>1. SUFFICES ASSUME VInv, pass # None, pass.alone, NEW done \in pass.fixed
                 PROVE  \/ done[2] \notin Issues[done[1]]
                        \/ done[1] = "wikilink_resolution"
                        \/ done[1] = "orphaned_designs" /\ done[2] \in tracked
                        \/ done[1] = "bidirectional_deps"
                             /\ {<<done[2], g>> : g \in design[done[2]].deps}
                                  # {e \in graph.edges : e[1] = done[2]}
    BY Zenon DEF FixedIsGone
  <2>2. FilesTypeOK /\ Remedied(done[1], done[2])
    BY <2>1, Zenon DEF VInv, ValidatorTypeOK, PassHolds
  <2>3. QED
    BY <2>2, RemediedIsGone
<1>3. QED
  BY <1>1, <1>2, ValidatorInitHolds, PTL DEF ValidatorSpec

(* A fixing deletes nothing that lives, but for what somebody brought back *)
(* after the report and three fixers do not look for again.                *)
THEOREM OnlyDeadGo == ValidatorSpec => DeadOnly
<1> DEFINE DeadStep ==
      pass # None /\ acts' = acts =>
       /\ \A s \in Slot : article[s] # None /\ article'[s] = None =>
            Outrun("orphan_artifacts", <<"article", s>>)
       /\ \A f \in File : design[f] # None /\ design'[f] = None =>
            \/ design[f].status = "deprecated" /\ design[f].age > Ttl
            \/ source[f] = 0 /\ Outrun("orphan_artifacts", <<"design", f>>)
       /\ \A d \in Dir : aindex[d] # None /\ aindex'[d] = None =>
            d \notin dirs \/ Outrun("orphaned_aindex", d)
       /\ \A p \in DOMAIN signal : signal[p] # None /\ signal'[p] = None =>
            p \in Dir \ dirs \/ signal[p].old \/ Outrun("orphaned_iwh", p)
<1>1. VInv /\ [ValidatorNext]_vars => VInv'
  BY ValidatorStep
<1>2. ASSUME VInv, [ValidatorNext]_vars PROVE DeadStep
  <2>1. DOMAIN signal = Dir \cup Shelf
    BY <1>2 DEF VInv, ValidatorTypeOK, FilesTypeOK
  <2>2. CASE UNCHANGED <<files, article>>
    BY <2>2, Zenon DEF files
  <2>3. CASE Meanwhile
    BY <1>2, <2>3 DEF Meanwhile, VInv, ValidatorTypeOK, LibraryTypeOK
  <2>4. CASE pass # None /\ \E t \in pass.todo : \E c, x :
               c = pass.order[t[1]] /\ x = t[2] /\ WorkedOff(c, x)
    <3>1. PICK t \in pass.todo :
            \E c, x : c = pass.order[t[1]] /\ x = t[2] /\ WorkedOff(c, x)
      BY <2>4
    <3>2. PICK c, x : c = pass.order[t[1]] /\ x = t[2] /\ WorkedOff(c, x)
      BY <3>1
    <3>3. Takes(c, x) /\ (Still(c, x) => Kept)
      BY <3>2, Zenon DEF WorkedOff
    <3>4. pass.alone => Still(c, x)
      BY <1>2, <2>4, <3>2, Zenon DEF VInv, PassHolds
    <3>5. ~pass.alone => Outrun(c, x)
      BY <3>2, Zenon DEF Outrun
    <3>6. ASSUME NEW s \in Slot, article[s] # None, article'[s] = None
          PROVE  Outrun("orphan_artifacts", <<"article", s>>)
      <4>1. c = "orphan_artifacts" /\ x = <<"article", s>>
        BY <3>3, <3>6, Zenon DEF Takes
      <4>2. ~Still(c, x)
        BY <3>6, <4>1 DEF Still
      <4>3. QED
        BY <3>4, <3>5, <4>1, <4>2, Zenon
    <3>7. ASSUME NEW f \in File, design[f] # None, design'[f] = None
          PROVE  \/ design[f].status = "deprecated" /\ design[f].age > Ttl
                 \/ source[f] = 0 /\ Outrun("orphan_artifacts", <<"design", f>>)
      <4>1. CASE source[f] = 0 /\ c = "orphan_artifacts" /\ x = <<"design", f>>
        <5>1. ~Still(c, x)
          BY <3>7, <4>1 DEF Still
        <5>2. QED
          BY <3>4, <3>5, <4>1, <5>1, Zenon
      <4>2. QED
        BY <3>3, <3>7, <4>1, Zenon DEF Takes
    <3>8. ASSUME NEW d \in Dir, aindex[d] # None, aindex'[d] = None
          PROVE  d \notin dirs \/ Outrun("orphaned_aindex", d)
      <4>1. c = "orphaned_aindex" /\ x = d
        BY <3>3, <3>8, Zenon DEF Takes
      <4>2. Still(c, x) => d \notin dirs
        BY <4>1 DEF Still
      <4>3. QED
        BY <3>4, <3>5, <4>1, <4>2, Zenon
    <3>9. ASSUME NEW p \in DOMAIN signal, signal[p] # None, signal'[p] = None
          PROVE  p \in Dir \ dirs \/ signal[p].old \/ Outrun("orphaned_iwh", p)
      <4>1. CASE signal[p].old
        BY <4>1
      <4>2. CASE c = "orphaned_iwh" /\ x = p
        <5>1. Still(c, x) => p \notin dirs
          BY <4>2 DEF Still
        <5>2. p \in Dir
          BY <1>2, <2>4, <3>2, <4>2, Zenon DEF VInv, PassHolds, Named
        <5>3. QED
          BY <3>4, <3>5, <4>2, <5>1, <5>2
      <4>3. QED
        BY <2>1, <3>3, <3>9, <4>1, <4>2, Zenon DEF Takes
    <3>10. QED
      BY <3>6, <3>7, <3>8, <3>9, Zenon
  <2>5. QED
    BY <1>2, <2>2, <2>3, <2>4, ValidatorStep
<1>3. VInv /\ [ValidatorNext]_vars => [DeadStep]_vars
  BY <1>2, Zenon
<1>4. QED
  BY <1>1, <1>3, ValidatorInitHolds, PTL DEF ValidatorSpec, DeadOnly
=============================================================================
