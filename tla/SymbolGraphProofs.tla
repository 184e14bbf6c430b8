-------------------------- MODULE SymbolGraphProofs --------------------------
(***************************************************************************)
(* Theorems about SymbolGraph, for every set of files and texts, any       *)
(* number of runs, edits and kills.                                        *)
(*                                                                         *)
(* What a query shows was written, and what is shown without a warning is  *)
(* in the file: neither is inductive, because a call may be promoted long  *)
(* after its file was read.  GraphInv adds that there is one text of each  *)
(* stored file which its symbols, its calls and those not yet resolved are *)
(* from, and its hash unless it was edited in between; and that rows refer *)
(* to rows that are there.  One lemma says so of each operation on the     *)
(* database: Insert, Calls, Edges, PropagateEnums, Forget, Promote.        *)
(***************************************************************************)
EXTENDS SymbolGraph, FiniteSetTheorems, WellFoundedInduction, TLAPS

-----------------------------------------------------------------------------
(* Least numbers.                                                          *)

LEMMA LeastExists ==
  ASSUME NEW S, S \subseteq Nat, S # {}
  PROVE  \E x \in S : \A y \in S : x <= y
<1>1. IsWellFoundedOn(OpToRel(<, Nat), Nat)
  BY NatLessThanWellFounded, Zenon
<1>2. PICK x \in S : \A y \in S : ~(<<y, x>> \in OpToRel(<, Nat))
  BY <1>1, WFMin, Zenon
<1>3. \A y \in S : x <= y
  <2>1. SUFFICES ASSUME NEW y \in S PROVE ~(y < x)
    BY <2>1
  <2>2. ~(<<y, x>> \in {ss \in Nat \X Nat : ss[1] < ss[2]})
    BY <1>2, Zenon DEF OpToRel
  <2>3. QED
    BY <2>2
<1>4. QED
  BY <1>3

(* The row a query finds is one of those it asks for; 0 is none.           *)
LEMMA FirstIsLeast ==
  ASSUME NEW S, S \subseteq Nat
  PROVE  /\ S # {} => First(S) \in S /\ \A y \in S : First(S) <= y
         /\ First(S) # 0 => First(S) \in S
<1>1. S # {} => \E x \in S : \A y \in S : x <= y
  BY LeastExists
<1>2. QED
  BY <1>1 DEF First

(* A part of a finite set that lacks one of its elements is smaller.       *)
LEMMA PartIsSmaller ==
  ASSUME NEW B, IsFiniteSet(B), NEW A \in SUBSET B, NEW x \in B, x \notin A
  PROVE  Cardinality(A) \in Nat /\ Cardinality(B) \in Nat /\ Cardinality(A) < Cardinality(B)
<1>1. /\ IsFiniteSet(A) /\ Cardinality(A) <= Cardinality(B)
      /\ Cardinality(A) # Cardinality(B)
  BY FS_Subset
<1>2. Cardinality(A) \in Nat /\ Cardinality(B) \in Nat
  BY <1>1, FS_CardinalityType
<1>3. QED
  BY <1>1, <1>2

LEMMA GreatestExists ==
  ASSUME NEW S, S \subseteq Nat, IsFiniteSet(S), S # {}
  PROVE  \E x \in S : \A y \in S : y <= x
<1> DEFINE upTo(x) == {y \in S : y <= x}
           left == {Cardinality(S) - Cardinality(upTo(x)) : x \in S}
<1>1. \A x \in S : /\ IsFiniteSet(upTo(x)) /\ Cardinality(upTo(x)) \in Nat
                   /\ Cardinality(S) \in Nat /\ Cardinality(upTo(x)) <= Cardinality(S)
  <2>1. TAKE x \in S
  <2>2. upTo(x) \in SUBSET S
    OBVIOUS
  <2>3. IsFiniteSet(upTo(x)) /\ Cardinality(upTo(x)) <= Cardinality(S)
    BY <2>2, FS_Subset
  <2>4. QED
    BY <2>3, FS_CardinalityType
<1>2. left \subseteq Nat /\ left # {}
  <2> HIDE DEF upTo
  <2>1. \A x \in S : Cardinality(S) - Cardinality(upTo(x)) \in Nat
    BY <1>1
  <2>2. QED
    BY <2>1
<1>3. PICK low \in left : \A m \in left : low <= m
  BY <1>2, LeastExists
<1>4. PICK x \in S : low = Cardinality(S) - Cardinality(upTo(x))
  BY <1>3
<1>5. ASSUME NEW y \in S, ~(y <= x) PROVE FALSE
  <2>1. upTo(x) \in SUBSET upTo(y) /\ y \in upTo(y) /\ y \notin upTo(x)
    <3>1. x \in Nat /\ y \in Nat /\ x <= y
      BY <1>5
    <3>2. \A z \in upTo(x) : z \in S /\ z \in Nat /\ z <= y
      BY <3>1
    <3>3. \A z \in upTo(x) : z \in upTo(y)
      BY <3>2
    <3>4. y \in upTo(y)
      BY <3>1
    <3>5. y \notin upTo(x)
      BY <1>5
    <3>6. QED
      BY <3>3, <3>4, <3>5, Zenon
  <2>2. Cardinality(upTo(x)) < Cardinality(upTo(y))
    BY <1>1, <1>5, <2>1, PartIsSmaller
  <2>3. low <= Cardinality(S) - Cardinality(upTo(y))
    BY <1>3, <1>5
  <2>4. QED
    BY <1>1, <1>4, <1>5, <2>2, <2>3
<1>6. QED
  BY <1>5

-----------------------------------------------------------------------------
(* What the parsers make of a text.                                        *)

IsRow(r) ==
  r = [name |-> r.name, qual |-> r.qual, type |-> r.type, from |-> r.from, to |-> r.to,
       parent |-> r.parent, branches |-> r.branches, members |-> r.members]

LEMMA RowIsRow ==
  ASSUME NEW t, NEW m, NEW n, NEW type, NEW parent, NEW branches, NEW members
  PROVE  IsRow(Row(t, m, n, type, parent, branches, members))
BY DEF Row, IsRow

(* Definitions are rows, by node; calls are by the names of call nodes.    *)
LEMMA Extracted ==
  ASSUME NEW f \in File, NEW t \in Texts[f], Lang[f] \in Languages
  PROVE  LET x == Extracts[f][t] IN
         /\ DOMAIN x.definitions \subseteq DOMAIN t
         /\ \A n \in DOMAIN x.definitions : IsRow(x.definitions[n])
         /\ \A c \in x.calls :
              /\ c = [caller |-> c.caller, name |-> c.name, line |-> c.line]
              /\ \E m \in DOMAIN t : t[m].type = "call" /\ c.name = t[m].name
<1> DEFINE Right(x) ==
         /\ DOMAIN x.definitions \subseteq DOMAIN t
         /\ \A n \in DOMAIN x.definitions : IsRow(x.definitions[n])
         /\ \A c \in x.calls :
              /\ c = [caller |-> c.caller, name |-> c.name, line |-> c.line]
              /\ \E m \in DOMAIN t : t[m].type = "call" /\ c.name = t[m].name
<1>1. \A D : \A c \in CallSites(t, f, D) :
              /\ c = [caller |-> c.caller, name |-> c.name, line |-> c.line]
              /\ \E m \in DOMAIN t : t[m].type = "call" /\ c.name = t[m].name
  BY DEF CallSites, Sites
<1>2. Right(PyExtract(t, f))
  <2>1. DOMAIN PyDefinitions(t, f) \subseteq DOMAIN t
    BY DEF PyDefinitions, PyDefNodes, PyConstants
  <2>2. \A n \in DOMAIN PyDefinitions(t, f) : IsRow(PyDefinitions(t, f)[n])
    BY RowIsRow DEF PyDefinitions, PyFunction, PyClass
  <2>3. QED
    BY <1>1, <2>1, <2>2 DEF PyExtract, PyCalls
<1>3. Right(TsExtract(t, f))
  <2>1. DOMAIN TsDefinitions(t, f) \subseteq DOMAIN t
    BY DEF TsDefinitions, TsDefNodes
  <2>2. \A n \in DOMAIN TsDefinitions(t, f) : IsRow(TsDefinitions(t, f)[n])
    BY RowIsRow DEF TsDefinitions, Method, Declared
  <2>3. QED
    BY <1>1, <2>1, <2>2 DEF TsExtract, TsCalls
<1>4. Right(JsExtract(t, f))
  <2>1. DOMAIN JsDefinitions(t, f) \subseteq DOMAIN t
    BY DEF JsDefinitions, JsDefNodes
  <2>2. \A n \in DOMAIN JsDefinitions(t, f) : IsRow(JsDefinitions(t, f)[n])
    BY RowIsRow DEF JsDefinitions, Method, Declared
  <2>3. QED
    BY <1>1, <2>1, <2>2 DEF JsExtract, JsCalls
<1>5. Extracts[f][t] \in {PyExtract(t, f), TsExtract(t, f), JsExtract(t, f)}
  BY DEF Extracts, Languages
<1>6. Right(Extracts[f][t])
  <2> HIDE DEF Right
  <2>1. QED
    BY <1>2, <1>3, <1>4, <1>5
<1>7. QED
  BY <1>6

-----------------------------------------------------------------------------
(* What a lookup finds.                                                    *)

Numbers(d) == DOMAIN d.symbols \subseteq Nat \ {0}

LEMMA LookupFinds ==
  ASSUME NEW d, Numbers(d), NEW file, NEW name, NEW types
  PROVE  LET s == Lookup(d, file, name, types) IN
         s # 0 => s \in DOMAIN d.symbols /\ d.symbols[s].name = name
<1> DEFINE S == {s \in InFile(d, file) : d.symbols[s].name = name /\ d.symbols[s].type \in types}
<1>1. S \subseteq Nat /\ \A s \in S : s \in DOMAIN d.symbols /\ d.symbols[s].name = name
  BY DEF Numbers, InFile
<1>2. Lookup(d, file, name, types) = First(S)
  BY DEF Lookup
<1> HIDE DEF S
<1>3. QED
  BY <1>1, <1>2, FirstIsLeast

LEMMA MethodFinds ==
  ASSUME NEW d, Numbers(d), NEW c, NEW name
  PROVE  LET s == MethodOf(d, c, name) IN
         /\ s \in Nat
         /\ s # 0 => s \in DOMAIN d.symbols /\ d.symbols[s].name = name
<1> DEFINE S == {s \in InFile(d, d.symbols[c].file) :
                   /\ d.symbols[s].name = name
                   /\ d.symbols[s].type = "method"
                   /\ d.symbols[s].parent = d.symbols[c].name}
<1>1. S \subseteq Nat /\ \A s \in S : s \in DOMAIN d.symbols /\ d.symbols[s].name = name
  BY DEF Numbers, InFile
<1>2. MethodOf(d, c, name) = First(S)
  BY DEF MethodOf
<1> HIDE DEF S
<1>3. First(S) # 0 => First(S) \in S
  BY <1>1, FirstIsLeast
<1>4. First(S) \in Nat
  <2>1. CASE First(S) # 0
    BY <1>1, <1>3, <2>1, Zenon
  <2>2. CASE First(S) = 0
    BY <2>2
  <2>3. QED
    BY <2>1, <2>2, Zenon
<1>5. QED
  BY <1>1, <1>2, <1>3, <1>4

LEMMA InheritedFinds ==
  ASSUME NEW d, Numbers(d), NEW c, NEW name
  PROVE  LET s == InheritedMethod(d, c, name) IN
         s # 0 => s \in DOMAIN d.symbols /\ d.symbols[s].name = name
<1>1. ASSUME NEW L, NEW k
      PROVE  LET F == {MethodOf(d, b, name) : b \in L[k] \ {c}} \ {0} IN
             F # {} => First(F) \in DOMAIN d.symbols /\ d.symbols[First(F)].name = name
  <2> DEFINE F == {MethodOf(d, b, name) : b \in L[k] \ {c}} \ {0}
  <2>1. \A s \in F : s \in Nat /\ s \in DOMAIN d.symbols /\ d.symbols[s].name = name
    BY MethodFinds
  <2> HIDE DEF F
  <2>2. F \subseteq Nat
    BY <2>1
  <2>3. F # {} => First(F) \in F
    BY <2>2, FirstIsLeast
  <2>4. F # {} => First(F) \in DOMAIN d.symbols /\ d.symbols[First(F)].name = name
    BY <2>1, <2>3
  <2>5. QED
    BY <2>4 DEF F
<1>2. ASSUME NEW L
      PROVE  LET Found(k) == {MethodOf(d, b, name) : b \in L[k] \ {c}} \ {0}
                 ks == {k \in 0..Cardinality(DOMAIN d.symbols) : Found(k) # {}}
                 s == IF ks = {} THEN 0 ELSE First(Found(First(ks)))
             IN s # 0 => s \in DOMAIN d.symbols /\ d.symbols[s].name = name
  <2> DEFINE Found(k) == {MethodOf(d, b, name) : b \in L[k] \ {c}} \ {0}
             ks == {k \in 0..Cardinality(DOMAIN d.symbols) : Found(k) # {}}
  <2>1. \A k \in ks : Found(k) # {}
    OBVIOUS
  <2>2. ks \subseteq Nat
    OBVIOUS
  <2>3. ASSUME ks # {} PROVE First(ks) \in ks
    <3> HIDE DEF ks
    <3>1. QED
      BY <2>2, <2>3, FirstIsLeast
  <2>4. ASSUME ks # {}
        PROVE  /\ First(Found(First(ks))) \in DOMAIN d.symbols
               /\ d.symbols[First(Found(First(ks)))].name = name
    <3>1. Found(First(ks)) # {}
      BY <2>1, <2>3, <2>4
    <3>2. QED
      BY <1>1, <3>1
  <2>5. QED
    BY <2>4
<1>3. QED
  BY <1>2 DEF InheritedMethod

LEMMA IdFinds ==
  ASSUME NEW d, Numbers(d), NEW file, NEW qual
  PROVE  LET s == LookupSymbolId(d, file, qual) IN
         s # 0 => s \in InFile(d, file) /\ d.symbols[s].qual = qual
<1> DEFINE S == {s \in InFile(d, file) : d.symbols[s].qual = qual}
<1>1. S \subseteq Nat
  BY DEF Numbers, InFile
<1>2. First(S) # 0 => First(S) \in S
  BY <1>1, FirstIsLeast
<1>3. QED
  BY <1>2 DEF LookupSymbolId

-----------------------------------------------------------------------------
(* A name that was imported under another is one that some import binds.   *)

Honest(imports, t) ==
  \A key \in DOMAIN imports :
    \/ imports[key].original = ""
    \/ \E i \in Imports(t) : \E r \in t[i].refs :
         key = <<r[1]>> /\ imports[key].original = r[2]

LEMMA PairOf == \A a, b : <<a, b>>[1] = a /\ <<a, b>>[2] = b
OBVIOUS

Written(b, s) == b[2] = "" \/ \E r \in s.refs : b[1] = <<r[1]>> /\ b[2] = r[2]

LEMMA BindingIsWritten ==
  ASSUME NEW f, NEW s, NEW b \in Bindings(f, s)
  PROVE  Written(b, s)
<1> USE DEF Written
<1>1. CASE b \in JsBindings(s)
  <2>1. PICK r \in s.refs : b = <<<<r[1]>>, "">>
    BY <1>1, Zenon DEF JsBindings
  <2>2. QED
    BY <2>1, PairOf, Zenon
<1>2. CASE b \in NameBindings(s)
  <2>1. PICK r \in s.refs : b = <<<<r[1]>>, r[2]>>
    BY <1>2, Zenon DEF NameBindings
  <2>2. b[1] = <<r[1]>> /\ b[2] = r[2]
    BY <2>1, PairOf, Zenon
  <2>3. QED
    BY <2>2, Zenon
<1>3. CASE b \in ModuleBindings(s)
  <2>1. \E k : b = <<k, "">>
    BY <1>3, Zenon DEF ModuleBindings
  <2>2. QED
    BY <2>1, PairOf, Zenon
<1>4. QED
  BY <1>1, <1>2, <1>3, Zenon DEF Bindings

LEMMA ImportsHonest ==
  ASSUME NEW f \in File, NEW t \in Texts[f]
  PROVE  Honest(ParseImports(f, t), t)
<1> DEFINE known == {n \in Imports(t) : Leads(f, n, t) # None}
           keys == {b[1] : b \in UNION {Bindings(f, t[n]) : n \in known}}
           last(k) == CHOOSE n \in known :
                   /\ \E b \in Bindings(f, t[n]) : b[1] = k
                   /\ \A m \in known : m > n => \A b \in Bindings(f, t[m]) : b[1] # k
           orig(k) == (CHOOSE b \in Bindings(f, t[last(k)]) : b[1] = k)[2]
<1>1. ASSUME NEW k \in keys
      PROVE  orig(k) = "" \/ \E i \in Imports(t) : \E r \in t[i].refs :
                                k = <<r[1]>> /\ orig(k) = r[2]
  <2> DEFINE binds == {n \in known : \E b \in Bindings(f, t[n]) : b[1] = k}
  <2>1. binds \in SUBSET DOMAIN t /\ binds # {}
    BY <1>1 DEF Imports
  <2>2. binds \subseteq Nat /\ IsFiniteSet(binds)
    BY <2>1, TextAssumption, FS_Subset
  <2>3. PICK n \in binds : \A m \in binds : m <= n
    BY <2>1, <2>2, GreatestExists
  <2>4. /\ n \in known /\ \E b \in Bindings(f, t[n]) : b[1] = k
        /\ \A m \in known : m > n => \A b \in Bindings(f, t[m]) : b[1] # k
    <3>1. ASSUME NEW m \in known, m > n PROVE \A b \in Bindings(f, t[m]) : b[1] # k
      <4>1. m \notin binds
        BY <2>2, <2>3, <3>1
      <4>2. QED
        BY <4>1
    <3>2. QED
      BY <3>1
  <2>5. last(k) \in known /\ \E b \in Bindings(f, t[last(k)]) : b[1] = k
    <3> HIDE DEF known, binds
    <3>1. QED
      BY <2>4
  <2>6. PICK i \in Imports(t) : i = last(k)
    BY <2>5
  <2> HIDE DEF last, known
  <2>7. PICK b \in Bindings(f, t[i]) : b = CHOOSE x \in Bindings(f, t[i]) : x[1] = k
    BY <2>5, <2>6
  <2>8. b[1] = k
    BY <2>5, <2>6, <2>7
  <2>9. orig(k) = b[2]
    BY <2>6, <2>7
  <2>10. QED
    <3> HIDE DEF orig, keys, binds
    <3>0. i \in Imports(t) /\ b \in Bindings(f, t[i])
      OBVIOUS
    <3>1. b[2] = "" \/ \E r \in t[i].refs : b[1] = <<r[1]>> /\ b[2] = r[2]
      <4>1. Written(b, t[i])
        BY <3>0, BindingIsWritten
      <4>2. QED
        BY <4>1, Zenon DEF Written
    <3>2. QED
      BY <2>8, <2>9, <3>1
<1>2. DOMAIN ParseImports(f, t) = keys /\ \A k \in keys : ParseImports(f, t)[k].original = orig(k)
  BY DEF ParseImports
<1>3. QED
  <2> HIDE DEF keys, orig
  <2>1. QED
    BY <1>1, <1>2 DEF Honest

LEMMA NoImportsHonest == \A t : Honest(<<>>, t)
<1>1. DOMAIN <<>> = {}
  BY SMT
<1>2. QED
  BY <1>1, Zenon DEF Honest

-----------------------------------------------------------------------------
(* A call resolves to a definition of a name it may mean.                  *)

LEMMA MeansLast == \A t, n : Last(n) \in Meanings(t, n)
BY DEF Meanings

(* A name of one part that is the front or the last part of a name.        *)
LEMMA OnePart ==
  ASSUME NEW W, NEW n \in Seq(W), n # <<>>, NEW a, <<a>> = Front(n) \/ <<a>> = <<Last(n)>>
  PROVE  a \in ToSet(n)
<1>1. Len(n) \in Nat /\ Len(n) >= 1 /\ DOMAIN n = 1..Len(n)
  OBVIOUS
<1>2. CASE <<a>> = <<Last(n)>>
  <2>1. a = n[Len(n)]
    BY <1>2 DEF Last
  <2>2. QED
    BY <1>1, <2>1 DEF ToSet
<1>3. CASE <<a>> = SubSeq(n, 1, Len(n) - 1)
  <2>1. Len(<<a>>) = 1 /\ <<a>>[1] = a
    OBVIOUS
  <2>2. CASE Len(n) = 1
    <3>1. SubSeq(n, 1, 0) = <<>>
      OBVIOUS
    <3>2. Len(<<>>) = 0
      OBVIOUS
    <3>3. <<a>> = <<>>
      BY <1>3, <2>2, <3>1
    <3>4. QED
      BY <2>1, <3>2, <3>3
  <2>3. CASE Len(n) > 1
    <3>1. SubSeq(n, 1, Len(n) - 1)[1] = n[1]
      BY <1>1, <2>3
    <3>2. a = n[1]
      BY <1>3, <2>1, <3>1
    <3>3. QED
      BY <1>1, <3>2 DEF ToSet
  <2>4. QED
    BY <1>1, <2>2, <2>3
<1>4. QED
  BY <1>2, <1>3 DEF Front

LEMMA MeansOriginal ==
  ASSUME NEW t, NEW n, NEW W, n \in Seq(W), n # <<>>, NEW imports, Honest(imports, t),
         NEW key \in DOMAIN imports, key \in {Front(n), <<Last(n)>>},
         imports[key].original # ""
  PROVE  imports[key].original \in Meanings(t, n)
<1>1. PICK i \in Imports(t) : \E r \in t[i].refs : key = <<r[1]>> /\ imports[key].original = r[2]
  BY Zenon DEF Honest
<1>2. PICK r \in t[i].refs : key = <<r[1]>> /\ imports[key].original = r[2]
  BY <1>1, Zenon
<1>3. r[1] \in ToSet(n)
  <2>1. PICK a : a = r[1]
    OBVIOUS
  <2>2. <<a>> = Front(n) \/ <<a>> = <<Last(n)>>
    BY <1>2, <2>1, Zenon
  <2>3. a \in ToSet(n)
    BY <2>2, OnePart, Zenon
  <2>4. QED
    BY <2>1, <2>3, Zenon
<1>4. r \in {q \in t[i].refs : q[1] \in ToSet(n)}
  BY <1>3, Zenon
<1>5. QED
  BY <1>2, <1>4, Zenon DEF Meanings

(* What a resolver's answer has to be.                                     *)
Meant(d, t, n, s) == s # 0 => s \in DOMAIN d.symbols /\ d.symbols[s].name \in Meanings(t, n)

LEMMA BareIsMeant ==
  ASSUME NEW d, Numbers(d), NEW t, NEW n, NEW file, NEW types
  PROVE  Meant(d, t, n, Lookup(d, file, Last(n), types))
BY LookupFinds, MeansLast DEF Meant

LEMMA PythonMeant ==
  ASSUME NEW d, Numbers(d), NEW t, NEW n, NEW W, n \in Seq(W), n # <<>>, NEW imports, Honest(imports, t),
         NEW caller, NEW file
  PROVE  Meant(d, t, n, ResolvePython(d, imports, caller, n, file))
<1> DEFINE bare == Last(n)
           own == EnclosingClass(d, file, caller)
           local == Lookup(d, file, bare, {"function", "class"})
           imported(key) == LookupInFile(d, imports[key].file,
                         IF imports[key].original # "" THEN imports[key].original ELSE bare)
           known == Prefixes(Front(n)) \cap DOMAIN imports
<1>1. ASSUME NEW key \in DOMAIN imports, key \in {Front(n), <<bare>>}
      PROVE  Meant(d, t, n, imported(key))
  <2>1. CASE imports[key].original # ""
    <3>1. imports[key].original \in Meanings(t, n)
      BY <1>1, <2>1, MeansOriginal
    <3>2. imported(key) = LookupInFile(d, imports[key].file, imports[key].original)
      BY <2>1
    <3> HIDE DEF imported
    <3>3. QED
      BY <3>1, <3>2, LookupFinds DEF Meant, LookupInFile
  <2>2. CASE imports[key].original = ""
    BY <2>2, BareIsMeant DEF LookupInFile
  <2>3. QED
    BY <2>1, <2>2
<1>2. Meant(d, t, n, 0)
  BY DEF Meant
<1>3. Meant(d, t, n, MethodOf(d, own, bare)) /\ Meant(d, t, n, InheritedMethod(d, own, bare))
  BY MethodFinds, InheritedFinds, MeansLast DEF Meant
<1>4. Meant(d, t, n, local)
  BY BareIsMeant
<1>5. Meant(d, t, n, LookupInFile(d, imports[LongestIn(known)].file, bare))
  BY BareIsMeant DEF LookupInFile
<1>6. Front(n) \in known => Front(n) \in DOMAIN imports
  OBVIOUS
<1> DEFINE s == ResolvePython(d, imports, caller, n, file)
<1>7. \/ s = 0 \/ s = local
      \/ s = MethodOf(d, own, bare) \/ s = InheritedMethod(d, own, bare)
      \/ Front(n) \in known /\ s = imported(Front(n))
      \/ s = LookupInFile(d, imports[LongestIn(known)].file, bare)
      \/ <<bare>> \in DOMAIN imports /\ s = imported(<<bare>>)
  BY Zenon DEF ResolvePython
<1> HIDE DEF imported, known, local, own, s, bare
<1>8. Meant(d, t, n, s)
  BY <1>1, <1>2, <1>3, <1>4, <1>5, <1>6, <1>7
<1>9. QED
  BY <1>8 DEF s

LEMMA JsMeant ==
  ASSUME NEW d, Numbers(d), NEW t, NEW n, NEW imports, NEW file
  PROVE  Meant(d, t, n, ResolveJs(d, imports, n, file))
<1>1. \A g, types : Meant(d, t, n, Lookup(d, g, Last(n), types))
  BY BareIsMeant
<1>2. \A g : Meant(d, t, n, LookupInFile(d, g, Last(n)))
  BY <1>1 DEF LookupInFile
<1>3. Meant(d, t, n, 0)
  BY DEF Meant
<1>4. QED
  BY <1>1, <1>2, <1>3 DEF ResolveJs

LEMMA ResolvedIsMeant ==
  ASSUME NEW d, Numbers(d), NEW t, NEW n, NEW W, n \in Seq(W), n # <<>>, NEW imports, Honest(imports, t),
         NEW f, NEW caller, NEW file
  PROVE  Meant(d, t, n, Resolve(d, f, imports, caller, n, file))
BY PythonMeant, JsMeant DEF Resolve

-----------------------------------------------------------------------------
(* The database at any time.                                               *)

Fields == {"name", "qual", "type", "from", "to", "parent", "branches", "members", "file"}

IsDb(d) ==
  d = [files |-> d.files, symbols |-> d.symbols, calls |-> d.calls, open |-> d.open,
       edges |-> d.edges, loose |-> d.loose, nextFile |-> d.nextFile, nextSymbol |-> d.nextSymbol]

(* Numbers are used once and lead somewhere.                               *)
FilesSound(d) ==
  /\ d.nextFile \in Nat \ {0}
  /\ \A r \in d.files : r.id \in Nat \ {0} /\ r.id < d.nextFile /\ r.path \in File
  /\ \A r, q \in d.files : r.id = q.id \/ r.path = q.path => r = q
SymbolsSound(d) ==
  /\ d.nextSymbol \in Nat \ {0}
  /\ \A s \in DOMAIN d.symbols :
       /\ s \in Nat \ {0} /\ s < d.nextSymbol
       /\ DOMAIN d.symbols[s] = Fields
       /\ \E r \in d.files : d.symbols[s].file = r.id
CallsSound(d) ==
  /\ \A c \in d.calls : c.caller \in DOMAIN d.symbols /\ c.callee \in DOMAIN d.symbols
  /\ \A c \in d.open : c.caller \in DOMAIN d.symbols
Sound(d) == IsDb(d) /\ FilesSound(d) /\ SymbolsSound(d) /\ CallsSound(d)

(* What is stored of the file of row r is what text t of it says.          *)
Marks(rows) == {<<r.qual, r.from>> : r \in rows}
TellsSymbols(d, r, t) ==
  Marks({d.symbols[s] : s \in InFile(d, r.id)}) = Marks(Range(Extracts[r.path][t].definitions))
TellsCalls(d, r, t) ==
  \A c \in d.calls : d.symbols[c.caller].file = r.id =>
    \E x \in Extracts[r.path][t].calls :
      /\ x.caller = d.symbols[c.caller].qual
      /\ x.line = c.line
      /\ d.symbols[c.callee].name \in Meanings(t, x.name)
TellsOpen(d, r, t) ==
  \A c \in d.open : d.symbols[c.caller].file = r.id =>
    \E x \in Extracts[r.path][t].calls :
      x.caller = d.symbols[c.caller].qual /\ x.line = c.line /\ x.name = c.name
Told(d, T) ==
  \A r \in d.files :
    /\ T[r.path] \in Texts[r.path] /\ Lang[r.path] \in Languages
    /\ TellsSymbols(d, r, T[r.path])
    /\ TellsCalls(d, r, T[r.path])
    /\ TellsOpen(d, r, T[r.path])

(* The hash of a file is of the text its symbols are from, unless the file *)
(* was edited in between.                                                  *)
Hashed(d, T) == \A r \in d.files : r.path \notin raced => r.hash = T[r.path]

SomeText(f) == Texts[f] \cup {None}
IsFull(j) ==
  /\ j.kind = "full" /\ DOMAIN j.read = File
  /\ \A f \in File : j.read[f] \in SomeText(f)
IsRefresh(j) ==
  /\ j.kind = "refresh" /\ j.todo \subseteq File
  /\ j.read = <<>> \/ \E f \in File : \E t \in SomeText(f) : j.read = [g \in {f} |-> t]
IsJob(j) == j = [kind |-> j.kind, todo |-> j.todo, read |-> j.read] /\ (IsFull(j) \/ IsRefresh(j))

Typed ==
  /\ DOMAIN source = File /\ \A f \in File : source[f] \in SomeText(f)
  /\ DOMAIN job = Proc /\ \A p \in Proc : job[p] = None \/ IsJob(job[p])

(* Nothing is stored before the first build, and nothing is left when the  *)
(* tables are dropped and not created.                                     *)
Unbuilt == db = None
Built ==
  Sound(db) /\ \E T \in [File -> AllTexts \cup {None}] : Told(db, T) /\ Hashed(db, T)

GraphInv == Typed /\ (Unbuilt \/ Built)

(* Whatever leaves files, calls and the names of the symbols alone keeps   *)
(* all this.                                                               *)
LEMMA AlikeKeeps ==
  ASSUME NEW d, NEW e, NEW T, Sound(d), Told(d, T), IsDb(e),
         e.files = d.files, e.calls = d.calls, e.open = d.open,
         e.nextFile = d.nextFile, e.nextSymbol = d.nextSymbol,
         DOMAIN e.symbols = DOMAIN d.symbols,
         \A s \in DOMAIN d.symbols :
           /\ DOMAIN e.symbols[s] = Fields
           /\ e.symbols[s].file = d.symbols[s].file /\ e.symbols[s].name = d.symbols[s].name
           /\ e.symbols[s].qual = d.symbols[s].qual /\ e.symbols[s].from = d.symbols[s].from
  PROVE  Sound(e) /\ Told(e, T)
<1>1. Sound(e)
  <2>1. FilesSound(e)
    BY DEF Sound, FilesSound
  <2>2. SymbolsSound(e)
    BY DEF Sound, SymbolsSound
  <2>3. CallsSound(e)
    BY DEF Sound, CallsSound
  <2>4. QED
    BY <2>1, <2>2, <2>3 DEF Sound
<1>2. ASSUME NEW r \in e.files, NEW t
      PROVE  /\ TellsSymbols(d, r, t) => TellsSymbols(e, r, t)
             /\ TellsCalls(d, r, t) => TellsCalls(e, r, t)
             /\ TellsOpen(d, r, t) => TellsOpen(e, r, t)
  <2>1. InFile(e, r.id) = InFile(d, r.id)
    BY DEF InFile
  <2>2. \A s \in InFile(d, r.id) : /\ e.symbols[s].qual = d.symbols[s].qual
                                   /\ e.symbols[s].from = d.symbols[s].from
    BY DEF InFile
  <2>3. Marks({e.symbols[s] : s \in InFile(e, r.id)}) = Marks({d.symbols[s] : s \in InFile(d, r.id)})
    <3> DEFINE S == InFile(d, r.id)
    <3> HIDE DEF S
    <3> DEFINE old(s) == <<d.symbols[s].qual, d.symbols[s].from>>
               new(s) == <<e.symbols[s].qual, e.symbols[s].from>>
    <3>1. Marks({e.symbols[s] : s \in S}) = {new(s) : s \in S}
      BY DEF Marks
    <3>2. Marks({d.symbols[s] : s \in S}) = {old(s) : s \in S}
      BY DEF Marks
    <3>3. \A s \in S : new(s) = old(s)
      BY <2>2 DEF S
    <3>4. Marks({e.symbols[s] : s \in S}) = Marks({d.symbols[s] : s \in S})
      <4> HIDE DEF old, new
      <4>1. {new(s) : s \in S} = {old(s) : s \in S}
        BY <3>3
      <4>2. QED
        BY <3>1, <3>2, <4>1, Zenon
    <3>5. QED
      BY <2>1, <3>4, Zenon DEF S
  <2>4. TellsSymbols(d, r, t) => TellsSymbols(e, r, t)
    BY <2>3 DEF TellsSymbols
  <2>5. TellsCalls(d, r, t) => TellsCalls(e, r, t)
    BY DEF TellsCalls, Sound, CallsSound
  <2>6. TellsOpen(d, r, t) => TellsOpen(e, r, t)
    BY DEF TellsOpen, Sound, CallsSound
  <2>7. QED
    BY <2>4, <2>5, <2>6
<1>3. Told(e, T)
  BY <1>2, Zenon DEF Told
<1>4. QED
  BY <1>1, <1>3

LEMMA EmptyIsSound ==
  ASSUME NEW T
  PROVE  Sound(Empty) /\ Told(Empty, T)
<1>1. DOMAIN <<>> = {}
  BY SMT
<1>2. PICK d : d = Empty
  OBVIOUS
<1>3. /\ d.files = {} /\ d.symbols = <<>> /\ d.calls = {} /\ d.open = {}
      /\ d.nextFile = 1 /\ d.nextSymbol = 1 /\ IsDb(d)
  BY <1>2 DEF Empty, IsDb
<1>4. FilesSound(d) /\ SymbolsSound(d) /\ CallsSound(d)
  BY <1>1, <1>3 DEF FilesSound, SymbolsSound, CallsSound
<1>5. Told(d, T)
  BY <1>3 DEF Told
<1>6. QED
  BY <1>2, <1>3, <1>4, <1>5 DEF Sound

(* Rows of files by path and by number.                                    *)
LEMMA FileIdIs ==
  ASSUME NEW d, FilesSound(d)
  PROVE  /\ \A r \in d.files : FileId(d, r.path) = r.id
         /\ \A f : FileId(d, f) # 0 => \E r \in d.files : r.path = f /\ r.id = FileId(d, f)
         /\ \A f : FileId(d, f) = 0 => \A r \in d.files : r.path # f
<1>1. ASSUME NEW f
      PROVE  /\ FileId(d, f) # 0 => \E r \in d.files : r.path = f /\ r.id = FileId(d, f)
             /\ FileId(d, f) = 0 => \A r \in d.files : r.path # f
  <2> DEFINE S == {r.id : r \in {x \in d.files : x.path = f}}
  <2>1. S \subseteq Nat /\ 0 \notin S
    BY DEF FilesSound
  <2>2. FileId(d, f) = First(S)
    BY DEF FileId
  <2>3. \A s \in S : \E r \in d.files : r.path = f /\ r.id = s
    OBVIOUS
  <2>4. S = {} => \A r \in d.files : r.path # f
    OBVIOUS
  <2> HIDE DEF S
  <2>5. (S # {} => First(S) \in S) /\ (First(S) # 0 => First(S) \in S)
    BY <2>1, FirstIsLeast
  <2>6. QED
    BY <2>1, <2>2, <2>3, <2>4, <2>5
<1>2. ASSUME NEW r \in d.files PROVE FileId(d, r.path) = r.id
  <2>1. FileId(d, r.path) # 0
    BY <1>1
  <2>2. PICK q \in d.files : q.path = r.path /\ q.id = FileId(d, r.path)
    BY <1>1, <2>1
  <2>3. QED
    BY <2>2 DEF FilesSound
<1>3. QED
  BY <1>1, <1>2

LEMMA PathIs ==
  ASSUME NEW d, FilesSound(d), NEW r \in d.files, NEW s, d.symbols[s].file = r.id
  PROVE  PathOf(d, s) = r.path
<1>1. \A q \in d.files : q.id = d.symbols[s].file => q = r
  BY DEF FilesSound
<1>2. QED
  BY <1>1 DEF PathOf

(* What depth 2 shows is rows of calls.                                    *)
LEMMA WalkInCalls ==
  ASSUME NEW d, NEW s, NEW near, NEW far
  PROVE  Walk(d, s, 2, near, far) \subseteq d.calls
<1> DEFINE next(w) ==
             LET rows == {c \in d.calls : c[near] \in w.at}
                 ends == {c[far] : c \in rows}
             IN [at |-> ends \ w.seen, seen |-> w.seen \cup ends, rows |-> w.rows \cup rows]
           w0 == [at |-> {s}, seen |-> {s}, rows |-> {}]
           w1 == next(w0)
           w2 == next(w1)
           walk(w) == [k \in 0..2 |-> IF k = 0 THEN w0 ELSE next(w[k - 1])]
           g == [k \in 0..2 |-> IF k = 0 THEN w0 ELSE IF k = 1 THEN w1 ELSE w2]
<1>1. g = walk(g)
  <2> HIDE DEF next
  <2>1. \A k \in 0..2 : g[k] = IF k = 0 THEN w0 ELSE next(g[k - 1])
    <3>1. g[0] = w0 /\ g[1] = next(g[0]) /\ g[2] = next(g[1])
      OBVIOUS
    <3>2. \A k \in 0..2 : k = 0 \/ k = 1 \/ k = 2
      OBVIOUS
    <3> HIDE DEF g, w0
    <3>3. QED
      BY <3>1, <3>2
  <2>2. QED
    BY <2>1
<1>2. PICK w : w = CHOOSE v : v = walk(v)
  OBVIOUS
<1>3. w = walk(w)
  <2> HIDE DEF walk, g
  <2>1. QED
    BY <1>1, <1>2, Zenon
<1>4. \A v : v.rows \subseteq d.calls => next(v).rows \subseteq d.calls
  OBVIOUS
<1>5. w0.rows \subseteq d.calls
  OBVIOUS
<1>6. w[2].rows \subseteq d.calls
  <2> HIDE DEF next, w0
  <2>1. w[0] = w0 /\ w[1] = next(w[0]) /\ w[2] = next(w[1])
    BY <1>3
  <2>2. QED
    BY <1>4, <1>5, <2>1
<1>7. Walk(d, s, 2, near, far) = w[2].rows
  BY <1>2, Zenon DEF Walk
<1>8. QED
  BY <1>6, <1>7, Zenon

(* What the invariant says of a query.                                     *)
LEMMA ShownIsWritten ==
  ASSUME NEW d, NEW T, Sound(d), Told(d, T), NEW s, NEW c \in CallContext(d, s, 2)
  PROVE  /\ {c.caller, c.callee} \subseteq DOMAIN d.symbols
         /\ LET f == PathOf(d, c.caller) IN
            \E t \in Texts[f] :
              /\ Stores(d, f, t)
              /\ \E x \in Extracts[f][t].calls :
                   /\ x.caller = d.symbols[c.caller].qual
                   /\ x.line = c.line
                   /\ d.symbols[c.callee].name \in Meanings(t, x.name)
<1>1. c \in d.calls
  BY WalkInCalls DEF CallContext, WalkCallers, WalkCallees
<1>2. c.caller \in DOMAIN d.symbols /\ c.callee \in DOMAIN d.symbols
  BY <1>1 DEF Sound, CallsSound
<1>3. PICK r \in d.files : d.symbols[c.caller].file = r.id
  BY <1>2 DEF Sound, SymbolsSound
<1>4. FileId(d, r.path) = r.id /\ PathOf(d, c.caller) = r.path
  BY <1>3, FileIdIs, PathIs DEF Sound
<1>5. PICK t \in Texts[r.path] : t = T[r.path]
  BY DEF Told
<1>6. TellsSymbols(d, r, t) /\ TellsCalls(d, r, t)
  BY <1>5 DEF Told
<1>7. Stores(d, r.path, t)
  BY <1>4, <1>6, Zenon DEF Stores, TellsSymbols, Marks
<1>8. \E x \in Extracts[r.path][t].calls :
        /\ x.caller = d.symbols[c.caller].qual
        /\ x.line = c.line
        /\ d.symbols[c.callee].name \in Meanings(t, x.name)
  BY <1>1, <1>3, <1>6, Zenon DEF TellsCalls
<1>9. QED
  BY <1>2, <1>4, <1>7, <1>8, Zenon

-----------------------------------------------------------------------------
(* What the operations on the database keep.                               *)

Kept(d, T, e) == Sound(e) /\ Told(e, T) /\ e.files = d.files

LEMMA EdgesKeep ==
  ASSUME NEW d, NEW T, Sound(d), Told(d, T), NEW F, NEW x, NEW imports
  PROVE  Kept(d, T, Edges(d, F, x, imports))
<1>1. PICK e, a, b : e = Edges(d, F, x, imports) /\ e = [d EXCEPT !.edges = a, !.loose = b]
  BY Zenon DEF Edges
<1>2. /\ IsDb(e) /\ e.files = d.files /\ e.symbols = d.symbols /\ e.calls = d.calls
      /\ e.open = d.open /\ e.nextFile = d.nextFile /\ e.nextSymbol = d.nextSymbol
  BY <1>1 DEF Sound, IsDb
<1>3. Sound(e) /\ Told(e, T)
  BY <1>2, AlikeKeeps DEF Sound, SymbolsSound
<1>4. QED
  BY <1>1, <1>2, <1>3, Zenon DEF Kept

LEMMA PropagateKeeps ==
  ASSUME NEW d, NEW T, Sound(d), Told(d, T), NEW read
  PROVE  Kept(d, T, PropagateEnums(d, read))
<1> DEFINE new == {s \in EnumClosure(d) : /\ d.symbols[s].type # "enum"
                                          /\ Lang[PathOf(d, s)] = "python"}
           members(s) == MembersNamed(PathOf(d, s), read[PathOf(d, s)], d.symbols[s].name)
           row(s) == IF s \in new THEN [d.symbols[s] EXCEPT !.type = "enum", !.members = members(s)]
                     ELSE d.symbols[s]
<1>1. PICK e : e = PropagateEnums(d, read)
  OBVIOUS
<1>2. e = [d EXCEPT !.symbols = [s \in DOMAIN d.symbols |-> row(s)]]
  BY <1>1, Zenon DEF PropagateEnums
<1>3. ASSUME NEW s \in DOMAIN d.symbols
      PROVE  /\ DOMAIN row(s) = Fields
             /\ row(s).file = d.symbols[s].file /\ row(s).name = d.symbols[s].name
             /\ row(s).qual = d.symbols[s].qual /\ row(s).from = d.symbols[s].from
  <2> HIDE DEF new, members
  <2>1. DOMAIN d.symbols[s] = Fields
    BY DEF Sound, SymbolsSound
  <2>2. QED
    BY <2>1 DEF Fields
<1> HIDE DEF row
<1>4. /\ IsDb(e) /\ e.files = d.files /\ e.calls = d.calls
      /\ e.open = d.open /\ e.nextFile = d.nextFile /\ e.nextSymbol = d.nextSymbol
      /\ e.symbols = [s \in DOMAIN d.symbols |-> row(s)]
  BY <1>2 DEF Sound, IsDb
<1>5. Sound(e) /\ Told(e, T)
  BY <1>3, <1>4, AlikeKeeps
<1>6. QED
  BY <1>1, <1>4, <1>5, Zenon DEF Kept

(* A call row, or an open one, that says what the text of its file says.   *)
GoodCall(d, T, c) ==
  /\ c.caller \in DOMAIN d.symbols /\ c.callee \in DOMAIN d.symbols
  /\ \A r \in d.files : d.symbols[c.caller].file = r.id =>
       \E x \in Extracts[r.path][T[r.path]].calls :
         /\ x.caller = d.symbols[c.caller].qual
         /\ x.line = c.line
         /\ d.symbols[c.callee].name \in Meanings(T[r.path], x.name)
GoodOpen(d, T, c) ==
  /\ c.caller \in DOMAIN d.symbols
  /\ \A r \in d.files : d.symbols[c.caller].file = r.id =>
       \E x \in Extracts[r.path][T[r.path]].calls :
         x.caller = d.symbols[c.caller].qual /\ x.line = c.line /\ x.name = c.name

Good(d, T, C, O) ==
  /\ \A c \in C : c \in d.calls \/ GoodCall(d, T, c)
  /\ \A c \in O : c \in d.open \/ GoodOpen(d, T, c)

LEMMA MoreCalls ==
  ASSUME NEW d, NEW T, NEW C, NEW O, Sound(d), Told(d, T), Good(d, T, C, O)
  PROVE  Kept(d, T, [d EXCEPT !.calls = C, !.open = O])
<1>1. PICK e : e = [d EXCEPT !.calls = C, !.open = O]
  OBVIOUS
<1>2. /\ IsDb(e) /\ e.files = d.files /\ e.symbols = d.symbols /\ e.calls = C
      /\ e.open = O /\ e.nextFile = d.nextFile /\ e.nextSymbol = d.nextSymbol
  BY <1>1 DEF Sound, IsDb
<1>3. \A c \in C : c.caller \in DOMAIN d.symbols /\ c.callee \in DOMAIN d.symbols
  BY DEF Good, GoodCall, Sound, CallsSound
<1>4. \A c \in O : c.caller \in DOMAIN d.symbols
  BY DEF Good, GoodOpen, Sound, CallsSound
<1>5. FilesSound(e) /\ SymbolsSound(e) /\ CallsSound(e)
  BY <1>2, <1>3, <1>4 DEF Sound, FilesSound, SymbolsSound, CallsSound
<1>6. ASSUME NEW r \in d.files
      PROVE  /\ TellsSymbols(e, r, T[r.path])
             /\ TellsCalls(e, r, T[r.path])
             /\ TellsOpen(e, r, T[r.path])
  <2>1. TellsSymbols(d, r, T[r.path]) /\ TellsCalls(d, r, T[r.path]) /\ TellsOpen(d, r, T[r.path])
    BY Zenon DEF Told
  <2>2. TellsSymbols(e, r, T[r.path])
    BY <1>2, <2>1, Zenon DEF TellsSymbols, InFile
  <2>3. TellsCalls(e, r, T[r.path])
    <3>1. ASSUME NEW c \in e.calls, e.symbols[c.caller].file = r.id
          PROVE  \E y \in Extracts[r.path][T[r.path]].calls :
                   /\ y.caller = e.symbols[c.caller].qual
                   /\ y.line = c.line
                   /\ e.symbols[c.callee].name \in Meanings(T[r.path], y.name)
      <4>1. CASE c \in d.calls
        BY <1>2, <2>1, <3>1, <4>1, Zenon DEF TellsCalls
      <4>2. CASE GoodCall(d, T, c)
        BY <1>2, <3>1, <4>2, Zenon DEF GoodCall
      <4>3. QED
        BY <1>2, <4>1, <4>2, Zenon DEF Good
    <3>2. QED
      BY <3>1, Zenon DEF TellsCalls
  <2>4. TellsOpen(e, r, T[r.path])
    <3>1. ASSUME NEW c \in e.open, e.symbols[c.caller].file = r.id
          PROVE  \E y \in Extracts[r.path][T[r.path]].calls :
                   y.caller = e.symbols[c.caller].qual /\ y.line = c.line /\ y.name = c.name
      <4>1. CASE c \in d.open
        BY <1>2, <2>1, <3>1, <4>1, Zenon DEF TellsOpen
      <4>2. CASE GoodOpen(d, T, c)
        BY <1>2, <3>1, <4>2, Zenon DEF GoodOpen
      <4>3. QED
        BY <1>2, <4>1, <4>2, Zenon DEF Good
    <3>2. QED
      BY <3>1, Zenon DEF TellsOpen
  <2>5. QED
    BY <2>2, <2>3, <2>4
<1>7. Told(e, T)
  BY <1>2, <1>6, Zenon DEF Told
<1>8. QED
  BY <1>1, <1>2, <1>5, <1>7, Zenon DEF Sound, Kept

LEMMA CallsKeep ==
  ASSUME NEW d, NEW T, Sound(d), Told(d, T), NEW F, NEW x, NEW imports,
         \A f \in F : /\ f \in File /\ T[f] \in Texts[f] /\ Lang[f] \in Languages
                      /\ x[f] = Extracts[f][T[f]]
                      /\ Honest(imports[f], T[f])
  PROVE  Kept(d, T, Calls(d, F, x, imports))
<1> DEFINE site(f, c) == [caller |-> LookupSymbolId(d, FileId(d, f), c.caller),
                          name |-> c.name, line |-> c.line,
                          callee |-> Resolve(d, f, imports[f], c.caller, c.name, FileId(d, f))]
           sites == UNION {{site(f, c) : c \in x[f].calls} : f \in F}
           known == {c \in sites : c.caller # 0}
           call(c) == [caller |-> c.caller, callee |-> c.callee, line |-> c.line]
           open(c) == [caller |-> c.caller, name |-> c.name, line |-> c.line]
           C == d.calls \cup {call(c) : c \in {k \in known : k.callee # 0}}
           O == d.open \cup {open(c) : c \in {k \in known : k.callee = 0}}
<1>1. Calls(d, F, x, imports) = [d EXCEPT !.calls = C, !.open = O]
  BY Zenon DEF Calls
<1>2. Numbers(d)
  BY DEF Numbers, Sound, SymbolsSound
<1>3. ASSUME NEW k \in known
      PROVE  GoodOpen(d, T, open(k)) /\ (k.callee # 0 => GoodCall(d, T, call(k)))
  <2> HIDE DEF site
  <2>0. PICK f \in F : k \in {site(f, c) : c \in x[f].calls}
    BY <1>3, Zenon
  <2>1. PICK c \in x[f].calls : k = site(f, c)
    BY <2>0, Zenon
  <2>2. /\ k.caller = LookupSymbolId(d, FileId(d, f), c.caller) /\ k.caller # 0
        /\ k.name = c.name /\ k.line = c.line
        /\ k.callee = Resolve(d, f, imports[f], c.caller, c.name, FileId(d, f))
    BY <1>3, <2>1 DEF site
  <2>3. k.caller \in InFile(d, FileId(d, f)) /\ d.symbols[k.caller].qual = c.caller
    BY <1>2, <2>2, IdFinds
  <2>4. k.caller \in DOMAIN d.symbols /\ d.symbols[k.caller].file = FileId(d, f)
    BY <2>3 DEF InFile
  <2>5. PICK r \in d.files : d.symbols[k.caller].file = r.id
    BY <2>4 DEF Sound, SymbolsSound
  <2>6. r.path = f /\ \A q \in d.files : q.id = r.id => q = r
    <3>1. FileId(d, f) # 0
      BY <2>4, <2>5 DEF Sound, FilesSound
    <3>2. PICK q \in d.files : q.path = f /\ q.id = FileId(d, f)
      BY <3>1, FileIdIs DEF Sound
    <3>3. QED
      BY <2>4, <2>5, <3>2 DEF Sound, FilesSound
  <2>7. c \in Extracts[f][T[f]].calls
    BY <2>1
  <2>8. GoodOpen(d, T, open(k))
    <3>1. PICK o : o = open(k)
      OBVIOUS
    <3>2. o.caller = k.caller /\ o.name = k.name /\ o.line = k.line
      BY <3>1
    <3>3. ASSUME NEW q \in d.files, d.symbols[o.caller].file = q.id
          PROVE  \E y \in Extracts[q.path][T[q.path]].calls :
                   y.caller = d.symbols[o.caller].qual /\ y.line = o.line /\ y.name = o.name
      <4>1. q.path = f
        BY <2>5, <2>6, <3>2, <3>3
      <4>2. c.caller = d.symbols[o.caller].qual /\ c.line = o.line /\ c.name = o.name
        BY <2>2, <2>3, <3>2
      <4>3. QED
        BY <2>7, <4>1, <4>2, Zenon
    <3>4. GoodOpen(d, T, o)
      BY <2>4, <3>2, <3>3, Zenon DEF GoodOpen
    <3>5. QED
      BY <3>1, <3>4, Zenon
  <2>9. ASSUME k.callee # 0 PROVE GoodCall(d, T, call(k))
    <3>1. PICK m \in DOMAIN T[f] : T[f][m].type = "call" /\ c.name = T[f][m].name
      BY <2>7, Extracted
    <3>2. c.name \in Seq(STRING) /\ c.name # <<>>
      BY <3>1, TextAssumption, Zenon
    <3>3. Meant(d, T[f], c.name, k.callee)
      <4>1. PICK W : W = Seq(STRING)
        OBVIOUS
      <4>2. c.name \in W /\ Honest(imports[f], T[f])
        BY <3>2, <4>1, Zenon
      <4>3. Meant(d, T[f], c.name, Resolve(d, f, imports[f], c.caller, c.name, FileId(d, f)))
        BY <1>2, <3>2, <4>2, ResolvedIsMeant, Zenon
      <4>4. QED
        BY <2>2, <4>3, Zenon
    <3>4. k.callee \in DOMAIN d.symbols /\ d.symbols[k.callee].name \in Meanings(T[f], c.name)
      BY <2>9, <3>3 DEF Meant
    <3>5. PICK o : o = call(k)
      OBVIOUS
    <3>6. o.caller = k.caller /\ o.callee = k.callee /\ o.line = k.line
      BY <3>5
    <3>9. ASSUME NEW q \in d.files, d.symbols[o.caller].file = q.id
          PROVE  \E y \in Extracts[q.path][T[q.path]].calls :
                   /\ y.caller = d.symbols[o.caller].qual
                   /\ y.line = o.line
                   /\ d.symbols[o.callee].name \in Meanings(T[q.path], y.name)
      <4>1. q.path = f
        BY <2>5, <2>6, <3>6, <3>9
      <4>2. /\ c.caller = d.symbols[o.caller].qual /\ c.line = o.line
            /\ d.symbols[o.callee].name \in Meanings(T[f], c.name)
        BY <2>2, <2>3, <3>4, <3>6
      <4>3. QED
        BY <2>7, <4>1, <4>2, Zenon
    <3>7. GoodCall(d, T, o)
      BY <2>4, <3>4, <3>6, <3>9, Zenon DEF GoodCall
    <3>8. QED
      BY <3>5, <3>7, Zenon
  <2>10. QED
    BY <2>8, <2>9
<1>4. \A c \in C : c \in d.calls \/ GoodCall(d, T, c)
  <2> HIDE DEF known, call
  <2>1. QED
    BY <1>3
<1>5. \A c \in O : c \in d.open \/ GoodOpen(d, T, c)
  <2> HIDE DEF known, open
  <2>1. QED
    BY <1>3
<1> HIDE DEF C, O
<1>6. Good(d, T, C, O)
  BY <1>4, <1>5, Zenon DEF Good
<1>7. PICK cs, os : cs = C /\ os = O
  OBVIOUS
<1>8. Good(d, T, cs, os)
  BY <1>6, <1>7, Zenon
<1>9. Kept(d, T, [d EXCEPT !.calls = cs, !.open = os])
  BY <1>8, MoreCalls, Zenon
<1>10. QED
  BY <1>1, <1>7, <1>9, Zenon

(* Promotion: an open call becomes a call of a name it may mean.           *)
LEMMA PromoteKeeps ==
  ASSUME NEW d, NEW T, NEW f, NEW defs, NEW imports,
         Sound(d), Told(d, T), Honest(imports, T[f])
  PROVE  Kept(d, T, Promote(d, f, defs, imports))
<1> DEFINE names == {defs[n].name : n \in {m \in DOMAIN defs : defs[m].type \in Callable}}
           known(c) == IF Lang[f] = "python" /\ PathOf(d, c.caller) = f THEN imports ELSE <<>>
           hit(c) == ResolvePython(d, known(c), d.symbols[c.caller].qual, c.name, c.caller)
           won == {c \in d.open : Last(c.name) \in names /\ hit(c) # 0}
           call(c) == [caller |-> c.caller, callee |-> hit(c), line |-> c.line]
           C == d.calls \cup {call(c) : c \in won}
           O == d.open \ won
<1>1. Promote(d, f, defs, imports) = [d EXCEPT !.calls = C, !.open = O]
  <2> HIDE DEF won, hit
  <2>1. Promote(d, f, defs, imports) = [d EXCEPT !.open = @ \ won, !.calls = @ \cup {call(c) : c \in won}]
    BY Zenon DEF Promote, won, hit
  <2>2. QED
    BY <2>1 DEF Sound, IsDb
<1>2. Numbers(d)
  BY DEF Numbers, Sound, SymbolsSound
<1>3. ASSUME NEW c \in won
      PROVE  GoodCall(d, T, call(c))
  <2> HIDE DEF names, known
  <2>1. c \in d.open /\ hit(c) # 0
    BY <1>3, Zenon
  <2>2. c.caller \in DOMAIN d.symbols
    BY <2>1 DEF Sound, CallsSound
  <2>3. PICK r \in d.files : d.symbols[c.caller].file = r.id
    BY <2>2 DEF Sound, SymbolsSound
  <2>4. PathOf(d, c.caller) = r.path
    BY <2>3, PathIs DEF Sound
  <2>5. PICK t \in Texts[r.path] : t = T[r.path]
    BY Zenon DEF Told
  <2>6. PICK x \in Extracts[r.path][t].calls :
          x.caller = d.symbols[c.caller].qual /\ x.line = c.line /\ x.name = c.name
    BY <2>1, <2>3, <2>5, Zenon DEF Told, TellsOpen
  <2>7. r.path \in File /\ Lang[r.path] \in Languages
    BY DEF Told, Sound, FilesSound
  <2>8. PICK m \in DOMAIN t : t[m].type = "call" /\ x.name = t[m].name
    BY <2>6, <2>7, Extracted
  <2>9. c.name \in Seq(STRING) /\ c.name # <<>>
    BY <2>6, <2>7, <2>8, TextAssumption, Zenon
  <2>10. Honest(known(c), t)
    BY <2>4, <2>5, NoImportsHonest, Zenon DEF known
  <2>11. PICK k, h : k = known(c) /\ h = hit(c)
    OBVIOUS
  <2>12. h = ResolvePython(d, k, d.symbols[c.caller].qual, c.name, c.caller) /\ Honest(k, t)
    BY <2>10, <2>11, Zenon DEF hit
  <2>13. Meant(d, t, c.name, h)
    BY <1>2, <2>9, <2>12, PythonMeant, Zenon
  <2>14. h \in DOMAIN d.symbols /\ d.symbols[h].name \in Meanings(t, x.name)
    BY <2>1, <2>6, <2>11, <2>13 DEF Meant
  <2>15. PICK o : o = call(c)
    OBVIOUS
  <2>16. o.caller = c.caller /\ o.callee = h /\ o.line = c.line
    <3> HIDE DEF hit
    <3>1. QED
      BY <2>11, <2>15
  <2>17. ASSUME NEW q \in d.files, d.symbols[o.caller].file = q.id
         PROVE  \E y \in Extracts[q.path][T[q.path]].calls :
                   /\ y.caller = d.symbols[o.caller].qual
                   /\ y.line = o.line
                   /\ d.symbols[o.callee].name \in Meanings(T[q.path], y.name)
    <3>1. q = r
      BY <2>3, <2>16, <2>17 DEF Sound, FilesSound
    <3>2. x.caller = d.symbols[o.caller].qual /\ x.line = o.line
          /\ d.symbols[o.callee].name \in Meanings(t, x.name)
      BY <2>6, <2>14, <2>16
    <3>3. QED
      BY <2>5, <3>1, <3>2, Zenon
  <2>18. GoodCall(d, T, o)
    BY <2>2, <2>14, <2>16, <2>17, Zenon DEF GoodCall
  <2>19. QED
    BY <2>15, <2>18, Zenon
<1>4. \A c \in C : c \in d.calls \/ GoodCall(d, T, c)
  <2> HIDE DEF won, call
  <2>1. QED
    BY <1>3
<1>5. \A c \in O : c \in d.open
  <2> HIDE DEF won
  <2>1. QED
    OBVIOUS
<1> HIDE DEF C, O
<1>6. PICK cs, os : cs = C /\ os = O
  OBVIOUS
<1>7. Good(d, T, cs, os)
  BY <1>4, <1>5, <1>6, Zenon DEF Good
<1>8. Kept(d, T, [d EXCEPT !.calls = cs, !.open = os])
  BY <1>7, MoreCalls, Zenon
<1>9. QED
  BY <1>1, <1>6, <1>8, Zenon

(* Forgetting a file leaves nothing of it, and the rest as it was.         *)
Forgot(d, T, f, e) == Sound(e) /\ Told(e, T) /\ e.files = {r \in d.files : r.path # f}

LEMMA ForgetKeeps ==
  ASSUME NEW d, NEW T, NEW f, Sound(d), Told(d, T)
  PROVE  Forgot(d, T, f, Forget(d, f))
<1> DEFINE gone == InFile(d, FileId(d, f))
<1>1. PICK e, a, b :
        /\ e = Forget(d, f)
        /\ e = [d EXCEPT !.files = {r \in d.files : r.path # f},
                         !.symbols = [s \in DOMAIN d.symbols \ gone |-> d.symbols[s]],
                         !.calls = {c \in d.calls : c.caller \notin gone /\ c.callee \notin gone},
                         !.open = {c \in d.open : c.caller \notin gone},
                         !.edges = a, !.loose = b]
  <2> HIDE DEF gone
  <2>1. \E e, a, b :
        /\ e = Forget(d, f)
        /\ e = [d EXCEPT !.files = {r \in @ : r.path # f},
                         !.symbols = [s \in DOMAIN d.symbols \ gone |-> d.symbols[s]],
                         !.calls = {c \in @ : c.caller \notin gone /\ c.callee \notin gone},
                         !.open = {c \in @ : c.caller \notin gone},
                         !.edges = a, !.loose = b]
    BY Zenon DEF Forget, gone
  <2>2. QED
    BY <2>1 DEF Sound, IsDb
<1>2. \A s \in DOMAIN d.symbols : s \notin gone => \E r \in d.files : r.path # f /\ d.symbols[s].file = r.id
  <2>1. ASSUME NEW s \in DOMAIN d.symbols, s \notin gone
        PROVE  \E r \in d.files : r.path # f /\ d.symbols[s].file = r.id
    <3>1. PICK r \in d.files : d.symbols[s].file = r.id
      BY DEF Sound, SymbolsSound
    <3>2. FileId(d, r.path) = r.id
      BY FileIdIs DEF Sound
    <3>3. r.path # f
      BY <2>1, <3>1, <3>2 DEF InFile
    <3>4. QED
      BY <3>1, <3>3
  <2>2. QED
    BY <2>1
<1>3. ASSUME NEW r \in d.files, r.path # f PROVE InFile(d, r.id) \cap gone = {}
  <2>1. r.id # FileId(d, f)
    <3>1. CASE FileId(d, f) = 0
      BY <3>1 DEF Sound, FilesSound
    <3>2. CASE FileId(d, f) # 0
      <4>1. PICK q \in d.files : q.path = f /\ q.id = FileId(d, f)
        BY <3>2, FileIdIs DEF Sound
      <4>2. QED
        BY <1>3, <4>1 DEF Sound, FilesSound
    <3>3. QED
      BY <3>1, <3>2
  <2>2. QED
    BY <2>1 DEF InFile
<1> HIDE DEF gone
<1>4. /\ IsDb(e) /\ e.files = {r \in d.files : r.path # f}
      /\ e.symbols = [s \in DOMAIN d.symbols \ gone |-> d.symbols[s]]
      /\ e.calls = {c \in d.calls : c.caller \notin gone /\ c.callee \notin gone}
      /\ e.open = {c \in d.open : c.caller \notin gone}
      /\ e.nextFile = d.nextFile /\ e.nextSymbol = d.nextSymbol
  BY <1>1 DEF Sound, IsDb
<1>5. DOMAIN e.symbols = DOMAIN d.symbols \ gone /\ \A s \in DOMAIN e.symbols : e.symbols[s] = d.symbols[s]
  BY <1>4
<1>6. FilesSound(e)
  BY <1>4 DEF Sound, FilesSound
<1>7. SymbolsSound(e)
  BY <1>2, <1>4, <1>5 DEF Sound, SymbolsSound
<1>8. CallsSound(e)
  BY <1>4, <1>5 DEF Sound, CallsSound
<1>9. ASSUME NEW r \in e.files
      PROVE  /\ TellsSymbols(e, r, T[r.path])
             /\ TellsCalls(e, r, T[r.path])
             /\ TellsOpen(e, r, T[r.path])
  <2>1. r \in d.files /\ r.path # f
    BY <1>4, <1>9
  <2>2. TellsSymbols(d, r, T[r.path]) /\ TellsCalls(d, r, T[r.path]) /\ TellsOpen(d, r, T[r.path])
    BY <2>1, Zenon DEF Told
  <2>3. InFile(d, r.id) \cap gone = {}
    BY <1>3, <2>1
  <2>4. InFile(e, r.id) = InFile(d, r.id)
    BY <1>5, <2>3 DEF InFile
  <2>5. {e.symbols[s] : s \in InFile(e, r.id)} = {d.symbols[s] : s \in InFile(d, r.id)}
    <3>1. \A s \in InFile(e, r.id) : e.symbols[s] = d.symbols[s]
      BY <1>5 DEF InFile
    <3>2. PICK S : S = InFile(e, r.id)
      OBVIOUS
    <3>3. QED
      BY <2>4, <3>1, <3>2
  <2>6. TellsSymbols(e, r, T[r.path])
    BY <2>2, <2>5, Zenon DEF TellsSymbols
  <2>7. \A c \in e.calls : /\ c \in d.calls /\ e.symbols[c.caller] = d.symbols[c.caller]
                           /\ e.symbols[c.callee] = d.symbols[c.callee]
    BY <1>4, <1>5 DEF Sound, CallsSound
  <2>8. \A c \in e.open : c \in d.open /\ e.symbols[c.caller] = d.symbols[c.caller]
    BY <1>4, <1>5 DEF Sound, CallsSound
  <2>9. TellsCalls(e, r, T[r.path])
    BY <2>2, <2>7 DEF TellsCalls
  <2>10. TellsOpen(e, r, T[r.path])
    BY <2>2, <2>8 DEF TellsOpen
  <2>11. QED
    BY <2>6, <2>9, <2>10
<1>10. Told(e, T)
  <2>1. \A r \in e.files : T[r.path] \in Texts[r.path] /\ Lang[r.path] \in Languages
    BY <1>4 DEF Told
  <2>2. QED
    BY <1>9, <2>1, Zenon DEF Told
<1>11. QED
  BY <1>1, <1>4, <1>6, <1>7, <1>8, <1>10, Zenon DEF Sound, Forgot

(* The numbers of the rows that are stored: by how many come before.       *)
LEMMA Ranks ==
  ASSUME NEW P, NEW down, IsFiniteSet(P),
         \A a \in P : down[a] \in SUBSET P /\ a \in down[a],
         \A a, b \in P : a # b => \/ down[a] \subseteq down[b] /\ b \notin down[a]
                                  \/ down[b] \subseteq down[a] /\ a \notin down[b]
  PROVE  /\ Cardinality(P) \in Nat
         /\ \A a \in P : /\ Cardinality(down[a]) \in Nat /\ Cardinality(down[a]) >= 1
                         /\ Cardinality(down[a]) <= Cardinality(P)
         /\ \A a, b \in P : Cardinality(down[a]) = Cardinality(down[b]) => a = b
<1>1. ASSUME NEW a \in P
      PROVE  /\ IsFiniteSet(down[a])
             /\ Cardinality(down[a]) \in Nat /\ Cardinality(down[a]) >= 1
             /\ Cardinality(down[a]) <= Cardinality(P)
  <2>1. PICK D \in SUBSET P : D = down[a]
    OBVIOUS
  <2>2. a \in D
    BY <2>1
  <2>3. IsFiniteSet(D) /\ Cardinality(D) <= Cardinality(P)
    BY FS_Subset
  <2>4. Cardinality(D) \in Nat
    BY <2>3, FS_CardinalityType
  <2>5. Cardinality(D) # 0
    BY <2>2, <2>3, FS_EmptySet
  <2>6. QED
    BY <2>1, <2>3, <2>4, <2>5
<1>2. ASSUME NEW a \in P, NEW b \in P, down[a] \subseteq down[b], b \notin down[a]
      PROVE  Cardinality(down[a]) # Cardinality(down[b])
  <2>1. PICK A, B : A = down[a] /\ B = down[b]
    OBVIOUS
  <2>2. A \in SUBSET B /\ IsFiniteSet(B) /\ b \in B /\ b \notin A
    BY <1>1, <1>2, <2>1
  <2>3. Cardinality(A) \in Nat /\ Cardinality(B) \in Nat /\ Cardinality(A) < Cardinality(B)
    BY <2>2, PartIsSmaller
  <2>4. QED
    BY <2>1, <2>3
<1>3. \A a, b \in P : Cardinality(down[a]) = Cardinality(down[b]) => a = b
  BY <1>2
<1>4. QED
  BY <1>1, <1>3, FS_CardinalityType

(* What is to be stored of the files F, with the texts T.                  *)
News(d, T, F, defs) ==
  /\ F \subseteq File
  /\ \A f \in F : /\ T[f] \in Texts[f] /\ Lang[f] \in Languages
                  /\ defs[f] = Extracts[f][T[f]].definitions
                  /\ \A r \in d.files : r.path # f

LEMMA PlacesFinite ==
  ASSUME NEW d, NEW T, NEW F, NEW defs, News(d, T, F, defs)
  PROVE  /\ IsFiniteSet(F) /\ IsFiniteSet(Places(F, defs))
         /\ \A a \in Places(F, defs) :
              /\ a = <<a[1], a[2]>> /\ a[1] \in F /\ a[1] \in Nat
              /\ a[2] \in DOMAIN defs[a[1]] /\ a[2] \in Nat
              /\ IsRow(defs[a[1]][a[2]])
         /\ \A f \in F : \A n \in DOMAIN defs[f] : <<f, n>> \in Places(F, defs)
<1>1. IsFiniteSet(F)
  BY FileAssumption, FS_Subset DEF News
<1>2. ASSUME NEW f \in F
      PROVE  /\ DOMAIN defs[f] \subseteq Nat /\ IsFiniteSet(DOMAIN defs[f])
             /\ \A n \in DOMAIN defs[f] : IsRow(defs[f][n])
  <2>1. PICK t \in Texts[f] : t = T[f]
    BY DEF News
  <2>2. f \in File /\ Lang[f] \in Languages /\ defs[f] = Extracts[f][t].definitions
    BY <2>1 DEF News
  <2>3. /\ DOMAIN defs[f] \subseteq DOMAIN t /\ DOMAIN t \subseteq Nat /\ IsFiniteSet(DOMAIN t)
        /\ \A n \in DOMAIN defs[f] : IsRow(defs[f][n])
    BY <2>2, Extracted, TextAssumption
  <2>4. QED
    BY <2>3, FS_Subset
<1>3. ASSUME NEW f \in F PROVE IsFiniteSet({f} \X DOMAIN defs[f])
  BY <1>2, FS_Singleton, FS_Product
<1>4. IsFiniteSet(Places(F, defs))
  <2> DEFINE part == [f \in F |-> {f} \X DOMAIN defs[f]]
             parts == {part[f] : f \in F}
  <2>1. part \in Surjection(F, parts)
    BY DEF Surjection
  <2>2. IsFiniteSet(parts)
    BY <1>1, <2>1, FS_Surjection
  <2>3. \A S \in parts : IsFiniteSet(S)
    BY <1>3
  <2>4. Places(F, defs) = UNION parts
    BY DEF Places
  <2> HIDE DEF parts
  <2>5. QED
    BY <2>2, <2>3, <2>4, FS_UNION
<1>5. \A a \in Places(F, defs) : \E f \in F : a \in {f} \X DOMAIN defs[f]
  BY DEF Places
<1>6. \A f \in F : f \in Nat
  BY FileAssumption DEF News
<1>7. ASSUME NEW a \in Places(F, defs)
      PROVE  /\ a = <<a[1], a[2]>> /\ a[1] \in F /\ a[1] \in Nat
             /\ a[2] \in DOMAIN defs[a[1]] /\ a[2] \in Nat
             /\ IsRow(defs[a[1]][a[2]])
  <2>1. PICK f \in F : a \in {f} \X DOMAIN defs[f]
    BY <1>5
  <2>2. a = <<a[1], a[2]>> /\ a[1] = f /\ a[2] \in DOMAIN defs[f]
    BY <2>1
  <2>3. QED
    BY <1>2, <1>6, <2>2
<1>8. \A f \in F : \A n \in DOMAIN defs[f] : <<f, n>> \in Places(F, defs)
  BY DEF Places
<1>9. QED
  BY <1>1, <1>4, <1>7, <1>8

(* The new rows: their numbers are new, and no two are the same.           *)
Inserted(d, F, defs, hash, e, id, number) ==
  LET places == Places(F, defs) IN
  /\ \A f \in F : id[f] \in Nat /\ id[f] >= d.nextFile /\ id[f] < e.nextFile
  /\ \A f, g \in F : id[f] = id[g] => f = g
  /\ \A a \in places : /\ number[a] \in Nat /\ number[a] >= d.nextSymbol
                       /\ number[a] < e.nextSymbol
  /\ e.nextFile \in Nat \ {0} /\ e.nextFile >= d.nextFile
  /\ e.nextSymbol \in Nat \ {0} /\ e.nextSymbol >= d.nextSymbol
  /\ e.files = d.files \cup {[id |-> id[f], path |-> f, hash |-> hash[f]] : f \in F}
  /\ DOMAIN e.symbols = DOMAIN d.symbols \cup {number[a] : a \in places}
  /\ \A s \in DOMAIN d.symbols : e.symbols[s] = d.symbols[s]
  /\ \A a \in places :
       /\ DOMAIN e.symbols[number[a]] = Fields
       /\ e.symbols[number[a]].file = id[a[1]]
       /\ e.symbols[number[a]].qual = defs[a[1]][a[2]].qual
       /\ e.symbols[number[a]].from = defs[a[1]][a[2]].from
  /\ IsDb(e) /\ e.calls = d.calls /\ e.open = d.open

LEMMA InsertIs ==
  ASSUME NEW d, NEW T, NEW F, NEW defs, NEW hash, Sound(d), News(d, T, F, defs)
  PROVE  \E id, number : Inserted(d, F, defs, hash, Insert(d, F, defs, hash), id, number)
<1> DEFINE places == Places(F, defs)
           row(ids, a) == [x \in DOMAIN defs[a[1]][a[2]] \cup {"file"} |->
                             IF x = "file" THEN ids[a[1]] ELSE defs[a[1]][a[2]][x]]
           id == [f \in F |-> d.nextFile - 1 + Cardinality({g \in F : g <= f})]
           number == [a \in places |-> d.nextSymbol - 1 + Cardinality({b \in places : Before(b, a)})]
           files == {[id |-> id[f], path |-> f, hash |-> hash[f]] : f \in F}
           symbols == [s \in DOMAIN d.symbols \cup {number[a] : a \in places} |->
                         IF s \in DOMAIN d.symbols THEN d.symbols[s]
                         ELSE row(id, CHOOSE a \in places : number[a] = s)]
<1>1. PICK e : /\ e = Insert(d, F, defs, hash)
               /\ e = [d EXCEPT !.files = @ \cup files,
                                !.nextFile = @ + Cardinality(F),
                                !.nextSymbol = @ + Cardinality(places),
                                !.symbols = symbols]
  BY Zenon DEF Insert
<1> HIDE DEF places, row, id, number, files, symbols
<1>2. /\ IsFiniteSet(F) /\ IsFiniteSet(places)
      /\ \A a \in places : /\ a = <<a[1], a[2]>> /\ a[1] \in F /\ a[1] \in Nat /\ a[2] \in Nat
                           /\ IsRow(defs[a[1]][a[2]])
      /\ \A f \in F : f \in Nat
  <2>1. \A f \in F : f \in Nat
    BY FileAssumption DEF News
  <2>2. /\ IsFiniteSet(F) /\ IsFiniteSet(places)
        /\ \A a \in places : /\ a = <<a[1], a[2]>> /\ a[1] \in F /\ a[1] \in Nat
                             /\ a[2] \in Nat /\ IsRow(defs[a[1]][a[2]])
    BY PlacesFinite, Zenon DEF places
  <2>3. QED
    BY <2>1, <2>2
<1>3. PICK before : before = [f \in F |-> {g \in F : g <= f}]
  OBVIOUS
<1>4. /\ Cardinality(F) \in Nat
      /\ \A f \in F : /\ Cardinality(before[f]) \in Nat /\ Cardinality(before[f]) >= 1
                      /\ Cardinality(before[f]) <= Cardinality(F)
      /\ \A f, g \in F : Cardinality(before[f]) = Cardinality(before[g]) => f = g
  <2>1. \A a \in F : before[a] \in SUBSET F /\ a \in before[a]
    BY <1>2, <1>3
  <2>2. \A a, b \in F : a # b => \/ before[a] \subseteq before[b] /\ b \notin before[a]
                                 \/ before[b] \subseteq before[a] /\ a \notin before[b]
    BY <1>2, <1>3
  <2>3. QED
    BY <1>2, <2>1, <2>2, Ranks
<1>5. PICK ahead : ahead = [a \in places |-> {b \in places : Before(b, a)}]
  OBVIOUS
<1>6. /\ Cardinality(places) \in Nat
      /\ \A a \in places : /\ Cardinality(ahead[a]) \in Nat /\ Cardinality(ahead[a]) >= 1
                           /\ Cardinality(ahead[a]) <= Cardinality(places)
      /\ \A a, b \in places : Cardinality(ahead[a]) = Cardinality(ahead[b]) => a = b
  <2>1. \A a \in places : ahead[a] \in SUBSET places /\ a \in ahead[a]
    BY <1>2, <1>5 DEF Before
  <2>2. ASSUME NEW a \in places, NEW b \in places, a # b
        PROVE  \/ ahead[a] \subseteq ahead[b] /\ b \notin ahead[a]
               \/ ahead[b] \subseteq ahead[a] /\ a \notin ahead[b]
    <3>1. (Before(a, b) /\ ~Before(b, a)) \/ (Before(b, a) /\ ~Before(a, b))
      <4>1. a[1] # b[1] \/ a[2] # b[2]
        BY <1>2, <2>2
      <4>2. QED
        BY <1>2, <4>1 DEF Before
    <3>2. \A x, y, z \in places : Before(x, y) /\ Before(y, z) => Before(x, z)
      BY <1>2 DEF Before
    <3>3. QED
      BY <1>5, <3>1, <3>2
  <2>3. QED
    BY <1>2, <2>1, <2>2, Ranks
<1>7. \A f \in F : id[f] = d.nextFile - 1 + Cardinality(before[f])
  BY <1>3 DEF id
<1>8. \A a \in places : number[a] = d.nextSymbol - 1 + Cardinality(ahead[a])
  BY <1>5 DEF number
<1>9. /\ d.nextFile \in Nat \ {0} /\ d.nextSymbol \in Nat \ {0}
      /\ \A s \in DOMAIN d.symbols : s \in Nat /\ s < d.nextSymbol
  BY DEF Sound, FilesSound, SymbolsSound
<1>10. /\ \A f \in F : /\ id[f] \in Nat /\ id[f] >= d.nextFile
                       /\ id[f] < d.nextFile + Cardinality(F)
       /\ \A f, g \in F : id[f] = id[g] => f = g
  BY <1>4, <1>7, <1>9
<1>11. /\ \A a \in places : /\ number[a] \in Nat /\ number[a] >= d.nextSymbol
                            /\ number[a] < d.nextSymbol + Cardinality(places)
       /\ \A a, b \in places : number[a] = number[b] => a = b
  BY <1>6, <1>8, <1>9
<1>15. /\ IsDb(e) /\ e.calls = d.calls /\ e.open = d.open /\ e.symbols = symbols
       /\ e.files = d.files \cup {[id |-> id[f], path |-> f, hash |-> hash[f]] : f \in F}
       /\ e.nextFile = d.nextFile + Cardinality(F)
       /\ e.nextSymbol = d.nextSymbol + Cardinality(places)
  <2>4. /\ IsDb(e) /\ e.calls = d.calls /\ e.open = d.open /\ e.symbols = symbols
        /\ e.files = d.files \cup files
        /\ e.nextFile = d.nextFile + Cardinality(F)
        /\ e.nextSymbol = d.nextSymbol + Cardinality(places)
    BY <1>1 DEF Sound, IsDb
  <2>5. QED
    BY <2>4, Zenon DEF files
<1>16. /\ DOMAIN symbols = DOMAIN d.symbols \cup {number[a] : a \in places}
       /\ \A s \in DOMAIN d.symbols : symbols[s] = d.symbols[s]
  BY DEF symbols
<1>17. ASSUME NEW a \in places
       PROVE  /\ DOMAIN symbols[number[a]] = Fields
              /\ symbols[number[a]].file = id[a[1]]
              /\ symbols[number[a]].qual = defs[a[1]][a[2]].qual
              /\ symbols[number[a]].from = defs[a[1]][a[2]].from
  <2>1. number[a] \notin DOMAIN d.symbols
    BY <1>9, <1>11
  <2>2. a = CHOOSE b \in places : number[b] = number[a]
    BY <1>11
  <2>3. symbols[number[a]] = row(id, a)
    <3>1. number[a] \in {number[b] : b \in places}
      OBVIOUS
    <3>2. symbols[number[a]] = row(id, CHOOSE b \in places : number[b] = number[a])
      BY <2>1, <3>1 DEF symbols
    <3>3. QED
      BY <2>2, <3>2, Zenon
  <2>4. PICK r : r = defs[a[1]][a[2]]
    OBVIOUS
  <2>5. DOMAIN r = {"name", "qual", "type", "from", "to", "parent", "branches", "members"}
    BY <1>2, <2>4 DEF IsRow
  <2>6. symbols[number[a]] = [x \in DOMAIN r \cup {"file"} |-> IF x = "file" THEN id[a[1]] ELSE r[x]]
    BY <2>3, <2>4, Zenon DEF row
  <2>7. DOMAIN r \cup {"file"} = Fields
    BY <2>5 DEF Fields
  <2>8. QED
    BY <2>4, <2>5, <2>6, <2>7
<1>18. Inserted(d, F, defs, hash, e, id, number)
  <2>1. /\ e.nextFile \in Nat \ {0} /\ e.nextFile >= d.nextFile
        /\ e.nextSymbol \in Nat \ {0} /\ e.nextSymbol >= d.nextSymbol
    BY <1>4, <1>6, <1>9, <1>15
  <2>2. /\ \A f \in F : id[f] \in Nat /\ id[f] >= d.nextFile /\ id[f] < e.nextFile
        /\ \A a \in places : /\ number[a] \in Nat /\ number[a] >= d.nextSymbol
                             /\ number[a] < e.nextSymbol
    BY <1>10, <1>11, <1>15
  <2>3. QED
    BY <1>10, <1>15, <1>16, <1>17, <2>1, <2>2, Zenon DEF Inserted, places
<1>19. QED
  BY <1>1, <1>18, Zenon

(* Storing files whose texts are T's.                                      *)
Stored(d, T, F, hash, e) ==
  /\ Sound(e) /\ Told(e, T)
  /\ \A r \in e.files : r \in d.files \/ (r.path \in F /\ r.hash = hash[r.path])

LEMMA InsertKeeps ==
  ASSUME NEW d, NEW T, NEW F, NEW defs, NEW hash,
         Sound(d), Told(d, T), News(d, T, F, defs)
  PROVE  Stored(d, T, F, hash, Insert(d, F, defs, hash))
<1>1. PICK e : e = Insert(d, F, defs, hash)
  OBVIOUS
<1>2. PICK id, number : Inserted(d, F, defs, hash, e, id, number)
  BY <1>1, InsertIs, Zenon
<1>3. PICK places : places = Places(F, defs)
  OBVIOUS
<1>4. \A a \in places : a[1] \in F /\ a[2] \in DOMAIN defs[a[1]]
  BY <1>3, PlacesFinite, Zenon
<1>5. /\ \A f \in F : id[f] \in Nat /\ id[f] >= d.nextFile /\ id[f] < e.nextFile
      /\ \A f, g \in F : id[f] = id[g] => f = g
      /\ \A a \in places : /\ number[a] \in Nat /\ number[a] >= d.nextSymbol
                           /\ number[a] < e.nextSymbol
      /\ e.nextFile \in Nat \ {0} /\ e.nextFile >= d.nextFile
      /\ e.nextSymbol \in Nat \ {0} /\ e.nextSymbol >= d.nextSymbol
  BY <1>2, <1>3, Zenon DEF Inserted
<1>6. e.files = d.files \cup {[id |-> id[f], path |-> f, hash |-> hash[f]] : f \in F}
  BY <1>2, Zenon DEF Inserted
<1>7. /\ DOMAIN e.symbols = DOMAIN d.symbols \cup {number[a] : a \in places}
      /\ \A s \in DOMAIN d.symbols : e.symbols[s] = d.symbols[s]
      /\ \A a \in places :
           /\ DOMAIN e.symbols[number[a]] = Fields
           /\ e.symbols[number[a]].file = id[a[1]]
           /\ e.symbols[number[a]].qual = defs[a[1]][a[2]].qual
           /\ e.symbols[number[a]].from = defs[a[1]][a[2]].from
  BY <1>2, <1>3, Zenon DEF Inserted
<1>8. IsDb(e) /\ e.calls = d.calls /\ e.open = d.open
  BY <1>2, Zenon DEF Inserted
<1>9. /\ d.nextFile \in Nat \ {0} /\ d.nextSymbol \in Nat \ {0}
      /\ \A r \in d.files : r.id \in Nat \ {0} /\ r.id < d.nextFile /\ r.path \in File
      /\ \A r \in d.files : r.path \notin F
      /\ F \subseteq File
  BY DEF Sound, FilesSound, SymbolsSound, News
<1>10. ASSUME NEW r \in e.files
       PROVE  \/ r \in d.files
              \/ \E f \in F : r.id = id[f] /\ r.path = f /\ r.hash = hash[f] /\
                              r = [id |-> id[f], path |-> f, hash |-> hash[f]]
  BY <1>6
<1>11. ASSUME NEW f \in F PROVE \E r \in e.files : r.id = id[f]
  <2>1. PICK r : r = [id |-> id[f], path |-> f, hash |-> hash[f]]
    OBVIOUS
  <2>2. r \in e.files
    BY <1>6, <2>1
  <2>3. r.id = id[f]
    BY <2>1
  <2>4. QED
    BY <2>2, <2>3
<1>12. FilesSound(e)
  <2>1. ASSUME NEW r \in e.files
        PROVE  r.id \in Nat \ {0} /\ r.id < e.nextFile /\ r.path \in File
    BY <1>5, <1>9, <1>10
  <2>2. ASSUME NEW r \in e.files, NEW q \in e.files, r.id = q.id \/ r.path = q.path
        PROVE  r = q
    <3>1. CASE r \in d.files /\ q \in d.files
      BY <2>2, <3>1 DEF Sound, FilesSound
    <3>2. CASE r \in d.files /\ q \notin d.files
      BY <1>5, <1>9, <1>10, <2>2, <3>2
    <3>3. CASE r \notin d.files /\ q \in d.files
      BY <1>5, <1>9, <1>10, <2>2, <3>3
    <3>4. CASE r \notin d.files /\ q \notin d.files
      BY <1>5, <1>10, <2>2, <3>4
    <3>5. QED
      BY <3>1, <3>2, <3>3, <3>4
  <2>3. QED
    BY <1>5, <2>1, <2>2 DEF FilesSound
<1>13. SymbolsSound(e)
  <2>1. ASSUME NEW s \in DOMAIN e.symbols
        PROVE  /\ s \in Nat \ {0} /\ s < e.nextSymbol
               /\ DOMAIN e.symbols[s] = Fields
               /\ \E r \in e.files : e.symbols[s].file = r.id
    <3>1. CASE s \in DOMAIN d.symbols
      <4>1. /\ s \in Nat \ {0} /\ s < d.nextSymbol /\ DOMAIN d.symbols[s] = Fields
            /\ \E r \in d.files : d.symbols[s].file = r.id
        BY <3>1 DEF Sound, SymbolsSound
      <4>2. s < e.nextSymbol
        BY <1>5, <1>9, <4>1
      <4>3. e.symbols[s] = d.symbols[s] /\ d.files \subseteq e.files
        BY <1>6, <1>7, <3>1
      <4>4. QED
        BY <4>1, <4>2, <4>3
    <3>2. CASE s \in {number[a] : a \in places}
      <4>1. PICK a \in places : s = number[a]
        BY <3>2
      <4>2. \E r \in e.files : e.symbols[s].file = r.id
        BY <1>4, <1>7, <1>11, <4>1
      <4>3. s \in Nat \ {0} /\ s < e.nextSymbol
        BY <1>5, <1>9, <4>1
      <4>4. QED
        BY <1>7, <4>1, <4>2, <4>3
    <3>3. QED
      BY <1>7, <3>1, <3>2
  <2>2. QED
    BY <1>5, <2>1 DEF SymbolsSound
<1>14. CallsSound(e)
  BY <1>7, <1>8 DEF Sound, CallsSound
<1>15. \A s \in DOMAIN d.symbols : d.symbols[s].file \in Nat /\ d.symbols[s].file < d.nextFile
  BY <1>9 DEF Sound, SymbolsSound
<1>16. ASSUME NEW r \in d.files
       PROVE  /\ TellsSymbols(e, r, T[r.path])
              /\ TellsCalls(e, r, T[r.path])
              /\ TellsOpen(e, r, T[r.path])
  <2>1. TellsSymbols(d, r, T[r.path]) /\ TellsCalls(d, r, T[r.path]) /\ TellsOpen(d, r, T[r.path])
    BY Zenon DEF Told
  <2>2. ASSUME NEW s \in DOMAIN e.symbols, s \notin DOMAIN d.symbols
        PROVE  e.symbols[s].file # r.id
    <3>1. PICK a \in places : s = number[a]
      BY <1>7, <2>2
    <3>2. e.symbols[s].file = id[a[1]] /\ a[1] \in F
      BY <1>4, <1>7, <3>1
    <3>3. QED
      BY <1>5, <1>9, <3>2
  <2>3. InFile(e, r.id) = InFile(d, r.id)
    BY <1>7, <2>2 DEF InFile
  <2>4. {e.symbols[s] : s \in InFile(e, r.id)} = {d.symbols[s] : s \in InFile(d, r.id)}
    <3>1. \A s \in InFile(d, r.id) : e.symbols[s] = d.symbols[s]
      BY <1>7 DEF InFile
    <3>2. PICK S : S = InFile(d, r.id)
      OBVIOUS
    <3>3. QED
      BY <2>3, <3>1, <3>2
  <2>5. TellsSymbols(e, r, T[r.path])
    BY <2>1, <2>4, Zenon DEF TellsSymbols
  <2>6. \A c \in e.calls : /\ c \in d.calls /\ e.symbols[c.caller] = d.symbols[c.caller]
                           /\ e.symbols[c.callee] = d.symbols[c.callee]
    BY <1>7, <1>8 DEF Sound, CallsSound
  <2>7. \A c \in e.open : c \in d.open /\ e.symbols[c.caller] = d.symbols[c.caller]
    BY <1>7, <1>8 DEF Sound, CallsSound
  <2>8. TellsCalls(e, r, T[r.path])
    BY <2>1, <2>6 DEF TellsCalls
  <2>9. TellsOpen(e, r, T[r.path])
    BY <2>1, <2>7 DEF TellsOpen
  <2>10. QED
    BY <2>5, <2>8, <2>9
<1>17. ASSUME NEW r \in e.files, r \notin d.files
       PROVE  /\ T[r.path] \in Texts[r.path] /\ Lang[r.path] \in Languages
              /\ TellsSymbols(e, r, T[r.path])
              /\ TellsCalls(e, r, T[r.path])
              /\ TellsOpen(e, r, T[r.path])
  <2>1. PICK f \in F : r.id = id[f] /\ r.path = f
    BY <1>10, <1>17
  <2>2. \A c \in e.calls : e.symbols[c.caller].file # r.id
    BY <1>5, <1>7, <1>8, <1>9, <1>15, <2>1 DEF Sound, CallsSound
  <2>3. \A c \in e.open : e.symbols[c.caller].file # r.id
    BY <1>5, <1>7, <1>8, <1>9, <1>15, <2>1 DEF Sound, CallsSound
  <2>4. TellsSymbols(e, r, T[r.path])
    <3>1. PICK D : D = defs[f]
      OBVIOUS
    <3>2. Extracts[r.path][T[r.path]].definitions = D
      BY <2>1, <3>1 DEF News
    <3>3. ASSUME NEW n \in DOMAIN D
          PROVE  \E s \in InFile(e, r.id) : e.symbols[s].qual = D[n].qual /\ e.symbols[s].from = D[n].from
      <4>1. PICK a \in places : a = <<f, n>>
        BY <1>3, <3>1, <3>3, PlacesFinite, Zenon
      <4>2. a[1] = f /\ a[2] = n
        BY <4>1
      <4>3. number[a] \in InFile(e, r.id)
        BY <1>7, <2>1, <4>2 DEF InFile
      <4>4. e.symbols[number[a]].qual = D[n].qual /\ e.symbols[number[a]].from = D[n].from
        BY <1>7, <3>1, <4>2
      <4>5. QED
        BY <4>3, <4>4
    <3>4. ASSUME NEW s \in InFile(e, r.id)
          PROVE  \E n \in DOMAIN D : e.symbols[s].qual = D[n].qual /\ e.symbols[s].from = D[n].from
      <4>1. s \in DOMAIN e.symbols /\ e.symbols[s].file = id[f]
        BY <2>1 DEF InFile
      <4>2. s \notin DOMAIN d.symbols
        BY <1>5, <1>7, <1>9, <1>15, <4>1
      <4>3. PICK a \in places : s = number[a]
        BY <1>7, <4>1, <4>2
      <4>4. a[1] = f
        BY <1>4, <1>5, <1>7, <4>1, <4>3
      <4>5. a[2] \in DOMAIN D /\ e.symbols[s].qual = D[a[2]].qual /\ e.symbols[s].from = D[a[2]].from
        BY <1>4, <1>7, <3>1, <4>3, <4>4
      <4>6. QED
        BY <4>5
    <3>5. PICK rows, told : rows = {e.symbols[s] : s \in InFile(e, r.id)} /\ told = Range(D)
      OBVIOUS
    <3>6. /\ \A x \in rows : \E y \in told : x.qual = y.qual /\ x.from = y.from
          /\ \A y \in told : \E x \in rows : x.qual = y.qual /\ x.from = y.from
      BY <3>3, <3>4, <3>5 DEF Range
    <3>7. Marks(rows) = Marks(told)
      <4>1. ASSUME NEW m \in Marks(rows) PROVE m \in Marks(told)
        <5>1. PICK x \in rows : m = <<x.qual, x.from>>
          BY <4>1, Zenon DEF Marks
        <5>2. PICK y \in told : x.qual = y.qual /\ x.from = y.from
          BY <3>6
        <5>3. QED
          BY <5>1, <5>2, Zenon DEF Marks
      <4>2. ASSUME NEW m \in Marks(told) PROVE m \in Marks(rows)
        <5>1. PICK y \in told : m = <<y.qual, y.from>>
          BY <4>2, Zenon DEF Marks
        <5>2. PICK x \in rows : x.qual = y.qual /\ x.from = y.from
          BY <3>6
        <5>3. QED
          BY <5>1, <5>2, Zenon DEF Marks
      <4>3. QED
        BY <4>1, <4>2, Zenon
    <3>8. QED
      BY <3>2, <3>5, <3>7, Zenon DEF TellsSymbols
  <2>5. TellsCalls(e, r, T[r.path]) /\ TellsOpen(e, r, T[r.path])
    BY <2>2, <2>3, Zenon DEF TellsCalls, TellsOpen
  <2>6. QED
    BY <2>1, <2>4, <2>5 DEF News
<1>18. Told(e, T)
  <2>1. \A r \in d.files : T[r.path] \in Texts[r.path] /\ Lang[r.path] \in Languages
    BY DEF Told
  <2>2. QED
    BY <1>16, <1>17, <2>1, Zenon DEF Told
<1>19. \A r \in e.files : r \in d.files \/ (r.path \in F /\ r.hash = hash[r.path])
  BY <1>10
<1>20. QED
  BY <1>1, <1>8, <1>12, <1>13, <1>14, <1>18, <1>19, Zenon DEF Sound, Stored

LEMMA OtherTexts ==
  ASSUME NEW d, NEW T, NEW U, Told(d, T), \A r \in d.files : U[r.path] = T[r.path]
  PROVE  Told(d, U)
BY Zenon DEF Told

ParsedOf(read) == {f \in File : Parsed(f, read[f])}

(* The build stores the texts it has read.                                 *)
LEMMA FilledKeeps ==
  ASSUME NEW d, NEW T, NEW read, Sound(d), Told(d, T),
         \A f \in File : read[f] \in SomeText(f),
         \A f \in ParsedOf(read) : \A r \in d.files : r.path # f
  PROVE  LET e == Filled(d, read)
             U == [f \in File |-> IF f \in ParsedOf(read) THEN read[f] ELSE T[f]]
         IN /\ Sound(e) /\ Told(e, U)
            /\ \A r \in e.files :
                 r \in d.files \/ (r.path \in ParsedOf(read) /\ r.hash = source[r.path])
<1>1. PICK F, U, x, imports, hash :
        /\ F = ParsedOf(read) /\ hash = source
        /\ U = [f \in File |-> IF f \in F THEN read[f] ELSE T[f]]
        /\ x = [f \in F |-> Extracts[f][read[f]]]
        /\ imports = [f \in F |-> ParseImports(f, read[f])]
  OBVIOUS
<1>2. PICK defs : defs = [f \in F |-> x[f].definitions]
  OBVIOUS
<1>3. \A f \in F : /\ f \in File /\ U[f] = read[f] /\ U[f] \in Texts[f] /\ Lang[f] \in Languages
                   /\ x[f] = Extracts[f][U[f]] /\ imports[f] = ParseImports(f, read[f])
                   /\ defs[f] = Extracts[f][U[f]].definitions
  BY <1>1, <1>2 DEF ParsedOf, Parsed, SomeText
<1>4. \A f \in F : Honest(imports[f], U[f])
  BY <1>3, ImportsHonest
<1>5. Told(d, U)
  <2>1. \A r \in d.files : U[r.path] = T[r.path]
    BY <1>1 DEF Sound, FilesSound
  <2>2. QED
    BY <2>1, OtherTexts
<1>6. News(d, U, F, defs)
  BY <1>1, <1>3 DEF News
<1>7. PICK stored : stored = Insert(d, F, defs, hash)
  OBVIOUS
<1>8. /\ Sound(stored) /\ Told(stored, U)
      /\ \A r \in stored.files : r \in d.files \/ (r.path \in F /\ r.hash = hash[r.path])
  <2>1. Stored(d, U, F, hash, stored)
    BY <1>5, <1>6, <1>7, InsertKeeps, Zenon
  <2>2. QED
    BY <2>1, Zenon DEF Stored
<1>9. PICK called : called = Calls(stored, F, x, imports)
  OBVIOUS
<1>10. Kept(stored, U, called)
  BY <1>3, <1>4, <1>8, <1>9, CallsKeep, Zenon
<1>11. PICK edged : edged = Edges(called, F, x, imports)
  OBVIOUS
<1>12. Kept(called, U, edged)
  <2>1. Sound(called) /\ Told(called, U)
    BY <1>10, Zenon DEF Kept
  <2>2. QED
    BY <1>11, <2>1, EdgesKeep, Zenon
<1>13. Kept(edged, U, PropagateEnums(edged, read))
  BY <1>12, PropagateKeeps, Zenon DEF Kept
<1>14. Filled(d, read) = PropagateEnums(edged, read)
  BY <1>1, <1>2, <1>7, <1>9, <1>11, Zenon DEF Filled, ParsedOf
<1>15. QED
  BY <1>1, <1>8, <1>10, <1>12, <1>13, <1>14, Zenon DEF Kept

(* So does the refresh of one file, which leaves the others alone.         *)
LEMMA RefreshedKeeps ==
  ASSUME NEW d, NEW T, NEW f, NEW t, Sound(d), Told(d, T),
         f \in File, t \in Texts[f], Lang[f] \in Languages
  PROVE  LET e == Refreshed(d, f, Extracts[f][t], ParseImports(f, t))
             U == [g \in File |-> IF g = f THEN t ELSE T[g]]
         IN /\ Sound(e) /\ Told(e, U)
            /\ \A r \in e.files :
                 (r \in d.files /\ r.path # f) \/ (r.path = f /\ r.hash = source[f])
<1>1. PICK U, x, imports, hash :
        /\ hash = source /\ x = Extracts[f][t] /\ imports = ParseImports(f, t)
        /\ U = [g \in File |-> IF g = f THEN t ELSE T[g]]
  OBVIOUS
<1>2. PICK left : left = Forget(d, f)
  OBVIOUS
<1>3. Sound(left) /\ Told(left, T) /\ left.files = {r \in d.files : r.path # f}
  <2>1. Forgot(d, T, f, left)
    BY <1>2, ForgetKeeps, Zenon
  <2>2. QED
    BY <2>1, Zenon DEF Forgot
<1>4. Told(left, U)
  <2>1. \A r \in left.files : U[r.path] = T[r.path]
    BY <1>1, <1>3 DEF Sound, FilesSound
  <2>2. QED
    BY <1>3, <2>1, OtherTexts
<1>5. U[f] = t /\ Honest(imports, U[f])
  BY <1>1, ImportsHonest
<1>6. PICK F, defs, xs, is :
        /\ F = {f} /\ defs = [g \in {f} |-> x.definitions]
        /\ xs = [g \in {f} |-> x] /\ is = [g \in {f} |-> imports]
  OBVIOUS
<1>7. News(left, U, F, defs)
  BY <1>1, <1>3, <1>5, <1>6 DEF News
<1>8. PICK stored : stored = Insert(left, F, defs, hash)
  OBVIOUS
<1>9. /\ Sound(stored) /\ Told(stored, U)
      /\ \A r \in stored.files : r \in left.files \/ (r.path \in F /\ r.hash = hash[r.path])
  <2>1. Stored(left, U, F, hash, stored)
    BY <1>3, <1>4, <1>7, <1>8, InsertKeeps, Zenon
  <2>2. QED
    BY <2>1, Zenon DEF Stored
<1>10. PICK called : called = Calls(stored, F, xs, is)
  OBVIOUS
<1>11. Kept(stored, U, called)
  <2>1. \A g \in F : /\ g \in File /\ U[g] \in Texts[g] /\ Lang[g] \in Languages
                     /\ xs[g] = Extracts[g][U[g]]
                     /\ Honest(is[g], U[g])
    BY <1>1, <1>5, <1>6
  <2>2. QED
    BY <1>9, <1>10, <2>1, CallsKeep, Zenon
<1>12. Kept(called, U, Promote(called, f, x.definitions, imports))
  <2>1. Sound(called) /\ Told(called, U)
    BY <1>11, Zenon DEF Kept
  <2>2. QED
    BY <1>5, <2>1, PromoteKeeps, Zenon
<1>13. Refreshed(d, f, Extracts[f][t], ParseImports(f, t))
       = Promote(called, f, x.definitions, imports)
  BY <1>1, <1>2, <1>6, <1>8, <1>10, Zenon DEF Refreshed
<1>14. \A r \in called.files : (r \in d.files /\ r.path # f) \/ (r.path = f /\ r.hash = source[f])
  BY <1>1, <1>3, <1>6, <1>9, <1>11 DEF Kept
<1>15. QED
  BY <1>1, <1>11, <1>12, <1>13, <1>14, Zenon DEF Kept

-----------------------------------------------------------------------------
(* The invariant.                                                          *)

LEMMA GraphInit == Init => GraphInv
<1> SUFFICES ASSUME Init PROVE GraphInv
  OBVIOUS
<1>1. DOMAIN source = File /\ \A f \in File : source[f] \in SomeText(f)
  BY DEF Init, SomeText
<1>2. DOMAIN job = Proc /\ \A p \in Proc : job[p] = None
  BY DEF Init
<1>3. db = None
  BY DEF Init
<1>4. QED
  BY <1>1, <1>2, <1>3 DEF GraphInv, Typed, Unbuilt

Assigned == [File -> AllTexts \cup {None}]

(* One process's job changes, to one that has nothing to store.            *)
LEMMA JobStep ==
  ASSUME Typed, NEW p \in Proc, NEW j, job' = [job EXCEPT ![p] = j], UNCHANGED source,
         j = None \/ IsJob(j)
  PROVE  /\ Typed'
         /\ (\A q \in Proc : job'[q] = IF q = p THEN j ELSE job[q])
<1>1. DOMAIN job' = Proc /\ \A q \in Proc : job'[q] = IF q = p THEN j ELSE job[q]
  BY DEF Typed
<1>2. \A q \in Proc : job'[q] = None \/ IsJob(job'[q])
  BY <1>1 DEF Typed
<1>3. DOMAIN source' = File /\ \A f \in File : source'[f] \in SomeText(f)
  BY DEF Typed
<1>4. QED
  BY <1>1, <1>2, <1>3 DEF Typed

Idle(j) == j = None \/ (IsJob(j) /\ j.kind = "refresh" /\ j.read = <<>>)

(* A job that has nothing to store, and no change to the database.         *)
LEMMA IdleStep ==
  ASSUME GraphInv, NEW p \in Proc, NEW j, Idle(j),
         job' = [job EXCEPT ![p] = j], UNCHANGED <<source, db, raced>>
  PROVE  GraphInv'
<1>1. Typed' /\ (\A q \in Proc : job'[q] = IF q = p THEN j ELSE job[q])
  BY JobStep DEF GraphInv, Idle
<1>2. CASE Unbuilt
  <2>1. Unbuilt'
    BY <1>2 DEF Unbuilt
  <2>2. QED
    BY <1>1, <2>1 DEF GraphInv
<1>3. CASE Built
  <2>1. Built'
    BY <1>3 DEF Built, Hashed
  <2>2. QED
    BY <1>1, <2>1 DEF GraphInv
<1>4. QED
  BY <1>2, <1>3 DEF GraphInv

(* The tables are emptied.                                                 *)
LEMMA EmptyStep ==
  ASSUME GraphInv, NEW p \in Proc, job' = StartFull(p), db' = Empty, UNCHANGED source
  PROVE  GraphInv'
<1>1. PICK j : j = [kind |-> "full", todo |-> {}, read |-> source]
  OBVIOUS
<1>2. job' = [job EXCEPT ![p] = j]
  BY <1>1 DEF StartFull
<1>3. IsJob(j)
  BY <1>1 DEF IsJob, IsFull, GraphInv, Typed
<1>4. Typed'
  BY <1>2, <1>3, JobStep DEF GraphInv
<1>5. PICK T \in Assigned : T = [f \in File |-> None]
  BY DEF Assigned
<1>6. PICK d : d = Empty
  OBVIOUS
<1>7. Sound(d) /\ Told(d, T) /\ d.files = {}
  BY <1>6, EmptyIsSound DEF Empty
<1>8. db' = d
  BY <1>6 DEF Empty
<1>9. Sound(db') /\ Told(db', T) /\ Hashed(db, T)'
  BY <1>7, <1>8 DEF Hashed
<1>10. Built'
  BY <1>5, <1>9 DEF Built, Assigned
<1>11. QED
  BY <1>4, <1>10 DEF GraphInv

LEMMA FinishStep ==
  ASSUME GraphInv, NEW p \in Proc, FinishFull(p)
  PROVE  GraphInv'
<1>1. PICK read : read = job[p].read
  OBVIOUS
<1>2. IsFull(job[p])
  BY DEF FinishFull, GraphInv, Typed, IsJob, IsRefresh
<1>3. \A f \in File : read[f] \in SomeText(f)
  BY <1>1, <1>2 DEF IsFull
<1>4. CASE BuildFails(read)
  <2>1. UNCHANGED <<source, db, raced>> /\ job' = [job EXCEPT ![p] = None]
    BY <1>1, <1>4 DEF FinishFull
  <2>2. QED
    BY <2>1, IdleStep DEF Idle
<1>5. CASE ~BuildFails(read)
  <2>1. PICK d, e : d = db /\ e = Filled(d, read)
    OBVIOUS
  <2>2. /\ db' = e /\ raced' = raced \cup Raced(p) /\ UNCHANGED source
        /\ job' = [job EXCEPT ![p] = None]
    BY <1>1, <1>5, <2>1 DEF FinishFull
  <2>3. Typed'
    BY <2>2, JobStep DEF GraphInv
  <2>4. Built
    <3>1. db # None
      BY <1>5 DEF BuildFails
    <3>2. QED
      BY <3>1 DEF GraphInv, Unbuilt
  <2>5. PICK T \in Assigned : Told(d, T) /\ Hashed(d, T)
    BY <2>1, <2>4 DEF Built, Assigned
  <2>6. Sound(d)
    BY <2>1, <2>4 DEF Built
  <2>7. \A f \in ParsedOf(read) : \A r \in d.files : r.path # f
    <3>1. \A f \in ParsedOf(read) : FileId(d, f) = 0
      BY <1>5, <2>1 DEF BuildFails, ParsedOf
    <3>2. QED
      BY <2>6, <3>1, FileIdIs DEF Sound
  <2>8. PICK U : U = [f \in File |-> IF f \in ParsedOf(read) THEN read[f] ELSE T[f]]
    OBVIOUS
  <2>9. /\ Sound(e) /\ Told(e, U)
        /\ \A r \in e.files :
             r \in d.files \/ (r.path \in ParsedOf(read) /\ r.hash = source[r.path])
    BY <1>3, <2>1, <2>5, <2>6, <2>7, <2>8, FilledKeeps
  <2>10. U \in Assigned
    <3>1. \A f \in File : U[f] \in AllTexts \cup {None}
      BY <1>3, <2>5, <2>8 DEF Assigned, SomeText, AllTexts
    <3>2. QED
      BY <2>8, <3>1 DEF Assigned
  <2>11. ASSUME NEW r \in e.files, r.path \notin raced' PROVE r.hash = U[r.path]
    <3>1. r.path \in File
      BY <2>9 DEF Sound, FilesSound
    <3>2. r.path \notin raced /\ source[r.path] = read[r.path]
      BY <1>1, <2>2, <2>11, <3>1 DEF Raced
    <3>3. CASE r \in d.files
      <4>1. r.hash = T[r.path] /\ r.path \notin ParsedOf(read)
        BY <2>5, <2>7, <3>2, <3>3 DEF Hashed
      <4>2. QED
        BY <2>8, <3>1, <4>1
    <3>4. CASE r.path \in ParsedOf(read) /\ r.hash = source[r.path]
      BY <2>8, <3>1, <3>2, <3>4
    <3>5. QED
      BY <2>9, <3>3, <3>4
  <2>12. Sound(db') /\ Told(db', U) /\ Hashed(db, U)'
    BY <2>2, <2>9, <2>11 DEF Hashed
  <2>13. Built'
    BY <2>10, <2>12 DEF Built, Assigned
  <2>14. QED
    BY <2>3, <2>13 DEF GraphInv
<1>6. QED
  BY <1>4, <1>5

LEMMA StoreStep ==
  ASSUME GraphInv, NEW p \in Proc, StoreFile(p)
  PROVE  GraphInv'
<1>1. job[p] # None /\ job[p].kind = "refresh" /\ job[p].read # <<>> /\ IsJob(job[p])
  BY DEF StoreFile, Refreshing, GraphInv, Typed
<1>2. job[p].todo \subseteq File
  BY <1>1 DEF IsJob, IsFull, IsRefresh
<1>3. PICK f \in File : \E t \in SomeText(f) : job[p].read = [g \in {f} |-> t]
  BY <1>1 DEF IsJob, IsFull, IsRefresh
<1>4. PICK t \in SomeText(f) : job[p].read = [g \in {f} |-> t]
  BY <1>3
<1>5. f = (CHOOSE g \in DOMAIN job[p].read : TRUE) /\ job[p].read[f] = t
  BY <1>4
<1>6. PICK fails \in BOOLEAN :
        fails = (\/ db = None
                 \/ Parsed(f, t) /\ (Clash(Extracts[f][t]) \/ source[f] = None))
  BY Zenon
<1>7. /\ UNCHANGED source
      /\ IF fails THEN UNCHANGED <<db, raced>> /\ job' = [job EXCEPT ![p] = None]
         ELSE /\ db' = IF Parsed(f, t) THEN Refreshed(db, f, Extracts[f][t], ParseImports(f, t))
                       ELSE Forget(db, f)
              /\ raced' = (raced \ {f}) \cup (IF source[f] = t THEN {} ELSE {f})
              /\ job' = [job EXCEPT ![p].read = <<>>]
  BY <1>5, <1>6, Zenon DEF StoreFile
<1>8. CASE fails
  BY <1>7, <1>8, IdleStep DEF Idle
<1>9. CASE ~fails
  <2>1. PICK d, e : d = db /\ e = db'
    OBVIOUS
  <2>2. PICK j : j = [kind |-> "refresh", todo |-> job[p].todo, read |-> <<>>]
    OBVIOUS
  <2>3. job' = [job EXCEPT ![p] = j] /\ IsJob(j)
    <3>1. job' = [job EXCEPT ![p].read = <<>>]
      BY <1>7, <1>9
    <3>2. j = [job[p] EXCEPT !.read = <<>>]
      BY <1>1, <2>2 DEF IsJob
    <3>3. job' = [job EXCEPT ![p] = j]
      BY <3>1, <3>2
    <3>4. IsJob(j)
      BY <1>2, <2>2 DEF IsJob, IsRefresh
    <3>5. QED
      BY <3>3, <3>4
  <2>4. Typed'
    BY <1>7, <2>3, JobStep DEF GraphInv
  <2>5. Built
    BY <1>6, <1>9, Zenon DEF GraphInv, Unbuilt
  <2>6. PICK T \in Assigned : Told(d, T) /\ Hashed(d, T)
    BY <2>1, <2>5 DEF Built, Assigned
  <2>7. Sound(d)
    BY <2>1, <2>5 DEF Built
  <2>8. PICK U : U = [g \in File |-> IF g = f THEN t ELSE T[g]]
    OBVIOUS
  <2>9. /\ Sound(e) /\ Told(e, U)
        /\ \A r \in e.files : (r \in d.files /\ r.path # f) \/ (r.path = f /\ r.hash = source[f])
    <3>1. CASE Parsed(f, t)
      <4>1. t \in Texts[f] /\ Lang[f] \in Languages
        BY <3>1 DEF Parsed, SomeText
      <4>2. e = Refreshed(d, f, Extracts[f][t], ParseImports(f, t))
        BY <1>7, <1>9, <2>1, <3>1
      <4>3. QED
        BY <2>6, <2>7, <2>8, <4>1, <4>2, RefreshedKeeps
    <3>2. CASE ~Parsed(f, t)
      <4>1. e = Forget(d, f)
        BY <1>7, <1>9, <2>1, <3>2
      <4>2. Forgot(d, T, f, e)
        BY <2>6, <2>7, <4>1, ForgetKeeps, Zenon
      <4>3. Sound(e) /\ Told(e, T) /\ e.files = {r \in d.files : r.path # f}
        BY <4>2, Zenon DEF Forgot
      <4>4. \A r \in e.files : U[r.path] = T[r.path]
        BY <2>8, <4>3 DEF Sound, FilesSound
      <4>5. Told(e, U)
        BY <4>3, <4>4, OtherTexts
      <4>6. QED
        BY <4>3, <4>5
    <3>3. QED
      BY <3>1, <3>2
  <2>10. U \in Assigned
    <3>1. \A g \in File : U[g] \in AllTexts \cup {None}
      BY <2>6, <2>8 DEF Assigned, SomeText, AllTexts
    <3>2. QED
      BY <2>8, <3>1 DEF Assigned
  <2>11. ASSUME NEW r \in e.files, r.path \notin raced' PROVE r.hash = U[r.path]
    <3>1. r.path \in File
      BY <2>9 DEF Sound, FilesSound
    <3>2. raced' = (raced \ {f}) \cup (IF source[f] = t THEN {} ELSE {f})
      BY <1>7, <1>9
    <3>3. CASE r \in d.files /\ r.path # f
      BY <2>6, <2>8, <2>11, <3>1, <3>2, <3>3 DEF Hashed
    <3>4. CASE r.path = f /\ r.hash = source[f]
      BY <2>8, <2>11, <3>1, <3>2, <3>4
    <3>5. QED
      BY <2>9, <3>3, <3>4
  <2>12. Sound(db') /\ Told(db', U) /\ Hashed(db, U)'
    BY <2>1, <2>9, <2>11 DEF Hashed
  <2>13. Built'
    BY <2>10, <2>12 DEF Built, Assigned
  <2>14. QED
    BY <2>4, <2>13 DEF GraphInv
<1>10. QED
  BY <1>8, <1>9

LEMMA GraphStep == GraphInv /\ [Next]_vars => GraphInv'
<1> SUFFICES ASSUME GraphInv, [Next]_vars PROVE GraphInv'
  OBVIOUS
<1>1. ASSUME NEW p \in Proc, UpdateProject(p) PROVE GraphInv'
  BY <1>1, EmptyStep DEF UpdateProject
<1>2. ASSUME NEW p \in Proc, FinishFull(p) PROVE GraphInv'
  BY <1>2, FinishStep
<1>3. ASSUME NEW p \in Proc, StoreFile(p) PROVE GraphInv'
  BY <1>3, StoreStep
<1>4. ASSUME NEW p \in Proc, EndRefresh(p) PROVE GraphInv'
  BY <1>4, IdleStep DEF EndRefresh, Idle
<1>5. ASSUME NEW p \in Proc, Kill(p) PROVE GraphInv'
  BY <1>5, IdleStep DEF Kill, Idle
<1>6. ASSUME NEW p \in Proc, NEW S \in SUBSET File, UpdateFiles(p, S) PROVE GraphInv'
  <2>1. CASE Few(S)
    <3>1. PICK j : j = [kind |-> "refresh", todo |-> S, read |-> <<>>]
      OBVIOUS
    <3>2. Idle(j)
      BY <3>1 DEF Idle, IsJob, IsRefresh
    <3>3. job' = [job EXCEPT ![p] = j] /\ UNCHANGED <<source, db, raced>>
      BY <1>6, <2>1, <3>1 DEF UpdateFiles
    <3>4. QED
      BY <3>2, <3>3, IdleStep
  <2>2. CASE ~Few(S)
    BY <1>6, <2>2, EmptyStep DEF UpdateFiles
  <2>3. QED
    BY <2>1, <2>2
<1>7. ASSUME NEW p \in Proc, NEW f \in File, ReadFile(p, f) PROVE GraphInv'
  <2>1. job[p] # None /\ IsJob(job[p]) /\ job[p].kind = "refresh" /\ job[p].todo \subseteq File
    BY <1>7 DEF ReadFile, Refreshing, GraphInv, Typed, IsJob, IsFull, IsRefresh
  <2>2. PICK todo, read : /\ todo = job[p].todo \ {f}
                          /\ read = IF db = None THEN <<>> ELSE [g \in {f} |-> source[f]]
    OBVIOUS
  <2>3. PICK j : j = [kind |-> "refresh", todo |-> todo, read |-> read]
    OBVIOUS
  <2>4. job' = [job EXCEPT ![p] = j] /\ UNCHANGED <<source, db, raced>>
    <3>1. job' = [job EXCEPT ![p] = [job[p] EXCEPT !.todo = todo, !.read = read]]
      BY <1>7, <2>2 DEF ReadFile, GraphInv, Typed
    <3>2. j = [job[p] EXCEPT !.todo = todo, !.read = read]
      <4>1. PICK old : old = job[p]
        OBVIOUS
      <4>2. old = [kind |-> "refresh", todo |-> old.todo, read |-> old.read]
        BY <2>1, <4>1 DEF IsJob
      <4>3. PICK mid : mid = [old EXCEPT !.todo = todo]
        OBVIOUS
      <4>4. mid = [kind |-> "refresh", todo |-> todo, read |-> old.read]
        BY <4>2, <4>3
      <4>5. j = [mid EXCEPT !.read = read]
        BY <2>3, <4>4
      <4>6. QED
        BY <4>1, <4>3, <4>5
    <3>3. QED
      BY <1>7, <3>1, <3>2 DEF ReadFile
  <2>5. source[f] \in SomeText(f)
    BY DEF GraphInv, Typed
  <2>6. IsJob(j)
    BY <2>1, <2>2, <2>3, <2>5 DEF IsJob, IsRefresh
  <2>7. CASE db = None
    BY <2>2, <2>3, <2>4, <2>6, <2>7, IdleStep DEF Idle
  <2>8. CASE db # None
    <3>1. Built
      BY <2>8 DEF GraphInv, Unbuilt
    <3>2. Built'
      BY <2>4, <3>1 DEF Built, Hashed
    <3>3. Typed'
      BY <2>4, <2>6, JobStep DEF GraphInv
    <3>4. QED
      BY <3>2, <3>3 DEF GraphInv
  <2>9. QED
    BY <2>7, <2>8
<1>8. ASSUME NEW f \in File, Edit(f) PROVE GraphInv'
  <2>1. Typed'
    BY <1>8 DEF Edit, GraphInv, Typed, SomeText
  <2>2. Unbuilt => Unbuilt'
    BY <1>8 DEF Edit, Unbuilt
  <2>3. Built => Built'
    BY <1>8 DEF Edit, Built, Hashed
  <2>4. QED
    BY <2>1, <2>2, <2>3 DEF GraphInv
<1>9. ASSUME NEW p \in Proc, KillDropping(p) PROVE GraphInv'
  BY <1>9 DEF KillDropping, GraphInv, Typed, Unbuilt
<1>10. CASE UNCHANGED vars
  BY <1>10 DEF vars, GraphInv, Typed, Unbuilt, Built, Hashed
<1>11. QED
  BY <1>1, <1>2, <1>3, <1>4, <1>5, <1>6, <1>7, <1>8, <1>9, <1>10 DEF Next

(* Whatever builds, refreshes, edits and kills come in whatever order: what*)
(* is stored of a file is what one text of it says, the one it was parsed  *)
(* from, and refers to rows that are there.                                *)
THEOREM GraphTells == Spec => []GraphInv
<1>1. Init => GraphInv
  BY GraphInit
<1>2. GraphInv /\ [Next]_vars => GraphInv'
  BY GraphStep
<1>3. QED
  BY <1>1, <1>2, PTL DEF Spec

(* Every call that lexi trace or a prompt shows was written: some text of  *)
(* the caller's file, the one its symbols are from, has it on that line    *)
(* (build_symbol_graph, refresh_file; call_context).                       *)
THEOREM CallsAreWritten == Spec => []CallsWereWritten
<1>1. GraphInv => CallsWereWritten
  <2> SUFFICES ASSUME GraphInv, db # None PROVE CallsWereWritten
    BY DEF CallsWereWritten
  <2>1. PICK d : d = db
    OBVIOUS
  <2>2. Sound(d) /\ \E T : Told(d, T)
    BY <2>1 DEF GraphInv, Unbuilt, Built
  <2>3. PICK T : Told(d, T)
    BY <2>2
  <2>4. QED
    BY <2>1, <2>2, <2>3, ShownIsWritten, Zenon DEF CallsWereWritten
<1>2. QED
  BY <1>1, GraphTells, PTL

(* What lexi trace shows of a file without a warning (_detect_stale) is    *)
(* what is in it, unless it was edited between its parse and its hash.     *)
THEOREM UnwarnedAreCurrent == Spec => []UnwarnedIsCurrent
<1>1. GraphInv => UnwarnedIsCurrent
  <2> SUFFICES ASSUME GraphInv, db # None, NEW f \in Present \ raced,
                      FileId(db, f) # 0, ~Stale(db, f)
               PROVE  Stores(db, f, source[f])
    BY DEF UnwarnedIsCurrent
  <2>1. PICK d : d = db
    OBVIOUS
  <2>2. Sound(d) /\ \E T : Told(d, T) /\ Hashed(d, T)
    BY <2>1 DEF GraphInv, Unbuilt, Built
  <2>3. PICK T : Told(d, T) /\ Hashed(d, T)
    BY <2>2
  <2>4. PICK r \in d.files : r.path = f /\ r.id = FileId(d, f)
    BY <2>1, <2>2, FileIdIs DEF Sound
  <2>5. source[f] # None
    BY DEF Present
  <2>6. PICK q \in d.files : q.path = f /\ q.hash = source[f]
    BY <2>1, <2>4, <2>5 DEF Stale
  <2>7. q = r
    BY <2>2, <2>4, <2>6 DEF Sound, FilesSound
  <2>8. T[f] = source[f]
    BY <2>3, <2>4, <2>6, <2>7 DEF Hashed
  <2>9. TellsSymbols(d, r, T[r.path])
    BY <2>3, Zenon DEF Told
  <2>10. PICK t : t = source[f]
    OBVIOUS
  <2>11. Marks({d.symbols[s] : s \in InFile(d, FileId(d, f))}) = Marks(Range(Extracts[f][t].definitions))
    BY <2>4, <2>8, <2>9, <2>10, Zenon DEF TellsSymbols
  <2>12. Stores(d, f, t)
    BY <2>11, Zenon DEF Stores, Marks
  <2>13. QED
    BY <2>1, <2>10, <2>12, Zenon
<1>2. QED
  BY <1>1, GraphTells, PTL
=============================================================================
