-------------------------------- MODULE Analyser --------------------------------
(***************************************************************************)
(* A semantic analysis: one external definition of the source after the    *)
(* other (analyzeExtDefList), and what its verdict is worth.               *)
(***************************************************************************)
EXTENDS TypeCheck, Functions, FiniteSets

CONSTANT Sources   \* the SPL programs considered

VARIABLES source,  \* the program
          def,     \* the external definition analyzeExtDefList has got to
          analysis \* the analyser's state

anVars == <<source, def, analysis>>

AnInit == source \in Sources /\ def = 1 /\ analysis = Fresh

AnalyzeExtDef ==
  /\ def \in DOMAIN source /\ analysis.defined
  /\ analysis' = ExtDef(source[def], analysis)
  /\ def' = def + 1
  /\ UNCHANGED source

AnSpec == AnInit /\ [][AnalyzeExtDef]_anVars

Over == def = Len(source) + 1
Accepted == Over /\ analysis.defined /\ analysis.errors = << >>

-------------------------------------------------------------------------------
(* What a program says, in reading order, independently of the analyser:   *)
(* the declarations and the uses of names.                                 *)
Event(what, name, n) == [what |-> what, name |-> name, n |-> n]

RECURSIVE Says(_), SaysAll(_)
SaysAll(trees) == IF trees = << >> THEN << >> ELSE Says(Head(trees)) \o SaysAll(Tail(trees))
Says(t) ==
  CASE t.k = "ID"   -> <<Event("use", t.id, 0)>>
    [] t.k = "CALL" -> SaysAll(t.sub) \o <<Event("call", t.id, Len(t.sub))>>
    [] t.k = "VAR"  -> <<Event("variable", t.id, 0)>>
    [] t.k = "STRUCTDEF" -> <<Event("structure", t.id, 0)>> \o SaysAll(t.sub)
    [] t.k = "STRUCTREF" -> <<Event("struct", t.id, 0)>>
    [] t.k = "FUN"  -> Says(t.sub[1]) \o <<Event("function", t.id, t.n)>> \o SaysAll(Tail(t.sub))
    [] OTHER        -> SaysAll(t.sub)

Declarations == {"variable", "function", "structure"}
Built == <<Event("function", "read", 0), Event("function", "write", 1)>>

(* The event that declared the name of event i first, if any.              *)
Before(evs, i) == {j \in 1 .. i - 1 : evs[j].what \in Declarations /\ evs[j].name = evs[i].name}
First(evs, i) == evs[CHOOSE j \in Before(evs, i) : \A k \in Before(evs, i) : j <= k]

(* The message a misuse of a name calls for, 0 for a right use.            *)
Misuse(evs, i) ==
  LET e == evs[i]
      known == Before(evs, i) # {}
  IN CASE e.what = "use"  /\ ~known -> 1
       [] e.what = "call" /\ ~known -> 2
       [] e.what = "call" /\ known /\ First(evs, i).what # "function" -> 11
       [] e.what = "variable"  /\ known -> 3
       [] e.what = "function"  /\ known -> 4
       [] e.what = "structure" /\ known -> 15
       [] OTHER -> 0

Events(P) == Built \o SaysAll(P)
Misuses(P, n) == {i \in DOMAIN Events(P) : Misuse(Events(P), i) = n}

-------------------------------------------------------------------------------
(* The types of a program whose names are used rightly, by the table before*)
(* analyzeExp (NodeAnalyser.hpp:443): logic and relations take integers,   *)
(* arithmetic two values of one type, and what is assigned to is a place.  *)
(* A type is a base and a number of dimensions; Ill stands for none.       *)
Shape(base, dims) == [base |-> base, dims |-> dims]
Ill == Shape("", 0)
Integer == Shape("int", 0)
Logical == {"AND", "OR", "NOT"} \cup Relations
RECURSIVE Place(_)
Place(e) == e.k \in {"ID", "INDEX", "DOT"} \/ (e.k = "PAREN" /\ Place(e.sub[1]))

RECURSIVE Subtrees(_)
Subtrees(t) == {t} \cup UNION {Subtrees(t.sub[i]) : i \in DOMAIN t.sub}
Nodes(P) == UNION {Subtrees(P[i]) : i \in DOMAIN P}

SpecBase(s) == IF s.k = "TYPE" THEN s.id ELSE "struct " \o s.id
RECURSIVE DeclaredName(_), Dims(_)
DeclaredName(v) == IF v.k = "VAR" THEN v.id ELSE DeclaredName(v.sub[1])
Dims(v) == IF v.k = "VAR" THEN 0 ELSE 1 + Dims(v.sub[1])

(* The declarators a specifier stands before, in a definition of any kind. *)
Declarators(d) ==
  CASE d.k = "EXTVARS" -> Range(Tail(d.sub))
    [] d.k = "DEF"     -> {dec.sub[1] : dec \in Range(Tail(d.sub))}
    [] d.k = "PARAM"   -> {d.sub[2]}
    [] OTHER           -> {}
ShapeOfName(P, x) ==
  LET d == CHOOSE t \in Nodes(P) : \E v \in Declarators(t) : DeclaredName(v) = x
      v == CHOOSE w \in Declarators(d) : DeclaredName(w) = x
  IN Shape(SpecBase(d.sub[1]), Dims(v))

Functions_(P) == {t \in Nodes(P) : t.k = "FUN"}
Structures(P) == {t \in Nodes(P) : t.k = "STRUCTDEF"}
FieldShape(P, base, x) ==
  LET fields == UNION {{[v |-> v, s |-> d.sub[1]] : v \in Declarators(d)} :
                         d \in UNION {Range(t.sub) : t \in {u \in Structures(P) : SpecBase(u) = base}}}
      named == {f \in fields : DeclaredName(f.v) = x}
  IN IF named = {} THEN Ill
     ELSE LET f == CHOOSE g \in named : TRUE IN Shape(SpecBase(f.s), Dims(f.v))

RECURSIVE ShapeOf(_, _)
ArgShapes(P, f) ==
  IF f = "write" THEN <<Integer>>
  ELSE IF f = "read" THEN << >>
  ELSE LET d == CHOOSE t \in Functions_(P) : t.id = f
       IN [i \in DOMAIN Params(d) |-> ShapeOfName(P, DeclaredName(Params(d)[i].sub[2]))]
ResultShape(P, f) ==
  IF f \in {"read", "write"} THEN Integer
  ELSE Shape(SpecBase((CHOOSE t \in Functions_(P) : t.id = f).sub[1]), 0)

ShapeOf(P, e) ==
  LET s == [i \in DOMAIN e.sub |-> ShapeOf(P, e.sub[i])]
  IN IF \E i \in DOMAIN s : s[i] = Ill THEN Ill
     ELSE CASE e.k = "INT"   -> Integer
            [] e.k = "FLOAT" -> Shape("float", 0)
            [] e.k = "CHAR"  -> Shape("char", 0)
            [] e.k = "ID"    -> ShapeOfName(P, e.id)
            [] e.k \in {"NEG", "PAREN"} -> s[1]
            [] e.k = "ASSIGN" -> IF s[1] = s[2] /\ Place(e.sub[1]) THEN Integer ELSE Ill
            [] e.k \in Arithmetic -> IF s[1] = s[2] THEN s[1] ELSE Ill
            [] e.k \in Logical -> IF Range(s) = {Integer} THEN Integer ELSE Ill
            [] e.k = "CALL"  -> IF s = ArgShapes(P, e.id) THEN ResultShape(P, e.id) ELSE Ill
            [] e.k = "INDEX" -> IF s[1].dims > 0 /\ s[2] = Integer
                                THEN Shape(s[1].base, s[1].dims - 1) ELSE Ill
            [] e.k = "DOT"   -> IF s[1].dims = 0 THEN FieldShape(P, s[1].base, e.id) ELSE Ill

(* Where an expression stands by itself, and what is returned where.       *)
Outermost(P) ==
  UNION {CASE t.k = "EXPS" -> {t.sub[1]}
           [] t.k = "DEC" /\ Len(t.sub) = 2 -> {t.sub[2]}
           [] t.k \in {"IF", "IFELSE", "WHILE", "RETURN"} -> {t.sub[1]}
           [] OTHER -> {} : t \in Nodes(P)}
ReturnsRight(P) ==
  \A d \in Functions_(P) : \A r \in {t \in Subtrees(Body(d)) : t.k = "RETURN"} :
     ShapeOf(P, r.sub[1]) = Shape(SpecBase(d.sub[1]), 0)

Initialized(P) == {t \in Nodes(P) : t.k = "DEC" /\ Len(t.sub) = 2}
DeclaredShape(P, d) == ShapeOfName(P, DeclaredName(d.sub[1]))

NamesRight(P) == \A i \in DOMAIN Events(P) : Misuse(Events(P), i) = 0
TypesRight(P) ==
  /\ \A e \in Outermost(P) : ShapeOf(P, e) # Ill
  /\ \A d \in Initialized(P) : ShapeOf(P, d.sub[2]) = DeclaredShape(P, d)
  /\ ReturnsRight(P)
Right(P) == NamesRight(P) /\ TypesRight(P)

(* Where the analyser asks for less than the table does: logic and relations*)
(* of values that are no integers, an assignment to an operation or a call,*)
(* an initializer of another type.                                         *)
NoLapse(P) ==
  /\ \A t \in Nodes(P) :
        /\ t.k \in Logical => \A i \in DOMAIN t.sub : ShapeOf(P, t.sub[i]) \in {Integer, Ill}
        /\ t.k = "ASSIGN" => Place(t.sub[1]) \/ t.sub[1].k \in Literals
  /\ \A d \in Initialized(P) : ShapeOf(P, d.sub[2]) \in {DeclaredShape(P, d), Ill}

-------------------------------------------------------------------------------
(* A structure is declared before it is named.                             *)
NamesNoUnknownStruct(P) ==
  \A i \in DOMAIN Events(P) : Events(P)[i].what = "struct" => Before(Events(P), i) # {}

(* The analyser follows no null pointer in a program that names the        *)
(* structures it has, and its verdict is worth this: no program that is    *)
(* right gets a message; in one without a message every name is declared   *)
(* before it is used, once, as what it is used for, and every expression,  *)
(* call and return has its type, unless at one of the lapses.              *)
AcceptsTheTyped ==
  NamesNoUnknownStruct(source) =>
    /\ analysis.defined
    /\ Over /\ Right(source) => Accepted
    /\ Accepted => NamesRight(source) /\ (NoLapse(source) => TypesRight(source))

(* Going on after an error neither hides a later misuse of a name nor      *)
(* makes one up: as many messages of each kind as there are misuses.  Only *)
(* after a second definition of a structure, whose members are skipped, is *)
(* that not so.                                                            *)
ReportsEachMisuse ==
  Over /\ analysis.defined /\ NamesNoUnknownStruct(source) /\ Misuses(source, 15) = {} =>
     \A n \in {1, 2, 3, 4, 11} :
        Cardinality({i \in DOMAIN analysis.errors : analysis.errors[i] = n})
          = Cardinality(Misuses(source, n))

(* A name keeps the type of its first declaration, whatever follows.       *)
FirstDeclarationStands ==
  [][\A x \in DOMAIN analysis.symbolTable \ {""} :
        analysis'.symbolTable[x] = analysis.symbolTable[x]]_anVars
================================================================================
