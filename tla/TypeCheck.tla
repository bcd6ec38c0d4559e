------------------------------ MODULE TypeCheck ------------------------------
(***************************************************************************)
(* The semantic analyser of NodeAnalyser.hpp, function by function.  Its   *)
(* state is one record a: symbolTable, the one flat table of variables,    *)
(* functions and structures; errors, the numbers of the messages printed   *)
(* so far; defined, FALSE once a null or a garbage pointer was followed.   *)
(* After that nothing the analyser does counts any more.                   *)
(* A structure variable holds the name of its structure where the code     *)
(* holds a pointer: a name enters symbolTable once and keeps its type.     *)
(***************************************************************************)
EXTENDS SplTree, TLC

(* Type of Type.hpp: `of' is the type an array has elements of or a        *)
(* function returns, `struct' the structure of a structure variable.       *)
TypeRec(category, name) ==
  [category |-> category, name |-> name, of |-> << >>, struct |-> "", varlist |-> << >>]
NullType  == TypeRec("NULL", "")            \* a null Type pointer
ErrorType == TypeRec("ERROR_VAL", "")
IsNull(t) == t.category = "NULL"
Element(t) == IF t.of = << >> THEN NullType ELSE t.of[1]

RECURSIVE Signature(_), Wild(_)
Signature(t) ==
  CASE t.category \in {"INT_VAL", "INT_VAR"}     -> "int"
    [] t.category \in {"FLOAT_VAL", "FLOAT_VAR"} -> "float"
    [] t.category \in {"CHAR_VAL", "CHAR_VAR"}   -> "char"
    [] t.category = "ARRAY"         -> Signature(Element(t)) \o "*"
    [] t.category = "STRUCTURE_VAL" -> "struct " \o t.struct
    [] t.category = "FUNCTION"      -> "Func " \o t.name
    [] OTHER -> "NULL"

(* getSigniture follows a pointer that is null or was never set.           *)
Wild(t) == \/ IsNull(t)
           \/ t.category = "ARRAY" /\ Wild(Element(t))
           \/ t.category = "STRUCTURE_VAL" /\ t.struct = ""

(* function_init.                                                          *)
IntValue == TypeRec("INT_VAL", "")
Library == ("read"  :> [TypeRec("FUNCTION", "read") EXCEPT !.of = <<IntValue>>]) @@
           ("write" :> [TypeRec("FUNCTION", "write") EXCEPT !.of = <<IntValue>>, !.varlist = <<IntValue>>])

Fresh == [symbolTable |-> Library, errors |-> << >>, defined |-> TRUE]

Declared(a, x) == x \in DOMAIN a.symbolTable
Report(a, n) == IF a.defined THEN [a EXCEPT !.errors = Append(@, n)] ELSE a
ReportIf(cond, a, n) == IF cond THEN Report(a, n) ELSE a
Register(a, x, t) == [a EXCEPT !.symbolTable = (x :> t) @@ @]
Follow(a, bad) == IF bad THEN [a EXCEPT !.defined = FALSE] ELSE a

Typed(a, t) == [a |-> a, t |-> t]
Failed(a, n) == Typed(Report(a, n), ErrorType)

(* analyzeExp: the state after it and the type it returns.                 *)
RECURSIVE TypeOf(_, _), ArgTypes(_, _, _)

ArgTypes(args, a, varList) ==
  IF args = << >> THEN [a |-> a, varList |-> varList]
  ELSE LET h == TypeOf(Head(args), a) IN ArgTypes(Tail(args), h.a, Append(varList, h.t))

SameLengthOnly(func, varList) == Len(func) = Len(varList)
SameSignature(func, varList) ==
  /\ Len(func) = Len(varList)
  /\ \A i \in DOMAIN func : Signature(func[i]) = Signature(varList[i])

TypeOfCallEarly(e, a) ==
  LET r == ArgTypes(e.sub, a, << >>)
      f == r.a.symbolTable[e.id]
  IN IF ~Declared(a, e.id) THEN Failed(a, 2)
     ELSE IF IsNull(f) THEN Typed(Follow(r.a, TRUE), ErrorType)
     ELSE IF f.category # "FUNCTION" THEN Failed(r.a, 11)
     ELSE IF ~SameSignature(f.varlist, r.varList) THEN Failed(r.a, 9)
     ELSE Typed(r.a, f.of[1])
TypeOfCall(e, a) ==
  LET r == ArgTypes(e.sub, a, << >>)
      f == r.a.symbolTable[e.id]
  IN IF ~Declared(r.a, e.id) THEN Failed(r.a, 2)
     ELSE IF IsNull(f) THEN Typed(Follow(r.a, TRUE), ErrorType)
     ELSE IF f.category # "FUNCTION" THEN Failed(r.a, 11)
     ELSE IF ~SameSignature(f.varlist, r.varList)
          THEN LET b == Follow(r.a, Len(f.varlist) = Len(r.varList)
                                    /\ \E i \in DOMAIN f.varlist : Wild(f.varlist[i]) \/ Wild(r.varList[i]))
               IN Failed(b, 9)
     ELSE Typed(r.a, f.of[1])

TypeOfBinary(e, a) ==
  LET l == TypeOf(e.sub[1], a)
      r == TypeOf(e.sub[2], l.a)
      b == Follow(r.a, Wild(l.t) \/ Wild(r.t))
  IN IF Signature(l.t) # Signature(r.t)
     THEN IF e.k = "ASSIGN" THEN Failed(b, 5)
          ELSE IF l.t.category # "ERROR_VAL" /\ r.t.category # "ERROR_VAL" THEN Failed(b, 7)
          ELSE Typed(b, ErrorType)
     ELSE IF e.k = "ASSIGN" /\ l.t.category \in {"INT_VAL", "FLOAT_VAL", "CHAR_VAL"} THEN Failed(b, 6)
     ELSE IF e.k \in Arithmetic THEN Typed(b, TypeRec(l.t.category, l.t.name))
     ELSE Typed(b, IntValue)

TypeOfIndex(e, a) ==
  LET l == TypeOf(e.sub[1], a)
      r == TypeOf(e.sub[2], l.a)
      b == Follow(r.a, IsNull(l.t) \/ Wild(r.t))
      c == ReportIf(l.t.category # "ARRAY", b, 10)
      d == ReportIf(Signature(r.t) # "int", c, 12)
  IN IF l.t.category # "ARRAY" \/ Signature(r.t) # "int" THEN Typed(d, ErrorType)
     ELSE Typed(Follow(d, l.t.of = << >>), Element(l.t))

(* find_structure_mem: the first member of the name.                       *)
Members(a, t, x) == {i \in DOMAIN a.symbolTable[t.struct].varlist :
                        a.symbolTable[t.struct].varlist[i].name = x}
TypeOfDot(e, a) ==
  LET l == TypeOf(e.sub[1], a)
      b == Follow(l.a, IsNull(l.t) \/ (l.t.category = "STRUCTURE_VAL" /\ l.t.struct = ""))
      is == Members(b, l.t, e.id)
      m == b.symbolTable[l.t.struct].varlist[CHOOSE i \in is : \A j \in is : i <= j]
  IN IF ~b.defined THEN Typed(b, ErrorType)
     ELSE IF l.t.category # "STRUCTURE_VAL" THEN Failed(b, 13)
     ELSE IF is = {} THEN Failed(b, 14)
     ELSE IF m.category = "ERROR_VAL" THEN Failed(b, 14)
     ELSE Typed(b, m)

TypeOfId(e, a) ==
  LET t == a.symbolTable[e.id]
  IN IF ~Declared(a, e.id) THEN Failed(a, 1)
     ELSE IF t.category = "STRUCTURE_DEF" THEN Typed(a, ErrorType)
     ELSE Typed(Follow(a, IsNull(t)), t)

TypeOf(e, a) ==
  IF ~a.defined THEN Typed(a, ErrorType) ELSE
  CASE e.k \in Literals  -> Typed(a, TypeRec(e.k \o "_VAL", ""))
    [] e.k = "ID"        -> TypeOfId(e, a)
    [] e.k \in {"NEG", "NOT", "PAREN"} -> TypeOf(e.sub[1], a)
    [] e.k \in Operators -> TypeOfBinary(e, a)
    [] e.k = "CALL"      -> TypeOfCall(e, a)
    [] e.k = "INDEX"     -> TypeOfIndex(e, a)
    [] e.k = "DOT"       -> TypeOfDot(e, a)

(* Declarations.                                                           *)
RECURSIVE VarDec(_, _, _), DefList(_, _, _), DecList(_, _, _, _)

VarDec(v, spec, a) ==
  IF v.k = "ARRAY" THEN VarDec(v.sub[1], [TypeRec("ARRAY", "") EXCEPT !.of = <<spec>>], a)
  ELSE IF Declared(a, v.id) THEN Failed(a, 3)
  ELSE LET b == Follow(a, IsNull(spec))
           t == IF spec.category \in {"ARRAY", "STRUCTURE_VAL"} THEN [spec EXCEPT !.name = v.id]
                ELSE TypeRec(spec.category, v.id)
       IN Typed(Register(b, v.id, t), t)

(* A member or a parameter joins the varlist of its structure or function, *)
(* which is in symbolTable under the name of its owner, or in none.        *)
Push(a, owner, t) ==
  IF owner = "" THEN a
  ELSE [a EXCEPT !.symbolTable[owner].varlist = Append(@, t)]

Entry(a, x) == Typed(a, a.symbolTable[x])
StructSpecifier(s, a) ==
  IF Declared(a, s.id) THEN Failed(a, 15)
  ELSE Entry(DefList(s.sub, s.id, Register(a, s.id, TypeRec("STRUCTURE_DEF", s.id))), s.id)

Specifier(s, a) ==
  CASE s.k = "TYPE" /\ s.id = "int"   -> Typed(a, TypeRec("INT_VAR", ""))
    [] s.k = "TYPE" /\ s.id = "float" -> Typed(a, TypeRec("FLOAT_VAR", ""))
    [] s.k = "TYPE" /\ s.id = "char"  -> Typed(a, TypeRec("CHAR_VAR", ""))
    [] s.k = "STRUCTDEF"              -> StructSpecifier(s, a)
    [] s.k = "STRUCTREF" ->            \* operator[] enters a null pointer
         LET b == IF Declared(a, s.id) THEN a ELSE Register(a, s.id, NullType)
         IN Typed(b, IF Declared(b, s.id) THEN b.symbolTable[s.id] ELSE NullType)

StructureValue(t) ==
  IF t.category = "STRUCTURE_DEF" THEN [TypeRec("STRUCTURE_VAL", "") EXCEPT !.struct = t.name] ELSE t

DecList(decs, spec, owner, a) ==
  IF decs = << >> THEN a
  ELSE LET v == VarDec(Head(decs).sub[1], spec, a)
           b == IF Len(Head(decs).sub) = 2 THEN TypeOf(Head(decs).sub[2], v.a).a ELSE v.a
       IN DecList(Tail(decs), spec, owner, Register(Push(b, owner, v.t), v.t.name, v.t))

DefList(defs, owner, a) ==
  IF defs = << >> THEN a
  ELSE LET s == Specifier(Head(Head(defs).sub), a)
           b == Follow(s.a, IsNull(s.t))
       IN DefList(Tail(defs), owner, DecList(Tail(Head(defs).sub), StructureValue(s.t), owner, b))

(* Statements of a function that returns type ret.                         *)
RECURSIVE Check(_, _, _), CheckAll(_, _, _)
CheckAll(stmts, ret, a) ==
  IF stmts = << >> THEN a ELSE CheckAll(Tail(stmts), ret, Check(Head(stmts), ret, a))

Returned(t, ret) ==   \* a value t, where type ret is wanted
  ReportIf(Signature(t.t) # "NULL" /\ Signature(ret) # Signature(t.t),
           Follow(t.a, Wild(t.t) \/ (Signature(t.t) # "NULL" /\ Wild(ret))), 8)
CheckReturn(e, ret, a) == Returned(TypeOf(e, a), ret)

Check(s, ret, a) ==
  IF ~a.defined THEN a ELSE
  CASE s.k = "EXPS"   -> TypeOf(s.sub[1], a).a
    [] s.k = "BLOCK"  -> CheckAll(Stmts(s), ret, DefList(Defs(s), "", a))
    [] s.k = "RETURN" -> CheckReturn(s.sub[1], ret, a)
    [] s.k \in {"IF", "IFELSE", "WHILE"} -> CheckAll(Tail(s.sub), ret, TypeOf(s.sub[1], a).a)

(* External definitions.  A function defined again keeps its first         *)
(* definition; its parameters and its body are analysed all the same.      *)
ParamTypes(pars, owner, a) ==
  LET step[i \in 0 .. Len(pars)] ==
        IF i = 0 THEN a
        ELSE LET s == Specifier(pars[i].sub[1], step[i - 1])
                 v == VarDec(pars[i].sub[2], s.t, s.a)
             IN Push(v.a, owner, v.t)
  IN step[Len(pars)]

FunDefLast(d, ret, a) ==   \* the later definition replaces the earlier one
  LET b == ReportIf(Declared(a, d.id), a, 4)
      c == Register(b, d.id, [TypeRec("FUNCTION", d.id) EXCEPT !.of = <<ret>>])
  IN Check(Body(d), ret, ParamTypes(Params(d), d.id, c))
FunDef(d, ret, a) ==
  LET again == Declared(a, d.id)
      b == IF again THEN Report(a, 4)
           ELSE Register(a, d.id, [TypeRec("FUNCTION", d.id) EXCEPT !.of = <<ret>>])
  IN Check(Body(d), ret, ParamTypes(Params(d), IF again THEN "" ELSE d.id, b))

ExtDecList(vs, spec, a) ==
  LET step[i \in 0 .. Len(vs)] == IF i = 0 THEN a ELSE VarDec(vs[i], spec, step[i - 1]).a
  IN step[Len(vs)]

Defined(d, s) ==      \* d, with its specifier s
  CASE d.k = "EXTSPEC" -> s.a
    [] d.k = "EXTVARS" -> ExtDecList(Tail(d.sub), s.t, s.a)
    [] d.k = "FUN"     -> FunDef(d, s.t, s.a)
ExtDef(d, a) == Defined(d, Specifier(d.sub[1], a))

Analysed(P) ==
  LET step[i \in 0 .. Len(P)] == IF i = 0 THEN Fresh ELSE ExtDef(P[i], step[i - 1])
  IN step[Len(P)]
Clean(a) == a.errors = << >> /\ a.defined
Accepts(P) == Clean(Analysed(P))

==============================================================================
