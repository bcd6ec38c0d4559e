------------------------------- MODULE Translate -------------------------------
(***************************************************************************)
(* The intermediate code generator of CodeGenerator.hpp, function by       *)
(* function.  Its state is one record g: the counters of variables,        *)
(* temporaries and labels, vmap from the program's names to variables, the *)
(* graph of names (dmap, graphRoots) and the lines printed so far (code).  *)
(* The C++ functions return their text and their callers put it together   *)
(* in the order of the calls, so that here each one adds its lines to code.*)
(* status tells a translation that went well (ok) from one that followed a *)
(* null pointer or a child that is not there (undefined), and from one     *)
(* that glued a name to the line behind it (glued), for which no line is   *)
(* modelled.                                                               *)
(* Integer programs are covered: an array, a member or a float is "not     *)
(* implemented" in the code.                                               *)
(***************************************************************************)
EXTENDS DepGraph, SplTree, TLC

Blank == [vCounter |-> 0, tCounter |-> 0, lCounter |-> 0, vmap |-> << >>, dmap |-> << >>,
          graphRoots |-> << >>, code |-> << >>, status |-> "ok"]

Undefined(g) == [g EXCEPT !.status = "undefined"]

VarName(g)   == "v" \o ToString(g.vCounter)
TempName(g)  == "t" \o ToString(g.tCounter)
LabelNo(g)   == g.lCounter
CreateVar(g)  == [g EXCEPT !.vCounter = @ + 1, !.dmap = (VarName(g) :> << >>) @@ @]
CreateTemp(g) == [g EXCEPT !.tCounter = @ + 1, !.dmap = (TempName(g) :> << >>) @@ @]
CreateLabels(g, n) == [g EXCEPT !.lCounter = @ + n]

Put(g, line) == [g EXCEPT !.code = Append(@, line)]
Edge(g, from, to) == IF from \in DOMAIN g.dmap THEN [g EXCEPT !.dmap[from] = Append(@, to)]
                     ELSE Undefined(g)
Rooted(g, n) == [g EXCEPT !.graphRoots = Append(@, n)]

(* Lines.                                                                  *)
Place(v) == IF v = NoVar THEN << >> ELSE <<Word(v)>>
Number(n) == Tok("#", NoVar, n)
LabelTok(l) == Tok("label", NoVar, l)
Moves(dst, tok) == Place(dst) \o <<Word(":="), tok>>
Computes(dst, left, op, right) == Place(dst) \o <<Word(":="), left, Word(op), right>>
Calls(dst, f) == Place(dst) \o <<Word(":="), Word("CALL"), Word(f)>>
Marks(l) == <<Word("LABEL"), LabelTok(l), Word(":")>>
Jumps(l) == <<Word("GOTO"), LabelTok(l)>>
Tests(left, op, right, l) == <<Word("IF"), left, Word(op), right, Word("GOTO"), LabelTok(l)>>

Sign == [PLUS |-> "+", MINUS |-> "-", MUL |-> "*", DIV |-> "/"]
(* What the branches of translateCondExp compare with; the last one is for *)
(* whatever has three children and no branch of its own.                   *)
Comparison(k) == CASE k = "EQ" -> "==" [] k = "NE" -> "!=" [] k = "GT" -> ">"
                   [] k = "GE" -> ">=" [] k = "LT" -> "<"  [] OTHER -> "<="

Atomic(e) == e.k \in {"INT", "ID"}

-------------------------------------------------------------------------------
RECURSIVE Exp(_, _, _), CondExp(_, _, _, _), Args(_, _, _)

(* translateExp of an atom without a place returns its text, no line.      *)
Operand(e, g) == IF e.k = "INT" THEN Number(e.n) ELSE Word(g.vmap[e.id])

TranslateAtom(e, place, g) ==
  IF place = NoVar THEN [g EXCEPT !.status = "glued"]
  ELSE IF e.k = "INT" THEN Put(g, Moves(place, Number(e.n)))
  ELSE Put(Edge(g, place, g.vmap[e.id]), Moves(place, Operand(e, g)))

TranslateNeg(e, place, g) ==
  LET name == TempName(g)
      h == Exp(e.sub[1], name, CreateTemp(g))
  IN Edge(Put(h, Computes(place, Number(0), "-", Word(name))), place, name)

TranslateAssignNoEdge(e, place, g) ==
  LET name == TempName(g)
      v == g.vmap[e.sub[1].id]
      i == Put(Exp(e.sub[2], name, CreateTemp(g)), Moves(v, Word(name)))
  IN IF place = NoVar THEN i ELSE Put(i, Moves(place, Word(v)))
TranslateAssign(e, place, g) ==
  LET name == TempName(g)
      v == g.vmap[e.sub[1].id]
      h == Exp(e.sub[2], name, CreateTemp(g))
      i == Put(h, Moves(v, Word(name)))
      j == IF place = NoVar THEN i ELSE Put(i, Moves(place, Word(v)))
  IN IF e.sub[1].k # "ID" THEN Undefined(g) ELSE Edge(j, v, name)

TranslateArithNoEdge(e, place, g) ==
  LET name1 == TempName(g)
      name2 == TempName(CreateTemp(g))
      h == Exp(e.sub[1], name1, CreateTemp(CreateTemp(g)))
      i == Exp(e.sub[2], name2, h)
  IN Edge(Put(i, Computes(place, Word(name1), Sign[e.k], Word(name2))), place, name1)
TranslateArith(e, place, g) ==
  LET name1 == TempName(g)
      name2 == TempName(CreateTemp(g))
      h == Exp(e.sub[1], name1, CreateTemp(CreateTemp(g)))
      i == Exp(e.sub[2], name2, h)
      j == Put(i, Computes(place, Word(name1), Sign[e.k], Word(name2)))
  IN Edge(Edge(j, place, name1), place, name2)

(* The value of a condition: #0, then #1 where the condition holds.        *)
TranslateLogic(e, place, g) ==
  LET label1 == LabelNo(g)
      label2 == LabelNo(g) + 1
      h == CondExp(e, label1, label2, Put(CreateLabels(g, 2), Moves(place, Number(0))))
  IN Put(Put(Put(h, Marks(label1)), Moves(place, Number(1))), Marks(label2))

TranslateWrite(e, g) ==
  LET name == TempName(g)
      h == Exp(e.sub[1], name, Rooted(CreateTemp(g), Own(<<name>>)))
  IN Put(h, <<Word("WRITE"), Word(name)>>)

(* translateArgs: a variable of its own for each argument, the last one    *)
(* foremost in argList.                                                    *)
ArgsEager(args, argList, g) ==     \* each ARG line right behind its argument
  IF args = << >> THEN [g |-> g, argList |-> << >>]
  ELSE LET v == VarName(g)
           h == Exp(Head(args), v, Rooted(CreateVar(g), Own(<<v>>)))
       IN Args(Tail(args), argList, Put(h, <<Word("ARG"), Word(v)>>))
Args(args, argList, g) ==
  IF args = << >> THEN [g |-> g, argList |-> argList]
  ELSE LET v == VarName(g)
           h == Exp(Head(args), v, Rooted(CreateVar(g), Own(<<v>>)))
       IN Args(Tail(args), <<v>> \o argList, h)

(* The ARG lines, then the call.  Where its value is not used, the call    *)
(* has a temporary all the same.                                           *)
Passed(r) == [r.g EXCEPT !.code = @ \o [i \in DOMAIN r.argList |-> <<Word("ARG"), Word(r.argList[i])>>]]
Called(f, name, g) == Put(Rooted(g, Named(name)), Calls(name, f))
InTemp(f, g) == Called(f, TempName(g), CreateTemp(g))
TranslateCallNoTemp(e, place, g) ==
  Put(Rooted(Passed(Args(e.sub, << >>, g)), IF place = NoVar THEN Null ELSE Named(place)),
      Calls(place, e.id))
TranslateCall(e, place, g) ==
  IF place = NoVar THEN InTemp(e.id, Passed(Args(e.sub, << >>, g)))
  ELSE Called(e.id, place, Passed(Args(e.sub, << >>, g)))

TranslateCallNoArgs(e, place, g) ==
  IF e.id = "read" THEN Put(g, <<Word("READ")>> \o Place(place))
  ELSE Put(Rooted(g, IF place = NoVar THEN Null ELSE Named(place)), Calls(place, e.id))

Exp(e, place, g) ==
  IF g.status # "ok" THEN g ELSE
  CASE Atomic(e)            -> TranslateAtom(e, place, g)
    [] e.k = "PAREN"        -> Exp(e.sub[1], place, g)
    [] e.k = "NEG"          -> TranslateNeg(e, place, g)
    [] e.k = "ASSIGN"       -> TranslateAssign(e, place, g)
    [] e.k \in Arithmetic   -> TranslateArith(e, place, g)
    [] e.k \in {"NOT", "AND", "OR"} \cup Relations -> TranslateLogic(e, place, g)
    [] e.k = "CALL" /\ e.sub = << >>   -> TranslateCallNoArgs(e, place, g)
    [] e.k = "CALL" /\ e.sub # << >> /\ e.id = "write" -> TranslateWrite(e, g)
    [] e.k = "CALL" /\ e.sub # << >> /\ e.id # "write" -> TranslateCall(e, place, g)

(* translateCondExp.  A side that is an atom is compared as it is.         *)
Side(e, g) ==
  IF Atomic(e) THEN [tok |-> Operand(e, g), g |-> g]
  ELSE [tok |-> Word(TempName(g)), g |-> Exp(e, TempName(g), CreateTemp(g))]
NameOf(tok) == IF tok.lead = "#" THEN << >> ELSE <<tok.name>>

(* The branch on the sides of e: tok is the left one.                      *)
Branch(e, tok, r, label_true, label_false) ==
  LET h == Put(r.g, Tests(tok, Comparison(e.k), r.tok, label_true))
  IN Rooted(Put(h, Jumps(label_false)), Own(NameOf(tok) \o NameOf(r.tok)))
BranchFrom(e, l, label_true, label_false) ==
  Branch(e, l.tok, Side(e.sub[2], l.g), label_true, label_false)
CondCompare(e, label_true, label_false, g) ==
  BranchFrom(e, Side(e.sub[1], g), label_true, label_false)

CondOrSwapped(e, label_true, label_false, g) ==
  LET label == LabelNo(g)
      h == CondExp(e.sub[1], label, label_true, CreateLabels(g, 1))
  IN CondExp(e.sub[2], label_true, label_false, Put(h, Marks(label)))
CondAnd(e, label_true, label_false, g) ==
  LET label == LabelNo(g)
      h == CondExp(e.sub[1], label, label_false, CreateLabels(g, 1))
  IN CondExp(e.sub[2], label_true, label_false, Put(h, Marks(label)))
CondOr(e, label_true, label_false, g) ==
  LET label == LabelNo(g)
      h == CondExp(e.sub[1], label_true, label, CreateLabels(g, 1))
  IN CondExp(e.sub[2], label_true, label_false, Put(h, Marks(label)))

CondExp(e, label_true, label_false, g) ==
  IF g.status # "ok" THEN g ELSE
  CASE e.k \in {"NEG", "NOT"} -> CondExp(e.sub[1], label_false, label_true, g)
    [] e.k = "AND"            -> CondAnd(e, label_true, label_false, g)
    [] e.k = "OR"             -> CondOr(e, label_true, label_false, g)
    [] e.k \in Relations \cup Arithmetic \cup {"ASSIGN"} -> CondCompare(e, label_true, label_false, g)
    [] e.k \in {"INT", "ID", "PAREN", "CALL"} -> Undefined(g)   \* children that are not there

-------------------------------------------------------------------------------
(* Declarations.                                                           *)
TranslateVarDec(v, g) ==
  IF v.id \in DOMAIN g.vmap THEN g
  ELSE [CreateVar(g) EXCEPT !.vmap = (v.id :> VarName(g)) @@ @]

RECURSIVE DecLines(_, _), DefLines(_, _)
DecLines(decs, g) ==
  IF decs = << >> THEN g
  ELSE LET v == Head(decs).sub[1]
           h == TranslateVarDec(v, g)
       IN DecLines(Tail(decs),
                   IF Len(Head(decs).sub) = 2 THEN Exp(Head(decs).sub[2], h.vmap[v.id], h) ELSE h)
DefLines(defs, g) == IF defs = << >> THEN g
                     ELSE DefLines(Tail(defs), DecLines(Tail(Head(defs).sub), g))

(* Statements.                                                             *)
RECURSIVE Stmt(_, _), StmtList(_, _)
StmtList(stmts, g) == IF stmts = << >> THEN g ELSE StmtList(Tail(stmts), Stmt(Head(stmts), g))

CompSt(b, g) == StmtList(Stmts(b), DefLines(Defs(b), g))

TranslateReturn(e, g) ==
  IF Atomic(e)
  THEN LET tok == Operand(e, g)
           h == IF e.k = "ID" THEN Rooted(g, Own(<<tok.name>>)) ELSE g
       IN Put(h, <<Word("RETURN"), tok>>)
  ELSE LET tp == TempName(g)
           h == Exp(e, tp, Rooted(CreateTemp(g), Own(<<tp>>)))
       IN Put(h, <<Word("RETURN"), Word(tp)>>)

TranslateIf(s, g) ==
  LET lb1 == LabelNo(g)
      lb2 == lb1 + 1
      h == Put(CondExp(s.sub[1], lb1, lb2, CreateLabels(g, 2)), Marks(lb1))
  IN Put(Stmt(s.sub[2], h), Marks(lb2))

TranslateIfElse(s, g) ==
  LET lb1 == LabelNo(g)
      lb2 == lb1 + 1
      lb3 == lb1 + 2
      h == Put(CondExp(s.sub[1], lb1, lb2, CreateLabels(g, 3)), Marks(lb1))
      i == Put(Put(Stmt(s.sub[2], h), Jumps(lb3)), Marks(lb2))
  IN Put(Stmt(s.sub[3], i), Marks(lb3))

TranslateWhileTwo(s, g) ==          \* two labels made, three used
  LET lb1 == LabelNo(g)
      lb2 == lb1 + 1
      lb3 == lb1 + 2
      h == CondExp(s.sub[1], lb2, lb3, Put(CreateLabels(g, 2), Marks(lb1)))
  IN Put(Put(Stmt(s.sub[2], Put(h, Marks(lb2))), Jumps(lb1)), Marks(lb3))
TranslateWhile(s, g) ==
  LET lb1 == LabelNo(g)
      lb2 == lb1 + 1
      lb3 == lb1 + 2
      h == CondExp(s.sub[1], lb2, lb3, Put(CreateLabels(g, 3), Marks(lb1)))
  IN Put(Put(Stmt(s.sub[2], Put(h, Marks(lb2))), Jumps(lb1)), Marks(lb3))

Stmt(s, g) ==
  IF g.status # "ok" THEN g ELSE
  CASE s.k = "EXPS"     -> Exp(s.sub[1], NoVar, g)
    [] s.k = "BLOCK"    -> CompSt(s, g)
    [] s.k = "RETURN"   -> TranslateReturn(s.sub[1], g)
    [] s.k = "IF"       -> TranslateIf(s, g)
    [] s.k = "IFELSE"   -> TranslateIfElse(s, g)
    [] s.k = "WHILE"    -> TranslateWhile(s, g)

(* External definitions.                                                   *)
ParamDec(p, g) ==
  LET h == TranslateVarDec(p.sub[2], g)
      v == h.vmap[p.sub[2].id]
  IN Put(Rooted(h, Own(<<v>>)), <<Word("PARAM"), Word(v)>>)

FunDec(d, g) ==
  LET step[i \in 0 .. d.n] ==
        IF i = 0 THEN Put(g, <<Word("FUNCTION"), Word(d.id), Word(":")>>)
        ELSE ParamDec(Params(d)[i], step[i - 1])
  IN step[d.n]

TranslateExtDecList(vs, g) ==
  LET step[i \in 0 .. Len(vs)] == IF i = 0 THEN g ELSE TranslateVarDec(vs[i], step[i - 1])
  IN step[Len(vs)]

TranslateExtDef(d, g) ==
  CASE d.k = "EXTSPEC" -> g
    [] d.k = "EXTVARS" -> TranslateExtDecList(Tail(d.sub), g)
    [] d.k = "FUN"     -> CompSt(Body(d), FunDec(d, g))

Translated(P) ==
  LET step[i \in 0 .. Len(P)] == IF i = 0 THEN Blank ELSE TranslateExtDef(P[i], step[i - 1])
  IN step[Len(P)]

================================================================================
