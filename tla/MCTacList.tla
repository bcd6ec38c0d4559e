------------------------------ MODULE MCTacList ------------------------------
(***************************************************************************)
(* TacList over every file of up to FileLength lines drawn from one line of*)
(* each form the front end prints and each the reader knows beyond those,  *)
(* with every kind of operand, from lines it refuses, and over longer files*)
(* of two lines' choice, for the walks.                                    *)
(***************************************************************************)
EXTENDS TacList

CONSTANT FileLength

VarTok(v) == Word(v)
Num(n) == Tok("#", NoVar, n)
Lab(n) == Tok("label", NoVar, n)
Binding == Word(":=")

Lines ==
  {<<Word("LABEL"), Lab(3), Word(":")>>, <<Word("FUNCTION"), Word("main"), Word(":")>>,
   <<VarTok("v0"), Binding, Num(7)>>, <<VarTok("v0"), Binding, VarTok("v1")>>,
   <<VarTok("v0"), Binding, Tok("&", "v1", 0)>>, <<VarTok("v0"), Binding, Tok("*", "v1", 0)>>,
   <<Tok("*", "v0", 0), Binding, Num(1)>>, <<Word("DEC"), Word("v0"), Tok("", NoVar, 8)>>,
   <<VarTok("v0"), Binding, VarTok("v1"), Word("+"), Num(2)>>,
   <<VarTok("v1"), Binding, Num(0), Word("-"), VarTok("v0")>>,
   <<Word("GOTO"), Lab(3)>>, <<Word("RETURN"), Num(0)>>, <<Word("ARG"), VarTok("v1")>>,
   <<Word("PARAM"), VarTok("v0")>>, <<Word("READ"), VarTok("v1")>>,
   <<Word("WRITE"), VarTok("v0")>>,
   <<VarTok("v1"), Binding, Word("CALL"), Word("main")>>}
  \cup {<<VarTok("v0"), Binding, VarTok("v0"), Word(s), VarTok("v1")>> : s \in {"*", "/"}}
  \cup {<<Word("IF"), VarTok("v0"), Word(r), Num(1), Word("GOTO"), Lab(3)>>
          : r \in {"<", "<=", ">", ">=", "!=", "=="}}

(* They are the lines of these quadruples, as LinesWritten asks.           *)
V0 == Variable("v0")
V1 == Variable("v1")
Quadruples ==
  {Label(LabelOpd(3)), Function("main"), Assign(V0, Constant(7)), Assign(V0, V1),
   Addr(V0, Pointer("v1")), Fetch(V0, V1), Deref(V0, Constant(1)), Dec(Pointer("v0"), 8),
   Binary("ADD", V0, V1, Constant(2)), Binary("SUB", V1, Constant(0), V0),
   Goto(LabelOpd(3)), Return(Constant(0)), Arg(V1), Param(V0), Read(V1), Write(V0),
   Call(V1, "main")}
  \cup {Binary(k, V0, V0, V1) : k \in MulDiv}
  \cup {If(k, V0, Constant(1), LabelOpd(3)) : k \in IfKinds}
ASSUME LinesAreWritten == /\ Lines = {Printed(c) : c \in Quadruples}
                          /\ \A c \in Quadruples : Written(c)

RefusedLines == {<<Word("READ")>>, <<Word("v0"), Word("v1")>>}

FewLines == {<<VarTok("v0"), Binding, Num(7)>>, <<Word("WRITE"), VarTok("v0")>>}

AllFiles == UNION {[1 .. k -> Lines \cup RefusedLines] : k \in 0 .. FileLength}
            \cup [1 .. 2 * FileLength -> FewLines]
==============================================================================
