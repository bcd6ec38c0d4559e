--------------------------------- MODULE Tac ---------------------------------
(***************************************************************************)
(* The three-address code (TAC) that the front end of splc writes and its  *)
(* MIPS back end reads: operands, quadruples and their constructors        *)
(* (tac.h, tac.cpp).  A quadruple of any kind is one record; the C union's *)
(* left/ret/p is `dst', its r1/c1/right/raddr/var is `a', its r2/c2 is `b'.*)
(* An operand keeps both members of the C union, of which its kind says    *)
(* the one that counts.                                                    *)
(***************************************************************************)
EXTENDS Integers, Sequences

CONSTANTS Vars,   \* the names of variables and temporaries (v0, t0, ...)
          NoVar,  \* the name of an operand that has none
          Funcs,  \* the names of functions
          NoFunc, \* the function field of a quadruple that has none
          Main,   \* the function execution starts at
          Leftovers \* what the LO register may hold at a division by zero

ASSUME NamesAssumption == NoVar \notin Vars /\ NoFunc \notin Funcs /\ Main \in Funcs
ASSUME LeftoversAssumption == Leftovers \subseteq Int /\ Leftovers # {}

OpdKinds == {"OP_LABEL", "OP_VARIABLE", "OP_CONSTANT", "OP_POINTER", "OP_ABSENT"}

Opd == {o \in [kind : OpdKinds, char_val : Vars \cup {NoVar}, int_val : Int] :
          o.kind \in {"OP_VARIABLE", "OP_POINTER"} <=> o.char_val \in Vars}

LabelOpd(n)   == [kind |-> "OP_LABEL",    char_val |-> NoVar, int_val |-> n]
Variable(v)   == [kind |-> "OP_VARIABLE", char_val |-> v,     int_val |-> 0]
Constant(c)   == [kind |-> "OP_CONSTANT", char_val |-> NoVar, int_val |-> c]
Pointer(v)    == [kind |-> "OP_POINTER",  char_val |-> v,     int_val |-> 0]
Absent        == [kind |-> "OP_ABSENT",   char_val |-> NoVar, int_val |-> 0]

IsVariable(o) == o.kind = "OP_VARIABLE"
IsConstant(o) == o.kind = "OP_CONSTANT"

(* The quadruple kinds, grouped as the emitters treat them.                *)
AddSub  == {"ADD", "SUB"}
MulDiv  == {"MUL", "DIV"}
Arith   == AddSub \cup MulDiv
IfKinds == {"IFLT", "IFLE", "IFGT", "IFGE", "IFNE", "IFEQ"}
Kinds   == {"LABEL", "FUNCTION", "ASSIGN", "ADDR", "FETCH", "DEREF", "GOTO",
            "RETURN", "DEC", "ARG", "CALL", "PARAM", "READ", "WRITE", "NONE"}
           \cup Arith \cup IfKinds

Instr == [kind : Kinds, dst : Opd, a : Opd, b : Opd, labelno : Opd,
          funcname : Funcs \cup {NoFunc}]

Quad(k, dst, a, b, l, f) == [kind |-> k, dst |-> dst, a |-> a, b |-> b,
                             labelno |-> l, funcname |-> f]

None             == Quad("NONE", Absent, Absent, Absent, Absent, NoFunc)
Label(l)         == Quad("LABEL", Absent, Absent, Absent, l, NoFunc)
Function(f)      == Quad("FUNCTION", Absent, Absent, Absent, Absent, f)
Assign(l, r)     == Quad("ASSIGN", l, r, Absent, Absent, NoFunc)
Binary(k, l, r1, r2) == Quad(k, l, r1, r2, Absent, NoFunc)
Addr(l, r)       == Quad("ADDR", l, r, Absent, Absent, NoFunc)
Fetch(l, r)      == Quad("FETCH", l, r, Absent, Absent, NoFunc)
Deref(l, r)      == Quad("DEREF", Absent, l, r, Absent, NoFunc)
Goto(l)          == Quad("GOTO", Absent, Absent, Absent, l, NoFunc)
If(k, c1, c2, l) == Quad(k, Absent, c1, c2, l, NoFunc)
Return(v)        == Quad("RETURN", Absent, v, Absent, Absent, NoFunc)
Dec(v, size)     == Quad("DEC", Absent, v, Constant(size), Absent, NoFunc)
Arg(v)           == Quad("ARG", Absent, v, Absent, Absent, NoFunc)
Call(r, f)       == Quad("CALL", r, Absent, Absent, Absent, f)
Param(p)         == Quad("PARAM", p, Absent, Absent, Absent, NoFunc)
Read(p)          == Quad("READ", p, Absent, Absent, Absent, NoFunc)
Write(p)         == Quad("WRITE", Absent, p, Absent, Absent, NoFunc)

(* Where a label or a function stands in a list of quadruples.             *)
LabelAt(prog, n) == CHOOSE i \in DOMAIN prog :
                       prog[i].kind = "LABEL" /\ prog[i].labelno.int_val = n
FuncAt(prog, f)  == CHOOSE i \in DOMAIN prog :
                       prog[i].kind = "FUNCTION" /\ prog[i].funcname = f

(* The labels and functions a quadruple needs, and what running a program  *)
(* takes: that every one needed is there, and none twice.  (An assembler   *)
(* asks for more, as its symbols share one name space: MipsRun.)           *)
Targets(c) == IF c.kind \in IfKinds \cup {"GOTO"} THEN {c.labelno} ELSE {}
Callees(c) == IF c.kind = "CALL" THEN {c.funcname} ELSE {}
Labels(p) == {i \in DOMAIN p : p[i].kind = "LABEL"}
Entries(p) == {i \in DOMAIN p : p[i].kind = "FUNCTION"}
PlacesResolve(p) ==
  /\ \A i \in DOMAIN p : /\ Targets(p[i]) \subseteq {p[j].labelno : j \in Labels(p)}
                         /\ Callees(p[i]) \subseteq {p[j].funcname : j \in Entries(p)}
  /\ Main \in {p[j].funcname : j \in Entries(p)}
  /\ \A i, j \in Labels(p) : p[i].labelno = p[j].labelno => i = j
  /\ \A i, j \in Entries(p) : p[i].funcname = p[j].funcname => i = j

(* The relations and the operations of the quadruples.  Words are taken as *)
(* mathematical integers; division truncates towards zero, as `div' does,  *)
(* and a division by zero leaves what the LO register held before.         *)
AbsVal(m) == IF m < 0 THEN -m ELSE m
Quot(m, n) == IF (m < 0) = (n < 0) THEN AbsVal(m) \div AbsVal(n)
              ELSE -(AbsVal(m) \div AbsVal(n))
Results(k, m, n) == CASE k = "ADD" -> {m + n}
                      [] k = "SUB" -> {m - n}
                      [] k = "MUL" -> {m * n}
                      [] k = "DIV" /\ n # 0 -> {Quot(m, n)}
                      [] OTHER -> Leftovers
Holds(k, m, n) == CASE k = "IFLT" -> m < n
                    [] k = "IFLE" -> m <= n
                    [] k = "IFGT" -> m > n
                    [] k = "IFGE" -> m >= n
                    [] k = "IFNE" -> m # n
                    [] k = "IFEQ" -> m = n

==============================================================================
