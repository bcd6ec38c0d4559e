------------------------------ MODULE MCMipsRun ------------------------------
(***************************************************************************)
(* The programs MipsRun is checked on: TAC as the front end prints it,     *)
(* TAC that reaches what the front end's does not, and the TAC that        *)
(* Translate and simplify make of SPL programs.  tac_from_buffer puts a    *)
(* NONE head first.                                                        *)
(***************************************************************************)
EXTENDS MipsRun, TLC

V(i) == Variable(CASE i = 0 -> "v0" [] i = 1 -> "v1" [] i = 2 -> "v2" [] i = 3 -> "v3"
                   [] i = 4 -> "v4" [] i = 5 -> "v5" [] i = 6 -> "v6" [] i = 7 -> "v7")
C(i) == Constant(i)
L(i) == LabelOpd(i)
(* The names in the order std::set<string> has them.                       *)
ByText ==
  <<"t0", "t1", "t10", "t11", "t12", "t13", "t14", "t15", "t16",
    "t17", "t18", "t19", "t2", "t3", "t4", "t5", "t6", "t7", "t8",
    "t9", "v0", "v1", "v10", "v11", "v12", "v13", "v14", "v15",
    "v16", "v17", "v18", "v19", "v2", "v3", "v4", "v5", "v6", "v7",
    "v8", "v9">>
MCVars == Range(ByText)
(* What mips32.cpp prints for a name, a label and a function, the labels of *)
(* its own text, and a word that no assembler takes for a label.           *)
Underscored(v) == "_" \o v
Numbered(n) == "label" \o ToString(n)
Itself(name) == name
OwnLabels == {"_prmpt", "_eol", "read", "write"}
Mnemonics == {"add"}

MCRank == [v \in MCVars |-> CHOOSE r \in DOMAIN ByText : ByText[r] = v]

(* test_4_r02.spl: the sign of a number read.                              *)
Sign ==
  <<None, Function("main"), Read(V(1)), Assign(V(0), V(1)),
    If("IFGT", V(0), C(0), L(0)), Goto(L(1)),
    Label(L(0)), Assign(V(2), C(1)), Write(V(2)), Goto(L(2)),
    Label(L(1)), If("IFLT", V(0), C(0), L(3)), Goto(L(4)),
    Label(L(3)), Assign(V(4), C(1)), Binary("SUB", V(3), C(0), V(4)), Write(V(3)), Goto(L(5)),
    Label(L(4)), Assign(V(5), C(0)), Write(V(5)),
    Label(L(5)), Label(L(2)), Return(C(0))>>

(* test_4_r01.spl, two parameters fewer: move(n, p) prints p at the leaf   *)
(* and at every node, between its two recursive calls.                     *)
Hanoi ==
  <<None, Function("hanoi"), Param(V(0)), Param(V(1)),
    If("IFEQ", V(0), C(1), L(0)), Goto(L(1)),
    Label(L(0)), Assign(V(2), V(1)), Write(V(2)), Goto(L(2)),
    Label(L(1)), Assign(V(4), V(0)), Assign(V(5), C(1)), Binary("SUB", V(3), V(4), V(5)),
    Assign(V(6), C(3)), Arg(V(6)), Arg(V(3)), Call(V(7), "hanoi"),
    Assign(V(2), V(1)), Write(V(2)),
    Arg(V(1)), Arg(V(3)), Call(V(7), "hanoi"),
    Label(L(2)), Return(C(0)),
    Function("main"), Assign(V(1), C(2)), Assign(V(2), C(5)),
    Arg(V(2)), Arg(V(1)), Call(V(3), "hanoi"), Return(C(0))>>

(* sample/test_4_fact.spl.                                                 *)
Fact ==
  <<None, Function("fact"), Param(V(0)),
    If("IFEQ", V(0), C(1), L(0)), Goto(L(1)),
    Label(L(0)), Return(V(0)), Goto(L(2)),
    Label(L(1)), Assign(V(2), V(0)),
    Assign(V(5), V(0)), Assign(V(6), C(1)), Binary("SUB", V(4), V(5), V(6)),
    Arg(V(4)), Call(V(3), "fact"), Binary("MUL", V(1), V(2), V(3)), Return(V(1)),
    Label(L(2)), Function("main"), Read(V(0)), Assign(V(7), V(0)),
    If("IFGT", V(7), C(1), L(3)), Goto(L(4)),
    Label(L(3)), Assign(V(1), V(7)), Arg(V(1)), Call(V(2), "fact"), Assign(V(6), V(2)), Goto(L(5)),
    Label(L(4)), Assign(V(3), C(1)), Assign(V(6), V(3)),
    Label(L(5)), Assign(V(4), V(6)), Write(V(4)), Return(C(0))>>

(* test_4_r03.spl: c = c * 2 + a - b with a - b written first, and a loop  *)
(* that halves c down to 0, then a division by it.                         *)
Arithmetic ==
  <<None, Function("main"), Read(V(0)), Assign(V(1), C(2)),
    Binary("SUB", V(2), V(0), V(1)), Write(V(2)),
    Binary("MUL", V(3), V(1), V(1)), Binary("ADD", V(4), V(3), V(2)),
    Label(L(0)), If("IFLE", V(4), C(0), L(1)),
    Binary("DIV", V(4), V(4), V(1)), Goto(L(0)),
    Label(L(1)), Binary("DIV", V(5), V(1), V(4)), Write(V(5)),
    If("IFNE", V(5), V(1), L(2)), Binary("SUB", V(5), C(1), V(5)), Write(V(5)),
    Label(L(2)), If("IFGE", V(5), V(1), L(3)), Binary("ADD", V(5), C(4), V(5)), Write(V(5)),
    Label(L(3)), Return(V(5))>>

(* f reads, changes its own copy of its caller's variables and returns the *)
(* difference of its parameters, g passes its parameters on in the other   *)
(* order; main calls both and writes what is left of its variables.        *)
Mutual ==
  <<None, Function("f"), Param(V(0)), Param(V(1)), Read(V(2)),
    Binary("SUB", V(3), V(0), V(1)), Assign(V(4), C(9)), Return(V(3)),
    Function("g"), Param(V(0)), Param(V(1)), Param(V(5)),
    Arg(V(0)), Arg(V(5)), Call(V(3), "f"), Binary("ADD", V(3), V(3), V(1)), Return(V(3)),
    Function("main"), Assign(V(4), C(4)), Assign(V(2), C(2)),
    Arg(C(1)), Arg(C(2)), Arg(V(4)), Call(V(6), "g"),
    Arg(V(6)), Arg(V(2)), Call(V(7), "f"),
    Assign(V(5), V(7)), Write(V(5)), Assign(V(5), V(4)), Write(V(5)), Return(C(0))>>

(* Programs that run out of stack at a WRITE, READ, ARG or CALL: a function *)
(* that calls itself without end, with every count of words left over.     *)
Endless(body, args) ==
  <<None, Function("f")>> \o body \o args \o <<Call(V(0), "f"), Label(L(0)), Return(V(0)),
    Function("main"), Call(V(0), "f"), Return(C(0))>>
MissingArg == Endless(<<Param(V(1))>>, <<Arg(V(1))>>)     \* main passes f none
OutOfStack ==
  {Endless(<<Assign(V(0), C(1)), Write(V(0))>>, << >>),
   Endless(<<Read(V(0)), If("IFNE", V(0), C(0), L(0))>>, << >>),
   MissingArg}

(* main has a parameter; a function ends without RETURN; a callee is taken *)
(* from a label nobody prints.                                             *)
NoCaller == <<None, Function("main"), Param(V(0)), Return(V(0))>>
NoReturn == <<None, Function("main"), Assign(V(0), C(1)), Write(V(0))>>
NoLabel  == <<None, Function("main"), Goto(L(7)), Return(C(0))>>

(* A function has the name of a routine of the text, of a label, of a word *)
(* of .data or of an instruction; a function is there twice; `a := b - #-1'*)
(* prints two signs; a label is below zero; a name is read that nothing    *)
(* stores; read is called where the program has no function of that name.  *)
Beside(f) == <<None, Function(f), Return(C(1)), Function("main"), Label(L(0)), Assign(V(0), C(2)),
               Call(V(0), f), Return(V(0))>>
NeverAssigned == <<None, Function("main"), Assign(V(1), V(0)), Write(V(1)), Return(C(0))>>
Refused ==
  {Beside(f) : f \in {"read", "label0", "_v0", "add", "main"}}
  \cup {<<None, Function("main"), Assign(V(0), C(1)), Binary("SUB", V(1), V(0), C(-1)),
          Return(V(1))>>,
        <<None, Function("main"), Label(L(-1)), Return(C(0))>>,
        <<None, Function("main"), Call(V(0), "f"), Return(C(0))>>,
        NeverAssigned, NoLabel}
CallsOwnRead == <<None, Function("main"), Call(V(0), "read"), Return(V(0))>>

-------------------------------------------------------------------------------
(* What Translate and simplify make of P, read by tac_from_buffer.  The    *)
(* marks are taken as SimplifyProofs has them: the names the roots need.   *)
Spl == INSTANCE MCPrograms
Gen == INSTANCE Translate
Txt == INSTANCE TacLine

RECURSIVE Reached(_, _)
Reached(dmap, S) ==
  LET next == S \cup UNION {Range(dmap[v]) : v \in S}
  IN IF next = S THEN S ELSE Reached(dmap, next)
Roots(nodes) == UNION {IF n.kind = "named" THEN {n.name} ELSE Range(n.adj) : n \in Range(nodes)}
Kept(g, useful) ==
  SelectSeq(g.code, LAMBDA ln : \A i \in DOMAIN ln : ln[i].lead = "" =>
                                  ln[i].name \in useful \/ ln[i].name \notin DOMAIN g.dmap)
FromGenerator(g) ==
  LET lines == Kept(g, Reached(g.dmap, Roots(g.graphRoots)))
  IN <<None>> \o [i \in DOMAIN lines |-> Txt!FromLine(lines[i])]

Linked == {Sign, Hanoi, Fact, Arithmetic, Mutual, NoCaller, NoReturn, Beside("f")}
          \cup OutOfStack \cup {FromGenerator(Gen!Translated(P)) : P \in Spl!PlainPrograms}
Suite == Linked \cup Refused \cup {CallsOwnRead}
FuncNames == {"main", "f", "g", "h", "fact", "hanoi", "read", "label0", "_v0", "add"}

(* Where control can get from S on: WellFormed asks for such a set, and all*)
(* that link have it but the one that breaks a rule of it on purpose.      *)
RECURSIVE Flow(_, _)
Flow(p, S) ==
  LET Followers(i) == (IF Falls(p, i) THEN {i + 1} ELSE {})
                       \cup (IF p[i].kind \in IfKinds \cup {"GOTO"}
                         THEN {LabelAt(p, p[i].labelno.int_val)} ELSE {})
                       \cup (IF p[i].kind = "CALL" THEN {FuncAt(p, p[i].funcname)} ELSE {})
      more == S \cup UNION {Followers(i) : i \in S \cap DOMAIN p}
  IN IF more = S THEN S ELSE Flow(p, more)
ASSUME SuiteWellFormed ==
  \A p \in Linked \ {MissingArg} : FormedOn(p, Flow(p, {FuncAt(p, Main)}))

(* An assembler takes all the others, and a symbol is out of its place in  *)
(* the last.                                                               *)
ASSUME SuiteLinks == /\ \A p \in Linked : Linkable(p)
                     /\ \A p \in Refused : ~Taken(p)
                     /\ Taken(CallsOwnRead) /\ ~Linkable(CallsOwnRead)

SomeInputs == {-1, 0, 2, 3}
SomeLeftovers == {0, 2}

-------------------------------------------------------------------------------
(* int f(int n) { return 6; } ... write(f(1)): nothing loads $t0 between   *)
(* the call and the WRITE.                                                 *)
WriteOfCall ==
  {<<None, Function("f"), Param(V(0)), Return(C(6)),
     Function("main"), Assign(V(2), C(1)), Arg(V(2)), Call(V(3), "f"), Write(V(3)),
     Return(C(0))>>}

(* if (0 < n) write(1);                                                    *)
ConstantOnLeft ==
  {<<None, Function("main"), Read(V(1)), Assign(V(0), V(1)),
     If("IFLT", C(0), V(0), L(0)), Goto(L(1)),
     Label(L(0)), Assign(V(2), C(1)), Write(V(2)), Label(L(1)), Return(C(0))>>}

(* write(a + 1 < b): on the way where the relation does not hold $t0 is    *)
(* left with a + 1, and a LABEL is all that stands between.                *)
WriteOfRelation ==
  {<<None, Function("main"), Read(V(0)), Read(V(1)), Assign(V(2), C(0)),
     Assign(V(4), V(0)), Assign(V(5), C(1)), Binary("ADD", V(3), V(4), V(5)),
     If("IFLT", V(3), V(1), L(0)), Goto(L(1)),
     Label(L(0)), Assign(V(2), C(1)), Label(L(1)), Write(V(2)), Return(C(0))>>}
ASSUME WriteOfRelationIsNot == \A p \in WriteOfRelation : ~WritesFollowStores(p, DOMAIN p)

==============================================================================
