------------------------------ MODULE MCKeptRun ------------------------------
(***************************************************************************)
(* simplify on programs with dead code in each place where it could matter:*)
(* in a loop, feeding itself, on both sides of a branch, around a call and *)
(* in what is recursive, and on translations of SPL programs.              *)
(***************************************************************************)
EXTENDS KeptRun, SequencesExt

Spl == INSTANCE MCPrograms
Gen == INSTANCE Translate

MCVars == {"v0", "v1", "v2", "v3", "v4", "v5", "t0", "t1", "t2", "t3", "t4", "t5", "t6", "t7", "t8", "t9"}
MCFuncs == {"main", "f", "g", "fact"}
SomeInputs == {-1, 0, 2, 3}
SomeLeftovers == {0, 3}

A == Variable("v0")
B == Variable("v1")
D == Variable("v2")
E == Variable("v3")
T == Variable("t0")
N(n) == Constant(n)
L(n) == LabelOpd(n)

(* Counts down; d and e are sums of themselves, t is live in the loop.     *)
Loop ==
  <<Function("main"), Read(A), Assign(D, N(0)), Assign(E, D),
    Label(L(0)), If("IFLE", A, N(0), L(1)),
    Binary("ADD", D, E, A), Binary("MUL", E, D, D), Binary("SUB", T, A, N(1)), Assign(A, T),
    Goto(L(0)), Label(L(1)), Write(A), Return(A)>>

(* Stores on both sides of a branch and behind it, one a division by zero. *)
Branches ==
  <<Function("main"), Read(A), Read(B), Assign(D, N(1)),
    If("IFEQ", A, B, L(0)), Assign(D, A), Assign(E, N(2)), Goto(L(1)),
    Label(L(0)), Binary("DIV", D, A, N(0)), Binary("DIV", E, A, N(0)),
    Label(L(1)), Assign(D, E), Write(E), Assign(T, D), Return(N(0))>>

(* Recursive: the useless d of each activation is computed from its useful *)
(* variables before and after the call, and is its caller's d after it.    *)
Recursive ==
  <<Function("f"), Param(A), Assign(D, A), If("IFLE", A, N(0), L(0)),
    Binary("SUB", T, A, N(1)), Arg(T), Call(B, "f"), Binary("ADD", D, D, B),
    Binary("ADD", B, B, A), Return(B),
    Label(L(0)), Assign(D, N(7)), Return(N(1)),
    Function("main"), Read(E), Assign(D, E), Arg(E), Call(B, "f"), Assign(D, B),
    Write(B), Arg(N(1)), Call(T, "f"), Write(E), Return(N(0))>>

HandMade == {Loop, Branches, Recursive}

(* The graph that the translate functions build beside such lines.         *)
Uses(o) == IF IsVariable(o) THEN {o.char_val} ELSE {}
StoredBy(p) == {p[i].dst.char_val : i \in {j \in DOMAIN p : IsVariable(p[j].dst)}}
EdgesOf(p, v) ==
  UNION {Uses(p[i].a) \cup Uses(p[i].b) :
           i \in {j \in DOMAIN p : p[j].kind \in {"ASSIGN"} \cup Arith /\ p[j].dst.char_val = v}}
RootsOf(c) ==
  CASE c.kind \in {"CALL", "PARAM"} -> <<Named(c.dst.char_val)>>
    [] c.kind \in {"WRITE", "ARG", "RETURN"} \cup IfKinds ->
         <<Own(SetToSeq(Uses(c.a) \cup Uses(c.b)))>>
    [] OTHER -> << >>
Graphed(p) == [code |-> [i \in DOMAIN p |-> Printed(p[i])],
               dmap |-> [v \in StoredBy(p) |-> SetToSeq(EdgesOf(p, v))],
               graphRoots |-> FlattenSeq([i \in DOMAIN p |-> RootsOf(p[i])])]

(* SPL programs with a dead variable: in a loop, in what is recursive, and  *)
(* one that a call's value goes to; and two of the repository's.           *)
a == Spl!a
d == Spl!ID("d")
e == Spl!ID("e")
n == Spl!n
Sub1(x) == Spl!BIN("MINUS", x, Spl!INT(1))
Reading == Spl!Let("a", Spl!CALL("read", << >>))
DeadInLoop ==
  <<Spl!MainIs(<<Reading, Spl!Let("d", a)>>,
      <<Spl!WHILE(Spl!BIN("GT", a, Spl!INT(0)),
                  Spl!BLOCK(<< >>, <<Spl!Down, Spl!Is(d, Spl!BIN("PLUS", d, a))>>)),
        Spl!Writes(a)>>)>>
DeadInCalls ==
  <<Spl!Takes("f", <<"n">>,
      <<Spl!BLOCK(<<Spl!Let("d", n)>>,
          <<Spl!IF_(Spl!BIN("LE", n, Spl!INT(0)), Spl!RETURN(n)),
            Spl!Is(d, Spl!BIN("MUL", d, n)),
            Spl!RETURN(Spl!CALL("f", <<Sub1(n)>>))>>)>>),
    Spl!MainIs(<<Reading, Spl!Let("e", Spl!CALL("f", <<a>>))>>, <<Spl!Is(e, a), Spl!Writes(a)>>)>>
SplPrograms == {DeadInLoop, DeadInCalls, Spl!SignOf, Spl!Fact}

FromTranslator(g) == [code |-> g.code, dmap |-> g.dmap, graphRoots |-> g.graphRoots]
ReadBack(g) == [i \in DOMAIN g.code |-> FromLine(g.code[i])]
SplMade == {Gen!Translated(P) : P \in SplPrograms}

MCOutputs == {Graphed(p) : p \in HandMade} \cup {FromTranslator(g) : g \in SplMade}
MCPrograms == HandMade \cup {ReadBack(g) : g \in SplMade}

(* None of them is left out: each is what its own lines say.               *)
ASSUME LinesReadBack ==
  \A g \in SplMade : g.status = "ok" /\ \A i \in DOMAIN g.code : Printed(FromLine(g.code[i])) = g.code[i]
==============================================================================
