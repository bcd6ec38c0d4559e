------------------------------ MODULE MCAnalyser ------------------------------
(***************************************************************************)
(* The analyser on small programs: every expression of two levels over     *)
(* variables, an array, a structure and functions, used rightly and        *)
(* wrongly, and every order of three definitions that may clash.           *)
(***************************************************************************)
EXTENDS Analyser

Int_ == TYPE("int")
Flt == TYPE("float")

(* Expressions in the scope of int a, arr[2]; float w; struct S s; f(int). *)
Leaves == {INT(1), FLOAT, ID("a"), ID("arr"), ID("s"), ID("w"), ID("z")}
Paths  == {DOT(ID("s"), "x"), DOT(ID("s"), "y"), DOT(ID("s"), "q"), DOT(ID("a"), "x"),
           INDEX(ID("arr"), INT(1)), INDEX(ID("a"), INT(1)), INDEX(ID("arr"), ID("w"))}
Calls  == {CALL("f", <<ID("a")>>), CALL("f", <<FLOAT>>), CALL("f", << >>), CALL("read", << >>),
           CALL("f", <<INT(1), INT(2)>>), CALL("a", <<INT(1)>>), CALL("h", <<ID("z")>>)}
Atoms  == Leaves \cup Paths \cup Calls
Lvalues == {ID("a"), ID("arr"), ID("s"), ID("w"), ID("z"), INT(1)} \cup Paths

NotWild(op, e, f) == op = "PLUS" => ~({e, f} \subseteq {ID("arr"), ID("s")})
Sums == {BIN("PLUS", ID("a"), ID("a")), CALL("f", <<ID("a")>>), CALL("read", << >>)}
Expressions ==
  Atoms \cup {NEG(e) : e \in Atoms} \cup {NOT(e) : e \in Atoms}
  \cup {BIN(t[1], t[2], t[3]) : t \in {u \in {"PLUS", "LT", "AND"} \X Atoms \X Atoms :
                                          NotWild(u[1], u[2], u[3])}}
  \cup {BIN("ASSIGN", l, e) : l \in Lvalues, e \in Atoms}
  \cup {BIN("ASSIGN", PAREN(l), e) : l \in Lvalues, e \in {INT(1), FLOAT}}
  \cup {BIN("ASSIGN", l, INT(1)) : l \in Sums}

Structure == STRUCTDEF("S", <<DECLARE(Int_, <<DEC(VAR("x"))>>), DECLARE(Flt, <<DEC(VAR("y"))>>)>>)
Around(e) ==
  <<EXTVARS(Int_, <<VAR("a"), ARRAY(VAR("arr"), 2)>>),
    FUN(Int_, "f", <<PARAM(Int_, VAR("p"))>>, BLOCK(<< >>, <<RETURN(ID("p"))>>)),
    FUN(Int_, "main", << >>,
        BLOCK(<<DECLARE(Structure, <<DEC(VAR("s"))>>), DECLARE(Flt, <<DECINIT(VAR("w"), FLOAT)>>)>>,
              <<EXPS(e), RETURN(ID("a"))>>))>>

(* Definitions that may clash with one another, or need one another.       *)
Definitions ==
  {EXTVARS(Int_, <<VAR("a")>>), EXTVARS(Int_, <<VAR("a"), VAR("a")>>), EXTVARS(Int_, <<VAR("f")>>),
   EXTVARS(Flt, <<VAR("a")>>), EXTSPEC(STRUCTREF("S")), EXTVARS(STRUCTREF("S"), <<VAR("t")>>),
   EXTSPEC(STRUCTDEF("S", <<DECLARE(Int_, <<DEC(VAR("x"))>>)>>)),
   EXTSPEC(STRUCTDEF("S", <<DECLARE(Int_, <<DEC(VAR("a"))>>)>>)),
   FUN(Int_, "f", << >>, BLOCK(<< >>, <<RETURN(INT(1))>>)),
   FUN(Int_, "f", <<PARAM(Int_, VAR("a"))>>, BLOCK(<< >>, <<RETURN(CALL("f", <<ID("a")>>))>>)),
   FUN(Flt, "g", << >>, BLOCK(<<DECLARE(Int_, <<DEC(VAR("b")), DECINIT(VAR("a"), ID("b"))>>)>>,
                              <<WHILE(ID("a"), BLOCK(<< >>, <<EXPS(CALL("f", <<ID("a")>>))>>)),
                                RETURN(FLOAT)>>)),
   FUN(Int_, "main", << >>, BLOCK(<< >>, <<IFELSE(CALL("f", << >>), EXPS(CALL("g", << >>)),
                                                  RETURN(INT(1))),
                                           RETURN(ID("a"))>>))}

Initializing(e) == <<FUN(Int_, "main", << >>, BLOCK(<<DECLARE(Int_, <<DECINIT(VAR("a"), e)>>)>>,
                                                   <<RETURN(ID("a"))>>))>>
Initializers == {INT(1), FLOAT, CALL("read", << >>), BIN("LT", FLOAT, FLOAT), NEG(FLOAT), ID("z")}

MCSources == {Around(e) : e \in Expressions} \cup {Initializing(e) : e \in Initializers}
             \cup {<<d1, d2, d3>> : d1, d2, d3 \in Definitions}

(* The analyser takes what its own table of types rules out (compare lines *)
(* 443-459 of NodeAnalyser.hpp with 519-545): `int, int -> int' for logic  *)
(* and relations, and an rvalue to the left of an assignment.              *)
Lapsing == {Around(BIN("AND", ID("w"), FLOAT)), Around(BIN("LT", ID("s"), ID("s"))),
            Around(NOT(ID("w"))), Around(BIN("ASSIGN", BIN("PLUS", ID("a"), ID("a")), INT(1))),
            Around(BIN("ASSIGN", CALL("f", <<ID("a")>>), INT(1))), Initializing(FLOAT)}
ASSUME LapsesAccepted == \A P \in Lapsing : Accepts(P) /\ NamesRight(P) /\ ~TypesRight(P)

===============================================================================
