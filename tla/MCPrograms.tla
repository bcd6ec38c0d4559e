------------------------------ MODULE MCPrograms ------------------------------
(***************************************************************************)
(* SPL programs for the models: the repository's test programs (their      *)
(* constants made smaller), a program around a statement, and statements   *)
(* that take each form of expression, condition, statement and call.       *)
(***************************************************************************)
EXTENDS SplTree, TLC

int == TYPE("int")
a == ID("a")
b == ID("b")
c == ID("c")
n == ID("n")
u == ID("u")
Is(x, e) == EXPS(BIN("ASSIGN", x, e))
Writes(e) == EXPS(CALL("write", <<e>>))
Takes(f, names, stmts) ==
  FUN(int, f, [i \in DOMAIN names |-> PARAM(int, VAR(names[i]))], BLOCK(<< >>, stmts))
MainIs(defs, stmts) == FUN(int, "main", << >>, BLOCK(defs, stmts \o <<RETURN(INT(0))>>))
Let(x, e) == DECLARE(int, <<DECINIT(VAR(x), e)>>)

(* f takes two values apart, g counts down by calling itself, h reads the  *)
(* global u.  A program has those of them that it calls.                   *)
Helpers ==
  <<Takes("f", <<"p", "q">>, <<RETURN(BIN("MINUS", ID("p"), ID("q")))>>),
    Takes("g", <<"n">>,
          <<IF_(BIN("LE", n, INT(0)), RETURN(INT(0))),
            RETURN(BIN("PLUS", n, CALL("g", <<BIN("MINUS", n, INT(1))>>)))>>),
    Takes("h", << >>, <<RETURN(BIN("PLUS", u, INT(1)))>>)>>
RECURSIVE Mentions(_, _)
Mentions(t, x) == t.id = x \/ \E i \in DOMAIN t.sub : Mentions(t.sub[i], x)

Around(s) ==
  <<EXTVARS(int, <<VAR("u")>>)>>
  \o SelectSeq(Helpers, LAMBDA d : Mentions(s, d.id))
  \o <<MainIs(<<Let("a", INT(2)), Let("b", CALL("read", << >>)), Let("c", INT(0))>>,
             (IF Mentions(s, "h") THEN <<Is(u, BIN("PLUS", a, b))>> ELSE << >>)
             \o <<s, Writes(a), Writes(b), Writes(c)>>)>>

Values ==
  {BIN(op, x, y) : op \in {"PLUS", "MINUS", "MUL"}, x \in {a, INT(3)}, y \in {b, PAREN(BIN("MINUS", b, a))}}
  \cup {BIN("DIV", x, y) : x \in {BIN("MINUS", b, INT(5)), b}, y \in {a, NEG(INT(2))}}
  \cup {NEG(a), NEG(BIN("MUL", a, b)), b, INT(4), PAREN(PAREN(b)), CALL("read", << >>), CALL("h", << >>),
        CALL("f", <<a, b>>), CALL("f", <<CALL("f", <<a, INT(1)>>), CALL("g", <<a>>)>>),
        CALL("f", <<BIN("LT", a, b), CALL("h", << >>)>>), CALL("f", <<CALL("read", << >>), CALL("read", << >>)>>),
        CALL("g", <<CALL("g", <<INT(2)>>)>>),
        BIN("MINUS", CALL("f", <<a, b>>), CALL("f", <<b, a>>)),
        BIN("PLUS", BIN("MUL", a, CALL("h", << >>)), NEG(CALL("f", <<b, INT(1)>>)))}

Comparisons == {BIN(op, x, y) : op \in Relations, x \in {a, BIN("PLUS", b, INT(1))}, y \in {b, INT(1)}}
               \cup {BIN("EQ", CALL("f", <<a, b>>), CALL("h", << >>)), BIN("LT", NEG(a), PAREN(b))}
Few == {BIN("LT", a, b), BIN("GE", CALL("f", <<b, a>>), INT(1)), BIN("NE", b, INT(2))}
Junctions == {BIN(op, x, y) : op \in {"AND", "OR"}, x, y \in Few}
             \cup {BIN("OR", BIN("AND", x, y), BIN("GT", a, b)) : x, y \in Few}
             \cup {BIN("AND", x, BIN("AND", y, BIN("GT", b, INT(0)))) : x, y \in Few}
Conditions == Comparisons \cup Junctions

Down == Is(a, BIN("MINUS", a, INT(1)))
Statements ==
  {Is(c, e) : e \in Values \cup Junctions} \cup {Is(c, e) : e \in Few}
  \cup {IFELSE(e, Is(c, INT(1)), Is(b, BIN("MINUS", a, b))) : e \in Conditions}
  \cup {WHILE(BIN("AND", BIN("GT", a, INT(0)), e), BLOCK(<< >>, <<Down, Is(c, BIN("PLUS", c, b))>>)) : e \in Few}
  \cup {WHILE(BIN("GT", a, INT(0)), BLOCK(<< >>, <<Down, s>>)) :
          s \in {IF_(BIN("LT", b, a), Writes(CALL("read", << >>))), Writes(BIN("MUL", a, CALL("g", <<a>>))),
                 WHILE(BIN("LT", c, a), Is(c, BIN("PLUS", c, INT(1)))),
                 IFELSE(BIN("LT", a, b), RETURN(a), EXPS(CALL("f", <<a, b>>)))}}
  \cup {BLOCK(<<Let("d", BIN("LT", a, b)), Let("e", CALL("f", <<a, b>>))>>, <<Is(ID("d"), a)>>),
        BLOCK(<<Let("d", BIN("PLUS", a, b)), Let("e", ID("d"))>>, <<Is(ID("d"), ID("e")), Is(ID("e"), INT(1))>>),
        BLOCK(<< >>, << >>), EXPS(CALL("f", <<CALL("h", << >>), a>>))}

(* The repository's programs.                                              *)
Fact ==
  <<Takes("fact", <<"n">>,
          <<IFELSE(BIN("EQ", n, INT(1)), RETURN(n),
                   RETURN(PAREN(BIN("MUL", n, CALL("fact", <<BIN("MINUS", n, INT(1))>>)))))>>),
    MainIs(<<DECLARE(int, <<DEC(VAR("m")), DEC(VAR("result"))>>)>>,
           <<Is(ID("m"), CALL("read", << >>)),
             IFELSE(BIN("GT", ID("m"), INT(1)), Is(ID("result"), CALL("fact", <<ID("m")>>)),
                    Is(ID("result"), INT(1))),
             Writes(ID("result"))>>)>>
p1 == ID("p1")
p2 == ID("p2")
p3 == ID("p3")
Less == BIN("MINUS", n, INT(1))
Move13 == Writes(BIN("PLUS", BIN("MUL", p1, INT(10)), p3))
Hanoi ==
  <<Takes("hanoi", <<"n", "p1", "p2", "p3">>,
          <<IFELSE(BIN("EQ", n, INT(1)), BLOCK(<< >>, <<Move13>>),
                   BLOCK(<< >>, <<EXPS(CALL("hanoi", <<Less, p1, p3, p2>>)), Move13,
                                  EXPS(CALL("hanoi", <<Less, p2, p1, p3>>))>>)),
            RETURN(INT(0))>>),
    MainIs(<<Let("sum", INT(2))>>, <<EXPS(CALL("hanoi", <<ID("sum"), INT(1), INT(2), INT(3)>>))>>)>>
SignOf ==
  <<MainIs(<<DECLARE(int, <<DEC(VAR("n"))>>)>>,
           <<Is(n, CALL("read", << >>)),
             IFELSE(BIN("GT", n, INT(0)), Writes(INT(1)),
                    IFELSE(BIN("LT", n, INT(0)), Writes(NEG(INT(1))), Writes(INT(0))))>>)>>
Sum ==
  <<MainIs(<<Let("a", INT(11)), Let("b", INT(9)), Let("c", INT(3))>>,
           <<Is(c, BIN("PLUS", BIN("MINUS", a, b), BIN("MUL", c, INT(2)))), Writes(c)>>)>>

-------------------------------------------------------------------------------
(* Statements with no WRITE of a call's value and no constant on the left  *)
(* of a relation, one of each form.                                        *)
Plain ==
  {Is(c, e) : e \in {CALL("f", <<CALL("f", <<a, INT(1)>>), CALL("g", <<a>>)>>), CALL("h", << >>),
                     BIN("MINUS", CALL("f", <<a, b>>), CALL("f", <<b, a>>)),
                     CALL("f", <<CALL("read", << >>), CALL("read", << >>)>>),
                     BIN("DIV", BIN("MINUS", b, INT(5)), NEG(INT(2))), BIN("OR", BIN("LT", a, b), BIN("EQ", b, INT(0)))}}
  \cup {IFELSE(BIN("AND", BIN("GE", CALL("f", <<b, a>>), INT(1)), BIN("NE", b, INT(2))),
               Is(c, INT(1)), Is(b, BIN("MINUS", a, b))),
        WHILE(BIN("GT", a, INT(0)), BLOCK(<< >>, <<Down, Writes(BIN("MUL", a, CALL("g", <<a>>)))>>)),
        BLOCK(<<Let("d", BIN("LT", a, b)), Let("e", CALL("f", <<a, b>>))>>, <<Is(ID("d"), a)>>),
        EXPS(CALL("f", <<CALL("h", << >>), a>>))}
PlainPrograms == {Around(s) : s \in Plain} \cup {Fact, Hanoi, SignOf, Sum}
===============================================================================
