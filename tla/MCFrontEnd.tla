------------------------------ MODULE MCFrontEnd ------------------------------
(***************************************************************************)
(* The front end on the repository's test programs, on a program around    *)
(* every statement of a list, and on programs the analyser rejects.        *)
(***************************************************************************)
EXTENDS FrontEnd, MCPrograms

MCVars == {"v" \o ToString(i) : i \in 0 .. 20} \cup {"t" \o ToString(i) : i \in 0 .. 40}
MCFuncs == {"main", "f", "g", "h", "fact", "hanoi", "t1"}
SomeInputs == {-1, 2, 3}

(* Programs with an error: a name unknown, twice, or of the wrong kind.    *)
Wrong == {Around(Is(c, ID("z"))), Around(EXPS(CALL("f", <<a>>))), Around(Is(c, FLOAT)),
          Around(BLOCK(<<Let("a", INT(1))>>, << >>)), Fact \o Fact}

MCSources == {Around(s) : s \in Statements} \cup {Fact, Hanoi, SignOf, Sum} \cup Wrong

(* Accepted programs whose code does not do what they mean, one set for    *)
(* each reason: taken for Sources, TLC shows how.                          *)
NestedAssignment == {Around(Is(c, BIN("ASSIGN", ID("u"), INT(3)))),
                     <<MainIs(<<Let("a", INT(1)), Let("b", INT(2))>>,
                              <<Is(a, BIN("ASSIGN", b, INT(3))), Writes(a)>>)>>}
CallStatement == {Around(EXPS(CALL("h", << >>)))}
ReadStatement == {Around(EXPS(CALL("read", << >>)))}
ParenCondition == {Around(IF_(PAREN(BIN("LT", a, b)), Is(c, INT(1))))}
NegatedCondition == {Around(IF_(NOT(PAREN(BIN("LT", a, b))), Is(c, INT(1))))}
ArithmeticCondition == {Around(IF_(BIN("AND", BIN("MINUS", b, a), BIN("LT", a, INT(9))), Is(c, INT(1))))}
UnusedRead == {<<MainIs(<<Let("a", CALL("read", << >>)), Let("b", CALL("read", << >>))>>, <<Writes(b)>>)>>}
NamedLikeTemp ==
  {<<Takes("t1", <<"n">>, <<RETURN(n)>>),
     MainIs(<<Let("a", INT(1)), Let("b", INT(2))>>,
            <<Is(a, INT(3)), Is(b, INT(4)), Writes(CALL("t1", <<INT(5)>>))>>)>>}
GlobalWritten ==
  {<<EXTVARS(int, <<VAR("u")>>),
     Takes("f", <<"n">>, <<Is(u, n), RETURN(n)>>),
     MainIs(<< >>, <<Is(u, INT(1)), EXPS(CALL("f", <<INT(2)>>)), Writes(u)>>)>>}
===============================================================================
