------------------------------ MODULE MCMipsGen ------------------------------
(***************************************************************************)
(* MipsGen over every list of up to GenLength quadruples drawn from those  *)
(* the front end prints, with every mix of variable and constant operands  *)
(* the emitters tell apart, and from the three that only the TAC reader     *)
(* knows and the emitters accept (FETCH, DEREF and DEC).                   *)
(***************************************************************************)
EXTENDS MipsGen

CONSTANTS x, y, f, GenLength

X == Variable(x)
Y == Variable(y)
C == Constant(7)

FrontEnd ==
  {None, Function(f), Assign(X, C), Assign(X, Y),
   Binary("ADD", X, C, Y), Binary("SUB", Y, X, C), Binary("ADD", X, Y, X),
   Binary("MUL", Y, X, Y), If("IFLT", X, Y, LabelOpd(1)), If("IFEQ", X, C, LabelOpd(1)),
   If("IFGE", C, Y, LabelOpd(1)), Goto(LabelOpd(1)), Arg(C), Return(X), Call(X, f), Param(Y), Read(Y), Write(X)}

ReaderOnly == {Fetch(X, Y), Deref(X, Y), Dec(X, 4)}

Lists(pool, n) == UNION {[1 .. k -> pool] : k \in 1 .. n}

AcceptedLists == Lists(FrontEnd \cup ReaderOnly, GenLength)

(* These are quadruples whose operands fit, as the theorem about the failed*)
(* asserts asks; and the constant condition below is not.                  *)
ASSUME PoolFits == \A c \in FrontEnd \cup ReaderOnly : OperandsFit(c)

(* while (1 == 1) ... *)
ConstantCondition == {<<None, Function(f), If("IFEQ", Constant(1), Constant(1), LabelOpd(1))>>}
ASSUME TwoConstantsDoNot == \A l \in ConstantCondition : ~OperandsFit(l[3])

==============================================================================
