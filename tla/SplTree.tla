-------------------------------- MODULE SplTree --------------------------------
(***************************************************************************)
(* The trees the parser builds for an SPL program (the rules of syntax.y,  *)
(* TreeNode.hpp).  A node is a record: k names its production, id is the   *)
(* name it carries, n the number, sub its subtrees.  Lists of the grammar  *)
(* (ExtDefList, DefList, StmtList, Args, ...) are sequences, and tokens    *)
(* that only punctuate are left out.                                       *)
(***************************************************************************)
EXTENDS Integers, Sequences

Tree(k, id, n, sub) == [k |-> k, id |-> id, n |-> n, sub |-> sub]

(* Expressions.                                                            *)
Relations  == {"LT", "LE", "GT", "GE", "NE", "EQ"}
Arithmetic == {"PLUS", "MINUS", "MUL", "DIV"}
Operators  == {"ASSIGN", "AND", "OR"} \cup Relations \cup Arithmetic
Literals   == {"INT", "FLOAT", "CHAR"}

INT(n)        == Tree("INT", "", n, << >>)
FLOAT         == Tree("FLOAT", "", 0, << >>)
CHAR          == Tree("CHAR", "", 0, << >>)
ID(x)         == Tree("ID", x, 0, << >>)
BIN(op, e, f) == Tree(op, "", 0, <<e, f>>)
PAREN(e)      == Tree("PAREN", "", 0, <<e>>)
NEG(e)        == Tree("NEG", "", 0, <<e>>)
NOT(e)        == Tree("NOT", "", 0, <<e>>)
CALL(f, args) == Tree("CALL", f, 0, args)     \* no arguments: ID LP RP
INDEX(e, f)   == Tree("INDEX", "", 0, <<e, f>>)
DOT(e, x)     == Tree("DOT", x, 0, <<e>>)

(* Specifiers and declarations.                                            *)
TYPE(t)            == Tree("TYPE", t, 0, << >>)
STRUCTDEF(x, defs) == Tree("STRUCTDEF", x, 0, defs)
STRUCTREF(x)       == Tree("STRUCTREF", x, 0, << >>)
VAR(x)             == Tree("VAR", x, 0, << >>)
ARRAY(v, n)        == Tree("ARRAY", "", n, <<v>>)
DEC(v)             == Tree("DEC", "", 0, <<v>>)
DECINIT(v, e)      == Tree("DEC", "", 0, <<v, e>>)
DECLARE(spec, decs) == Tree("DEF", "", 0, <<spec>> \o decs)

(* Statements; DefList and StmtList of a block are kept apart by n.        *)
BLOCK(defs, stmts) == Tree("BLOCK", "", Len(defs), defs \o stmts)
EXPS(e)            == Tree("EXPS", "", 0, <<e>>)
RETURN(e)          == Tree("RETURN", "", 0, <<e>>)
IF_(e, s)          == Tree("IF", "", 0, <<e, s>>)
IFELSE(e, s, t)    == Tree("IFELSE", "", 0, <<e, s, t>>)
WHILE(e, s)        == Tree("WHILE", "", 0, <<e, s>>)

(* External definitions; a program is a sequence of them.                  *)
PARAM(spec, v)           == Tree("PARAM", "", 0, <<spec, v>>)
FUN(spec, f, pars, body) == Tree("FUN", f, Len(pars), <<spec>> \o pars \o <<body>>)
EXTVARS(spec, vs)        == Tree("EXTVARS", "", 0, <<spec>> \o vs)
EXTSPEC(spec)            == Tree("EXTSPEC", "", 0, <<spec>>)

Defs(b)   == SubSeq(b.sub, 1, b.n)
Stmts(b)  == SubSeq(b.sub, b.n + 1, Len(b.sub))
Params(d) == SubSeq(d.sub, 2, d.n + 1)
Body(d)   == d.sub[Len(d.sub)]

================================================================================
