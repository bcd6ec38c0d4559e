------------------------------- MODULE TacLine -------------------------------
(***************************************************************************)
(* The lines of an IR file and the quadruples they stand for               *)
(* (_tac_from_line and tac_print of tac.cpp).  A line is the sequence of   *)
(* its blank-separated tokens; a token is its leading character, where that*)
(* decides (#, &, *, label), and what follows.                             *)
(***************************************************************************)
EXTENDS Tac

(* Tokens and operands.                                                    *)
Tok(lead, name, num) == [lead |-> lead, name |-> name, num |-> num]
Word(w) == Tok("", w, 0)

OpdFromTok(tk) == CASE tk.lead = "#"     -> Constant(tk.num)
                    [] tk.lead = "&"     -> Pointer(tk.name)
                    [] tk.lead = "label" -> LabelOpd(tk.num)
                    [] OTHER             -> Variable(tk.name)
BehindKeptStar(tk) == OpdFromTok(Word("*"))
Behind(tk) == OpdFromTok(Word(tk.name))    \* the operand after a leading *

OpdPrinted(o) == CASE o.kind = "OP_LABEL"    -> Tok("label", NoVar, o.int_val)
                   [] o.kind = "OP_VARIABLE" -> Word(o.char_val)
                   [] o.kind = "OP_CONSTANT" -> Tok("#", NoVar, o.int_val)
                   [] o.kind = "OP_POINTER"  -> Tok("&", o.char_val, 0)

ArithSign == [ADD |-> "+", SUB |-> "-", MUL |-> "*", DIV |-> "/"]
Relation == [IFLT |-> "<", IFLE |-> "<=", IFGT |-> ">", IFGE |-> ">=",
             IFNE |-> "!=", IFEQ |-> "=="]
KindOf(table, w) == CHOOSE k \in DOMAIN table : table[k] = w

(* _tac_from_line, by the number of tokens of the line.                    *)
FromTwo(ln) ==
  LET o == OpdFromTok(ln[2])
  IN CASE ln[1].name = "GOTO"   -> Goto(o)
       [] ln[1].name = "RETURN" -> Return(o)
       [] ln[1].name = "ARG"    -> Arg(o)
       [] ln[1].name = "PARAM"  -> Param(o)
       [] ln[1].name = "READ"   -> Read(o)
       [] ln[1].name = "WRITE"  -> Write(o)

FromThree(ln) ==
  CASE ln[1] = Word("LABEL")    -> Label(OpdFromTok(ln[2]))
    [] ln[1] = Word("FUNCTION") -> Function(ln[2].name)
    [] ln[1] = Word("DEC")      -> Dec(Pointer(ln[2].name), ln[3].num)
    [] ln[1].lead = "*"         -> Deref(Behind(ln[1]), OpdFromTok(ln[3]))
    [] ln[1].lead # "*" /\ ln[3].lead = "*" -> Fetch(OpdFromTok(ln[1]), Behind(ln[3]))
    [] ln[1].lead # "*" /\ ln[3].lead = "&" -> Addr(OpdFromTok(ln[1]), OpdFromTok(ln[3]))
    [] OTHER                    -> Assign(OpdFromTok(ln[1]), OpdFromTok(ln[3]))

FromFiveSwapped(ln) == Binary(KindOf(ArithSign, ln[4].name), OpdFromTok(ln[1]),
                              OpdFromTok(ln[5]), OpdFromTok(ln[3]))
FromFive(ln) == Binary(KindOf(ArithSign, ln[4].name), OpdFromTok(ln[1]),
                       OpdFromTok(ln[3]), OpdFromTok(ln[5]))

FromSix(ln) == If(KindOf(Relation, ln[3].name), OpdFromTok(ln[2]),
                  OpdFromTok(ln[4]), OpdFromTok(ln[6]))

FromLine(ln) == CASE Len(ln) = 2 -> FromTwo(ln)
                  [] Len(ln) = 3 -> FromThree(ln)
                  [] Len(ln) = 4 -> Call(OpdFromTok(ln[1]), ln[4].name)
                  [] Len(ln) = 5 -> FromFive(ln)
                  [] Len(ln) = 6 -> FromSix(ln)

(* The lines that get a quadruple.  A line of two words that starts with no*)
(* known one runs into assert(0), an empty line into _str_split's assert,  *)
(* and a line of one token is taken for one of six.                        *)
Readable(ln) ==
  /\ Len(ln) \in 2 .. 6
  /\ Len(ln) = 2 => ln[1].name \in {"GOTO", "RETURN", "ARG", "PARAM", "READ", "WRITE"}

(* tac_print, node by node.                                                *)
Printed(c) ==
  CASE c.kind = "LABEL"    -> <<Word("LABEL"), OpdPrinted(c.labelno), Word(":")>>
    [] c.kind = "FUNCTION" -> <<Word("FUNCTION"), Word(c.funcname), Word(":")>>
    [] c.kind \in {"ASSIGN", "ADDR"} -> <<OpdPrinted(c.dst), Word(":="), OpdPrinted(c.a)>>
    [] c.kind \in Arith    -> <<OpdPrinted(c.dst), Word(":="), OpdPrinted(c.a),
                                Word(ArithSign[c.kind]), OpdPrinted(c.b)>>
    [] c.kind = "FETCH"    -> <<OpdPrinted(c.dst), Word(":="), Tok("*", c.a.char_val, 0)>>
    [] c.kind = "DEREF"    -> <<Tok("*", c.a.char_val, 0), Word(":="), OpdPrinted(c.b)>>
    [] c.kind = "GOTO"     -> <<Word("GOTO"), OpdPrinted(c.labelno)>>
    [] c.kind \in IfKinds  -> <<Word("IF"), OpdPrinted(c.a), Word(Relation[c.kind]),
                                OpdPrinted(c.b), Word("GOTO"), OpdPrinted(c.labelno)>>
    [] c.kind \in {"RETURN", "ARG", "WRITE"} -> <<Word(c.kind), OpdPrinted(c.a)>>
    [] c.kind \in {"PARAM", "READ"} -> <<Word(c.kind), OpdPrinted(c.dst)>>
    [] c.kind = "DEC"      -> <<Word("DEC"), Word(c.a.char_val), Tok("", NoVar, c.b.int_val)>>
    [] c.kind = "CALL"     -> <<OpdPrinted(c.dst), Word(":="), Word("CALL"), Word(c.funcname)>>
    [] c.kind = "NONE"     -> << >>

==============================================================================
