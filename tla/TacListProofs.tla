---------------------------- MODULE TacListProofs ----------------------------
(***************************************************************************)
(* The TAC list is built in file order, whatever the lines of the file.    *)
(***************************************************************************)
EXTENDS TacList, SequenceTheorems, TLAPS

LEMMA ListInvInit == ListInit => ListInv
BY DEF ListInit, ListInv, InFileOrder, Newest, NULL

(* A new node leaves the links of the others alone.                        *)
LEMMA ReadLineKeeps == ListInv /\ ReadLine => ListInv'
<1> SUFFICES ASSUME ListInv, ReadLine PROVE ListInv'
  OBVIOUS
<1>1. CASE ~Readable(buf[buf_i])
  BY <1>1 DEF ReadLine, ListInv, InFileOrder, Newest
<1>2. CASE Readable(buf[buf_i])
  <2>1. /\ next' = Append(next, NULL) /\ prev' = Append(prev, NULL) /\ p' = 1
        /\ p = NULL /\ buf_i' = buf_i
    BY <1>2 DEF ReadLine
  <2>2. /\ next \in Seq(Nat) /\ prev \in Seq(Nat) /\ Len(next) = buf_i /\ Len(prev) = buf_i
        /\ buf_i \in Nat /\ buf_i > 0
    BY <2>1 DEF ListInv, Newest
  <2>3. /\ next' \in Seq(Nat) /\ prev' \in Seq(Nat)
        /\ Len(next') = buf_i + 1 /\ Len(prev') = buf_i + 1 /\ next'[buf_i + 1] = NULL
        /\ \A n \in 1 .. buf_i : next'[n] = next[n] /\ prev'[n] = prev[n]
    BY <2>1, <2>2 DEF NULL
  <2> QED
    BY <2>1, <2>2, <2>3 DEF ListInv, InFileOrder, Newest, NULL
<1> QED
  BY <1>1, <1>2

LEMMA WalkKeeps == ListInv /\ Walk => ListInv'
<1> SUFFICES ASSUME ListInv, Walk PROVE ListInv'
  OBVIOUS
<1>1. p \in 1 .. buf_i /\ p # buf_i /\ p' = p + 1
  BY DEF Walk, ListInv, InFileOrder, NULL
<1>2. UNCHANGED <<buf_i, next, prev>>
  BY DEF Walk
<1> QED
  BY <1>1, <1>2 DEF ListInv, InFileOrder, Newest, NULL

(* The walk has stopped at the node without a next, which is the last.     *)
LEMMA InsertKeeps == ListInv /\ Insert => ListInv'
<1> SUFFICES ASSUME ListInv, Insert PROVE ListInv'
  OBVIOUS
<1>1. /\ buf_i \in Nat \ {0} /\ next \in Seq(Nat) /\ prev \in Seq(Nat) /\ p # NULL
      /\ Len(next) = buf_i + 1 /\ Len(prev) = buf_i + 1 /\ p \in 0 .. buf_i
      /\ next[buf_i + 1] = NULL
  BY DEF Insert, ListInv, Newest
<1>2. p = buf_i
  BY <1>1 DEF Insert, ListInv, InFileOrder, NULL
<1>3. /\ p' = NULL /\ buf_i' = buf_i + 1
      /\ next' = [next EXCEPT ![buf_i] = buf_i + 1, ![buf_i + 1] = NULL]
      /\ prev' = [n \in DOMAIN prev |-> IF n = buf_i + 1 THEN buf_i
                                        ELSE IF n = NULL THEN buf_i + 1 ELSE prev[n]]
  BY <1>1, <1>2 DEF Insert, NextLinked, PrevLinked, Newest
<1>4. /\ next' \in Seq(Nat) /\ Len(next') = buf_i + 1
      /\ next'[buf_i] = buf_i + 1 /\ next'[buf_i + 1] = NULL
      /\ \A n \in 1 .. buf_i - 1 : next'[n] = next[n]
  <2>1. DOMAIN next = 1 .. buf_i + 1 /\ buf_i \in 1 .. buf_i + 1 /\ buf_i + 1 \in 1 .. buf_i + 1
        /\ buf_i # buf_i + 1
    BY <1>1
  <2>2. next' \in [1 .. buf_i + 1 -> Nat]
    <3>1. next \in [1 .. buf_i + 1 -> Nat] /\ buf_i + 1 \in Nat /\ NULL \in Nat
      BY <1>1, <2>1 DEF NULL
    <3> QED  BY <1>3, <3>1
  <2>3. next'[buf_i] = buf_i + 1 /\ next'[buf_i + 1] = NULL
    BY <1>3, <2>1
  <2>4. \A n \in 1 .. buf_i - 1 : n \in DOMAIN next /\ n # buf_i /\ n # buf_i + 1
    BY <1>1, <2>1
  <2> QED  BY <1>1, <1>3, <2>2, <2>3, <2>4
<1>5. /\ prev' \in Seq(Nat) /\ Len(prev') = buf_i + 1 /\ prev'[buf_i + 1] = buf_i
      /\ \A n \in 1 .. buf_i : prev'[n] = prev[n]
  <2>1. DOMAIN prev = 1 .. buf_i + 1
    BY <1>1
  <2>2. \A n \in 1 .. buf_i + 1 : prev'[n] \in Nat
    BY <1>1, <1>3, <2>1
  <2>3. prev' \in [1 .. buf_i + 1 -> Nat]
    BY <1>3, <2>1, <2>2
  <2> QED  BY <1>1, <1>3, <2>1, <2>3 DEF NULL
<1>6. InFileOrder'
  <2>1. ASSUME NEW n \in 1 .. buf_i + 1
        PROVE  /\ next'[n] = IF n = buf_i + 1 THEN NULL ELSE n + 1
               /\ prev'[n] = n - 1
    <3>1. CASE n = buf_i + 1
      BY <1>1, <1>4, <1>5, <3>1
    <3>2. CASE n \in 1 .. buf_i
      <4>1. next[n] = (IF n = buf_i THEN NULL ELSE n + 1) /\ prev[n] = n - 1
        BY <3>2 DEF ListInv, InFileOrder
      <4>2. n = buf_i \/ n \in 1 .. buf_i - 1
        BY <1>1, <3>2
      <4> QED  BY <1>1, <1>4, <1>5, <3>2, <4>1, <4>2
    <3> QED  BY <1>1, <3>1, <3>2
  <2> QED  BY <1>3, <2>1 DEF InFileOrder
<1> QED
  BY <1>1, <1>3, <1>4, <1>5, <1>6 DEF ListInv, Newest, NULL

LEMMA ListInvStep == ListInv /\ [ListNext]_listVars => ListInv'
<1>1. ListInv /\ Finish => ListInv'
  BY DEF Finish, ListInv, InFileOrder, Newest
<1>2. ListInv /\ UNCHANGED listVars => ListInv'
  BY DEF listVars, ListInv, InFileOrder, Newest
<1> QED
  BY <1>1, <1>2, ReadLineKeeps, WalkKeeps, InsertKeeps DEF ListNext

(* For every file: the linked nodes are in the order of their lines, and   *)
(* every prev undoes its next.                                             *)
THEOREM AlwaysInFileOrder == ListSpec => []InFileOrder
<1>1. ListInv => InFileOrder
  BY DEF ListInv
<1> QED
  BY <1>1, ListInvInit, ListInvStep, PTL DEF ListSpec

(* For every file: the list and the walk are in step, between two lines    *)
(* and inside tac_append.                                                  *)
THEOREM AlwaysListInv == ListSpec => []ListInv
<1> QED
  BY ListInvInit, ListInvStep, PTL DEF ListSpec

-------------------------------------------------------------------------------
(* Printing and reading: _tac_from_line undoes tac_print.                  *)
LEMMA WordsDiffer ==
  /\ \A v, w : v # w => Word(v) # Word(w)
  /\ \A w : Word(w).lead = "" /\ Word(w).name = w
<1>1. \A w : Word(w).lead = "" /\ Word(w).name = w
  BY DEF Word, Tok
<1>2. \A v, w : v # w => Word(v) # Word(w)
  <2>1. \A w : Word(w).name = w
    BY <1>1
  <2> QED  BY <2>1
<1> QED
  BY <1>1, <1>2

LEMMA PlainReadsBack ==
  ASSUME NEW o, Plain(o)
  PROVE  /\ o \in Opd /\ OpdFromTok(OpdPrinted(o)) = o
         /\ OpdPrinted(o) # Word("LABEL") /\ OpdPrinted(o) # Word("FUNCTION")
         /\ OpdPrinted(o) # Word("DEC") /\ OpdPrinted(o).lead # "*"
         /\ OpdPrinted(o).lead = "&" <=> o.kind = "OP_POINTER"
         /\ IsVariable(o) => Variable(o.char_val) = o
         /\ o.kind = "OP_POINTER" => Pointer(o.char_val) = o
<1>1. CASE \E v \in Vars : o = Variable(v)
  <2>1. PICK v \in Vars : o = Variable(v)
    BY <1>1
  <2>2. /\ o.kind = "OP_VARIABLE" /\ o.char_val = v /\ o.int_val = 0
    BY <2>1 DEF Variable
  <2>3. o \in Opd
    BY <2>1 DEF Variable, Opd, OpdKinds
  <2>4. OpdPrinted(o) = Word(v)
    BY <2>2 DEF OpdPrinted
  <2>5. v # "LABEL" /\ v # "FUNCTION" /\ v # "DEC"
    BY WordsAssumption
  <2>6. OpdFromTok(Word(v)) = o
    BY <2>1, WordsDiffer DEF OpdFromTok
  <2>7. Word(v) # Word("LABEL") /\ Word(v) # Word("FUNCTION") /\ Word(v) # Word("DEC")
    BY <2>5, WordsDiffer
  <2>8. Word(v).lead = ""
    BY WordsDiffer
  <2> QED  BY <2>1, <2>2, <2>3, <2>4, <2>6, <2>7, <2>8 DEF IsVariable
<1>2. CASE \E v \in Vars : o = Pointer(v)
  <2>1. PICK v \in Vars : o = Pointer(v)
    BY <1>2
  <2>2. /\ o.kind = "OP_POINTER" /\ o.char_val = v /\ o.int_val = 0
    BY <2>1 DEF Pointer
  <2>3. o \in Opd
    BY <2>1 DEF Pointer, Opd, OpdKinds
  <2>4. OpdPrinted(o) = Tok("&", v, 0)
    BY <2>2 DEF OpdPrinted
  <2>6. OpdFromTok(Tok("&", v, 0)) = o
    BY <2>1 DEF OpdFromTok, Tok
  <2>7. \A w : Tok("&", v, 0) # Word(w)
    <3> TAKE w
    <3>1. Tok("&", v, 0).lead # Word(w).lead
      BY DEF Tok, Word
    <3> QED  BY <3>1
  <2>8. Tok("&", v, 0).lead = "&"
    BY DEF Tok
  <2> QED  BY <2>1, <2>2, <2>3, <2>4, <2>6, <2>7, <2>8 DEF IsVariable
<1>3. CASE o.int_val \in Int /\ o = Constant(o.int_val)
  <2>1. PICK n \in Int : o = Constant(n)
    BY <1>3
  <2>2. /\ o.kind = "OP_CONSTANT" /\ o.char_val = NoVar /\ o.int_val = n
    BY <2>1 DEF Constant
  <2>3. o \in Opd
    BY <2>1, NamesAssumption DEF Constant, Opd, OpdKinds
  <2>4. OpdPrinted(o) = Tok("#", NoVar, n)
    BY <2>2 DEF OpdPrinted
  <2>6. OpdFromTok(Tok("#", NoVar, n)) = o
    BY <2>1 DEF OpdFromTok, Tok
  <2>7. \A w : Tok("#", NoVar, n) # Word(w)
    <3> TAKE w
    <3>1. Tok("#", NoVar, n).lead # Word(w).lead
      BY DEF Tok, Word
    <3> QED  BY <3>1
  <2>8. Tok("#", NoVar, n).lead = "#"
    BY DEF Tok
  <2> QED  BY <2>1, <2>2, <2>3, <2>4, <2>6, <2>7, <2>8 DEF IsVariable
<1>4. CASE o.int_val \in Int /\ o = LabelOpd(o.int_val)
  <2>1. PICK n \in Int : o = LabelOpd(n)
    BY <1>4
  <2>2. /\ o.kind = "OP_LABEL" /\ o.char_val = NoVar /\ o.int_val = n
    BY <2>1 DEF LabelOpd
  <2>3. o \in Opd
    BY <2>1, NamesAssumption DEF LabelOpd, Opd, OpdKinds
  <2>4. OpdPrinted(o) = Tok("label", NoVar, n)
    BY <2>2 DEF OpdPrinted
  <2>6. OpdFromTok(Tok("label", NoVar, n)) = o
    BY <2>1 DEF OpdFromTok, Tok
  <2>7. \A w : Tok("label", NoVar, n) # Word(w)
    <3> TAKE w
    <3>1. Tok("label", NoVar, n).lead # Word(w).lead
      BY DEF Tok, Word
    <3> QED  BY <3>1
  <2>8. Tok("label", NoVar, n).lead = "label"
    BY DEF Tok
  <2> QED  BY <2>1, <2>2, <2>3, <2>4, <2>6, <2>7, <2>8 DEF IsVariable
<1> QED
  BY <1>1, <1>2, <1>3, <1>4 DEF Plain

(* Lines of each length.                                                   *)
LEMMA LinesOfLength ==
  /\ \A x, y : /\ Len(<<x, y>>) = 2 /\ <<x, y>>[1] = x /\ <<x, y>>[2] = y
               /\ FromLine(<<x, y>>) = FromTwo(<<x, y>>)
  /\ \A x, y, z : /\ Len(<<x, y, z>>) = 3 /\ <<x, y, z>>[1] = x /\ <<x, y, z>>[2] = y
                  /\ <<x, y, z>>[3] = z
                  /\ FromLine(<<x, y, z>>) = FromThree(<<x, y, z>>)
  /\ \A x, y, z, u : /\ Len(<<x, y, z, u>>) = 4
                     /\ FromLine(<<x, y, z, u>>) = Call(OpdFromTok(x), u.name)
  /\ \A x, y, z, u, v : /\ Len(<<x, y, z, u, v>>) = 5
                        /\ FromLine(<<x, y, z, u, v>>)
                             = Binary(KindOf(ArithSign, u.name), OpdFromTok(x),
                                      OpdFromTok(z), OpdFromTok(v))
  /\ \A x, y, z, u, v, w : /\ Len(<<x, y, z, u, v, w>>) = 6
                           /\ FromLine(<<x, y, z, u, v, w>>)
                                = If(KindOf(Relation, z.name), OpdFromTok(y),
                                     OpdFromTok(u), OpdFromTok(w))
<1>1. \A x, y : /\ Len(<<x, y>>) = 2 /\ <<x, y>>[1] = x /\ <<x, y>>[2] = y
                /\ FromLine(<<x, y>>) = FromTwo(<<x, y>>)
  BY DEF FromLine
<1>2. \A x, y, z : /\ Len(<<x, y, z>>) = 3 /\ <<x, y, z>>[1] = x /\ <<x, y, z>>[2] = y
                   /\ <<x, y, z>>[3] = z
                   /\ FromLine(<<x, y, z>>) = FromThree(<<x, y, z>>)
  BY DEF FromLine
<1>3. \A x, y, z, u : /\ Len(<<x, y, z, u>>) = 4
                      /\ FromLine(<<x, y, z, u>>) = Call(OpdFromTok(x), u.name)
  BY DEF FromLine
<1>4. \A x, y, z, u, v : /\ Len(<<x, y, z, u, v>>) = 5
                         /\ FromLine(<<x, y, z, u, v>>)
                              = Binary(KindOf(ArithSign, u.name), OpdFromTok(x),
                                       OpdFromTok(z), OpdFromTok(v))
  BY DEF FromLine, FromFive
<1>5. \A x, y, z, u, v, w : /\ Len(<<x, y, z, u, v, w>>) = 6
                            /\ FromLine(<<x, y, z, u, v, w>>)
                                 = If(KindOf(Relation, z.name), OpdFromTok(y),
                                      OpdFromTok(u), OpdFromTok(w))
  BY DEF FromLine, FromSix
<1> QED
  BY <1>1, <1>2, <1>3, <1>4, <1>5

LEMMA SignsRead ==
  /\ \A k \in Arith : KindOf(ArithSign, ArithSign[k]) = k
  /\ \A k \in IfKinds : KindOf(Relation, Relation[k]) = k
<1>1. /\ DOMAIN ArithSign = Arith
      /\ \A j, k \in Arith : ArithSign[j] = ArithSign[k] => j = k
  BY DEF ArithSign, Arith, AddSub, MulDiv
<1>2. /\ DOMAIN Relation = IfKinds
      /\ \A j, k \in IfKinds : Relation[j] = Relation[k] => j = k
  BY DEF Relation, IfKinds
<1> QED
  BY <1>1, <1>2 DEF KindOf

LEMMA QuadFields ==
  ASSUME NEW k, NEW d, NEW a, NEW b, NEW l, NEW f
  PROVE  /\ Quad(k, d, a, b, l, f).kind = k /\ Quad(k, d, a, b, l, f).dst = d
         /\ Quad(k, d, a, b, l, f).a = a /\ Quad(k, d, a, b, l, f).b = b
         /\ Quad(k, d, a, b, l, f).labelno = l /\ Quad(k, d, a, b, l, f).funcname = f
BY DEF Quad

LEMMA AbsentTyped == Absent \in Opd /\ \A n \in Int : Constant(n) \in Opd
BY NamesAssumption DEF Absent, Constant, Opd, OpdKinds

(* What is printed, by the kind of quadruple.                              *)
LEMMA PrintedAs ==
  ASSUME NEW c
  PROVE  /\ c.kind = "LABEL" =>
              Printed(c) = <<Word("LABEL"), OpdPrinted(c.labelno), Word(":")>>
         /\ c.kind = "FUNCTION" =>
              Printed(c) = <<Word("FUNCTION"), Word(c.funcname), Word(":")>>
         /\ c.kind \in {"ASSIGN", "ADDR"} =>
              Printed(c) = <<OpdPrinted(c.dst), Word(":="), OpdPrinted(c.a)>>
         /\ c.kind \in Arith =>
              Printed(c) = <<OpdPrinted(c.dst), Word(":="), OpdPrinted(c.a),
                             Word(ArithSign[c.kind]), OpdPrinted(c.b)>>
         /\ c.kind = "FETCH" =>
              Printed(c) = <<OpdPrinted(c.dst), Word(":="), Tok("*", c.a.char_val, 0)>>
         /\ c.kind = "DEREF" =>
              Printed(c) = <<Tok("*", c.a.char_val, 0), Word(":="), OpdPrinted(c.b)>>
         /\ c.kind = "GOTO" => Printed(c) = <<Word("GOTO"), OpdPrinted(c.labelno)>>
         /\ c.kind \in IfKinds =>
              Printed(c) = <<Word("IF"), OpdPrinted(c.a), Word(Relation[c.kind]),
                             OpdPrinted(c.b), Word("GOTO"), OpdPrinted(c.labelno)>>
         /\ c.kind \in {"RETURN", "ARG", "WRITE"} => Printed(c) = <<Word(c.kind), OpdPrinted(c.a)>>
         /\ c.kind \in {"PARAM", "READ"} => Printed(c) = <<Word(c.kind), OpdPrinted(c.dst)>>
         /\ c.kind = "DEC" =>
              Printed(c) = <<Word("DEC"), Word(c.a.char_val), Tok("", NoVar, c.b.int_val)>>
         /\ c.kind = "CALL" =>
              Printed(c) = <<OpdPrinted(c.dst), Word(":="), Word("CALL"), Word(c.funcname)>>
<1>1. ASSUME c.kind = "LABEL"
      PROVE  Printed(c) = <<Word("LABEL"), OpdPrinted(c.labelno), Word(":")>>
  BY <1>1 DEF Printed, Arith, AddSub, MulDiv, IfKinds
<1>2. ASSUME c.kind = "FUNCTION"
      PROVE  Printed(c) = <<Word("FUNCTION"), Word(c.funcname), Word(":")>>
  BY <1>2 DEF Printed, Arith, AddSub, MulDiv, IfKinds
<1>3. ASSUME c.kind \in {"ASSIGN", "ADDR"}
      PROVE  Printed(c) = <<OpdPrinted(c.dst), Word(":="), OpdPrinted(c.a)>>
  BY <1>3 DEF Printed, Arith, AddSub, MulDiv, IfKinds
<1>4. ASSUME c.kind \in Arith
      PROVE  Printed(c) = <<OpdPrinted(c.dst), Word(":="), OpdPrinted(c.a),
                       Word(ArithSign[c.kind]), OpdPrinted(c.b)>>
  BY <1>4 DEF Printed, Arith, AddSub, MulDiv, IfKinds
<1>5. ASSUME c.kind = "FETCH"
      PROVE  Printed(c) = <<OpdPrinted(c.dst), Word(":="), Tok("*", c.a.char_val, 0)>>
  BY <1>5 DEF Printed, Arith, AddSub, MulDiv, IfKinds
<1>6. ASSUME c.kind = "DEREF"
      PROVE  Printed(c) = <<Tok("*", c.a.char_val, 0), Word(":="), OpdPrinted(c.b)>>
  BY <1>6 DEF Printed, Arith, AddSub, MulDiv, IfKinds
<1>7. ASSUME c.kind = "GOTO"
      PROVE  Printed(c) = <<Word("GOTO"), OpdPrinted(c.labelno)>>
  BY <1>7 DEF Printed, Arith, AddSub, MulDiv, IfKinds
<1>8. ASSUME c.kind \in IfKinds
      PROVE  Printed(c) = <<Word("IF"), OpdPrinted(c.a), Word(Relation[c.kind]),
                       OpdPrinted(c.b), Word("GOTO"), OpdPrinted(c.labelno)>>
  BY <1>8 DEF Printed, Arith, AddSub, MulDiv, IfKinds
<1>9. ASSUME c.kind \in {"RETURN", "ARG", "WRITE"}
      PROVE  Printed(c) = <<Word(c.kind), OpdPrinted(c.a)>>
  BY <1>9 DEF Printed, Arith, AddSub, MulDiv, IfKinds
<1>10. ASSUME c.kind \in {"PARAM", "READ"}
      PROVE  Printed(c) = <<Word(c.kind), OpdPrinted(c.dst)>>
  BY <1>10 DEF Printed, Arith, AddSub, MulDiv, IfKinds
<1>11. ASSUME c.kind = "DEC"
      PROVE  Printed(c) = <<Word("DEC"), Word(c.a.char_val), Tok("", NoVar, c.b.int_val)>>
  BY <1>11 DEF Printed, Arith, AddSub, MulDiv, IfKinds
<1>12. ASSUME c.kind = "CALL"
      PROVE  Printed(c) = <<OpdPrinted(c.dst), Word(":="), Word("CALL"), Word(c.funcname)>>
  BY <1>12 DEF Printed, Arith, AddSub, MulDiv, IfKinds
<1> QED
  BY <1>1, <1>2, <1>3, <1>4, <1>5, <1>6, <1>7, <1>8, <1>9, <1>10, <1>11, <1>12

(* What a line of two tokens is read as, by its first word.                *)
LEMMA TwoRead ==
  ASSUME NEW x
  PROVE  /\ FromLine(<<Word("GOTO"), x>>) = Goto(OpdFromTok(x))
         /\ FromLine(<<Word("RETURN"), x>>) = Return(OpdFromTok(x))
         /\ FromLine(<<Word("ARG"), x>>) = Arg(OpdFromTok(x))
         /\ FromLine(<<Word("PARAM"), x>>) = Param(OpdFromTok(x))
         /\ FromLine(<<Word("READ"), x>>) = Read(OpdFromTok(x))
         /\ FromLine(<<Word("WRITE"), x>>) = Write(OpdFromTok(x))
         /\ \A w \in {"GOTO", "RETURN", "ARG", "PARAM", "READ", "WRITE"} : Readable(<<Word(w), x>>)
<1>1. ASSUME NEW w
      PROVE  /\ FromLine(<<Word(w), x>>) = FromTwo(<<Word(w), x>>) /\ Len(<<Word(w), x>>) = 2
             /\ <<Word(w), x>>[1].name = w /\ <<Word(w), x>>[2] = x
  BY LinesOfLength, WordsDiffer
<1>2. ASSUME NEW ln, ln[1].name = "GOTO", ln[2] = x PROVE FromTwo(ln) = Goto(OpdFromTok(x))
  BY <1>2 DEF FromTwo
<1>3. ASSUME NEW ln, ln[1].name = "RETURN", ln[2] = x PROVE FromTwo(ln) = Return(OpdFromTok(x))
  BY <1>3 DEF FromTwo
<1>4. ASSUME NEW ln, ln[1].name = "ARG", ln[2] = x PROVE FromTwo(ln) = Arg(OpdFromTok(x))
  BY <1>4 DEF FromTwo
<1>5. ASSUME NEW ln, ln[1].name = "PARAM", ln[2] = x PROVE FromTwo(ln) = Param(OpdFromTok(x))
  BY <1>5 DEF FromTwo
<1>6. ASSUME NEW ln, ln[1].name = "READ", ln[2] = x PROVE FromTwo(ln) = Read(OpdFromTok(x))
  BY <1>6 DEF FromTwo
<1>7. ASSUME NEW ln, ln[1].name = "WRITE", ln[2] = x PROVE FromTwo(ln) = Write(OpdFromTok(x))
  BY <1>7 DEF FromTwo
<1>8. ASSUME NEW w \in {"GOTO", "RETURN", "ARG", "PARAM", "READ", "WRITE"}
      PROVE  Readable(<<Word(w), x>>)
  <2>1. Len(<<Word(w), x>>) = 2 /\ <<Word(w), x>>[1].name = w
    BY <1>1
  <2> QED  BY <2>1 DEF Readable
<1> QED
  BY <1>1, <1>2, <1>3, <1>4, <1>5, <1>6, <1>7, <1>8

(* What a line of three is: the words first, then the sign that leads.     *)
LEMMA ThreeRead ==
  ASSUME NEW x, NEW y, NEW z
  PROVE  /\ z.lead = "" => FromLine(<<Word("LABEL"), y, z>>) = Label(OpdFromTok(y))
         /\ z.lead = "" => FromLine(<<Word("FUNCTION"), y, z>>) = Function(y.name)
         /\ z.lead = "" => FromLine(<<Word("DEC"), y, z>>) = Dec(Pointer(y.name), z.num)
         /\ x \notin {Word("LABEL"), Word("FUNCTION"), Word("DEC")} =>
              /\ x.lead = "*" => FromLine(<<x, y, z>>) = Deref(Behind(x), OpdFromTok(z))
              /\ x.lead # "*" /\ z.lead = "*" =>
                   FromLine(<<x, y, z>>) = Fetch(OpdFromTok(x), Behind(z))
              /\ x.lead # "*" /\ z.lead = "&" =>
                   FromLine(<<x, y, z>>) = Addr(OpdFromTok(x), OpdFromTok(z))
              /\ x.lead # "*" /\ z.lead \notin {"*", "&"} =>
                   FromLine(<<x, y, z>>) = Assign(OpdFromTok(x), OpdFromTok(z))
         /\ \A w : Readable(<<w, y, z>>)
<1>1. ASSUME NEW w
      PROVE  LET ln == <<w, y, z>>
             IN  FromLine(ln) = FromThree(ln) /\ ln[1] = w /\ ln[2] = y /\ ln[3] = z
                 /\ Readable(ln)
  BY LinesOfLength DEF Readable
<1>2. /\ Word("LABEL") # Word("FUNCTION") /\ Word("LABEL") # Word("DEC")
      /\ Word("FUNCTION") # Word("DEC") /\ \A w : Word(w).lead # "*"
  BY WordsDiffer
<1>3. ASSUME NEW ln, ln[1] = Word("LABEL"), ln[2] = y, ln[3] = z, z.lead = ""
      PROVE  FromThree(ln) = Label(OpdFromTok(y))
  BY <1>2, <1>3 DEF FromThree
<1>4. ASSUME NEW ln, ln[1] = Word("FUNCTION"), ln[2] = y, ln[3] = z, z.lead = ""
      PROVE  FromThree(ln) = Function(y.name)
  BY <1>2, <1>4 DEF FromThree
<1>5. ASSUME NEW ln, ln[1] = Word("DEC"), ln[2] = y, ln[3] = z, z.lead = ""
      PROVE  FromThree(ln) = Dec(Pointer(y.name), z.num)
  BY <1>2, <1>5 DEF FromThree
<1>6. ASSUME NEW ln, ln[1] = x, ln[2] = y, ln[3] = z,
             x \notin {Word("LABEL"), Word("FUNCTION"), Word("DEC")}
      PROVE  /\ x.lead = "*" => FromThree(ln) = Deref(Behind(x), OpdFromTok(z))
             /\ x.lead # "*" /\ z.lead = "*" =>
                  FromThree(ln) = Fetch(OpdFromTok(x), Behind(z))
             /\ x.lead # "*" /\ z.lead = "&" =>
                  FromThree(ln) = Addr(OpdFromTok(x), OpdFromTok(z))
             /\ x.lead # "*" /\ z.lead \notin {"*", "&"} =>
                  FromThree(ln) = Assign(OpdFromTok(x), OpdFromTok(z))
  BY <1>6 DEF FromThree
<1> QED
  BY <1>1, <1>3, <1>4, <1>5, <1>6

(* The token of an operand behind a star.                                  *)
LEMMA StarRead ==
  ASSUME NEW o, Plain(o), IsVariable(o)
  PROVE  /\ Tok("*", o.char_val, 0).lead = "*" /\ Behind(Tok("*", o.char_val, 0)) = o
         /\ \A w : Tok("*", o.char_val, 0) # Word(w)
<1>1. Tok("*", o.char_val, 0).lead = "*" /\ Tok("*", o.char_val, 0).name = o.char_val
  BY DEF Tok
<1>2. OpdFromTok(Word(o.char_val)) = Variable(o.char_val)
  BY WordsDiffer DEF OpdFromTok
<1>3. Variable(o.char_val) = o
  BY PlainReadsBack
<1>4. ASSUME NEW w PROVE Tok("*", o.char_val, 0) # Word(w)
  BY <1>1, WordsDiffer
<1> QED
  BY <1>1, <1>2, <1>3, <1>4 DEF Behind

(* _tac_from_line makes of a printed quadruple the quadruple itself.       *)
LEMMA LineReadsBack ==
  ASSUME NEW c, Written(c)
  PROVE  c \in Instr /\ Readable(Printed(c)) /\ FromLine(Printed(c)) = c
<1>1. CASE c = Label(c.labelno) /\ Plain(c.labelno)
  <2>1. c.kind = "LABEL" /\ c \in Instr
    BY <1>1, PlainReadsBack, AbsentTyped DEF Label, Quad, Instr, Kinds
  <2>2. Printed(c) = <<Word("LABEL"), OpdPrinted(c.labelno), Word(":")>>
    BY <2>1, PrintedAs
  <2>3. OpdFromTok(OpdPrinted(c.labelno)) = c.labelno /\ Word(":").lead = ""
    BY <1>1, PlainReadsBack, WordsDiffer
  <2>4. Readable(Printed(c)) /\ FromLine(Printed(c)) = Label(OpdFromTok(OpdPrinted(c.labelno)))
    BY <2>2, <2>3, ThreeRead
  <2> QED  BY <1>1, <2>1, <2>3, <2>4
<1>2. CASE c = Function(c.funcname) /\ c.funcname \in Funcs
  <2>1. c.kind = "FUNCTION" /\ c \in Instr
    BY <1>2, AbsentTyped DEF Function, Quad, Instr, Kinds
  <2>2. Printed(c) = <<Word("FUNCTION"), Word(c.funcname), Word(":")>>
    BY <2>1, PrintedAs
  <2>3. Word(":").lead = "" /\ Word(c.funcname).name = c.funcname
    BY WordsDiffer
  <2>4. Readable(Printed(c)) /\ FromLine(Printed(c)) = Function(Word(c.funcname).name)
    BY <2>2, <2>3, ThreeRead
  <2> QED  BY <1>2, <2>1, <2>3, <2>4
<1>3. CASE c = Assign(c.dst, c.a) /\ Plain(c.dst) /\ Plain(c.a) /\ c.a.kind # "OP_POINTER"
  <2>1. c.kind = "ASSIGN" /\ c \in Instr
    BY <1>3, PlainReadsBack, AbsentTyped DEF Assign, Quad, Instr, Kinds
  <2>2. Printed(c) = <<OpdPrinted(c.dst), Word(":="), OpdPrinted(c.a)>>
    BY <2>1, PrintedAs
  <2> DEFINE x == OpdPrinted(c.dst)
             z == OpdPrinted(c.a)
  <2>3. /\ OpdFromTok(x) = c.dst /\ OpdFromTok(z) = c.a /\ x.lead # "*" /\ z.lead # "*"
        /\ x \notin {Word("LABEL"), Word("FUNCTION"), Word("DEC")} /\ z.lead # "&"
    BY <1>3, PlainReadsBack
  <2> HIDE DEF x, z
  <2>4. Readable(<<x, Word(":="), z>>) /\ FromLine(<<x, Word(":="), z>>) = Assign(c.dst, c.a)
    BY <2>3, ThreeRead
  <2>5. Readable(Printed(c)) /\ FromLine(Printed(c)) = Assign(c.dst, c.a)
    BY <2>2, <2>4 DEF x, z
  <2> QED  BY <1>3, <2>1, <2>5
<1>4. CASE c = Addr(c.dst, c.a) /\ Plain(c.dst) /\ Plain(c.a) /\ c.a.kind = "OP_POINTER"
  <2>1. c.kind = "ADDR" /\ c \in Instr
    BY <1>4, PlainReadsBack, AbsentTyped DEF Addr, Quad, Instr, Kinds
  <2>2. Printed(c) = <<OpdPrinted(c.dst), Word(":="), OpdPrinted(c.a)>>
    BY <2>1, PrintedAs
  <2> DEFINE x == OpdPrinted(c.dst)
             z == OpdPrinted(c.a)
  <2>3. /\ OpdFromTok(x) = c.dst /\ OpdFromTok(z) = c.a /\ x.lead # "*" /\ z.lead # "*"
        /\ x \notin {Word("LABEL"), Word("FUNCTION"), Word("DEC")} /\ z.lead = "&"
    BY <1>4, PlainReadsBack
  <2> HIDE DEF x, z
  <2>4. Readable(<<x, Word(":="), z>>) /\ FromLine(<<x, Word(":="), z>>) = Addr(c.dst, c.a)
    BY <2>3, ThreeRead
  <2>5. Readable(Printed(c)) /\ FromLine(Printed(c)) = Addr(c.dst, c.a)
    BY <2>2, <2>4 DEF x, z
  <2> QED  BY <1>4, <2>1, <2>5
<1>5. CASE c = Fetch(c.dst, c.a) /\ Plain(c.dst) /\ Plain(c.a) /\ IsVariable(c.a)
  <2>1. c.kind = "FETCH" /\ c \in Instr
    BY <1>5, PlainReadsBack, AbsentTyped DEF Fetch, Quad, Instr, Kinds
  <2>2. Printed(c) = <<OpdPrinted(c.dst), Word(":="), Tok("*", c.a.char_val, 0)>>
    BY <2>1, PrintedAs
  <2> DEFINE x == OpdPrinted(c.dst)
             z == Tok("*", c.a.char_val, 0)
  <2>3. /\ OpdFromTok(x) = c.dst /\ Behind(z) = c.a /\ x.lead # "*" /\ z.lead = "*"
        /\ x \notin {Word("LABEL"), Word("FUNCTION"), Word("DEC")}
    BY <1>5, PlainReadsBack, StarRead
  <2> HIDE DEF x, z
  <2>4. Readable(<<x, Word(":="), z>>) /\ FromLine(<<x, Word(":="), z>>) = Fetch(c.dst, c.a)
    <3>1. Readable(<<x, Word(":="), z>>)
      BY ThreeRead
    <3>2. FromLine(<<x, Word(":="), z>>) = Fetch(OpdFromTok(x), Behind(z))
      BY <2>3, ThreeRead
    <3> QED  BY <2>3, <3>1, <3>2
  <2>5. Readable(Printed(c)) /\ FromLine(Printed(c)) = Fetch(c.dst, c.a)
    BY <2>2, <2>4 DEF x, z
  <2> QED  BY <1>5, <2>1, <2>5
<1>6. CASE c = Deref(c.a, c.b) /\ Plain(c.a) /\ IsVariable(c.a) /\ Plain(c.b)
  <2>1. c.kind = "DEREF" /\ c \in Instr
    BY <1>6, PlainReadsBack, AbsentTyped DEF Deref, Quad, Instr, Kinds
  <2>2. Printed(c) = <<Tok("*", c.a.char_val, 0), Word(":="), OpdPrinted(c.b)>>
    BY <2>1, PrintedAs
  <2> DEFINE x == Tok("*", c.a.char_val, 0)
             z == OpdPrinted(c.b)
  <2>3. /\ Behind(x) = c.a /\ OpdFromTok(z) = c.b /\ x.lead = "*"
        /\ x \notin {Word("LABEL"), Word("FUNCTION"), Word("DEC")}
    BY <1>6, PlainReadsBack, StarRead
  <2> HIDE DEF x, z
  <2>4. Readable(<<x, Word(":="), z>>) /\ FromLine(<<x, Word(":="), z>>) = Deref(c.a, c.b)
    BY ZenonT(60), <2>3, ThreeRead
  <2>5. Readable(Printed(c)) /\ FromLine(Printed(c)) = Deref(c.a, c.b)
    BY <2>2, <2>4 DEF x, z
  <2> QED  BY <1>6, <2>1, <2>5
<1>7. CASE /\ c.kind \in Arith /\ c = Binary(c.kind, c.dst, c.a, c.b)
           /\ Plain(c.dst) /\ Plain(c.a) /\ Plain(c.b)
  <2>1. c \in Instr
    BY <1>7, PlainReadsBack, AbsentTyped DEF Binary, Quad, Instr, Kinds
  <2>2. Printed(c) = <<OpdPrinted(c.dst), Word(":="), OpdPrinted(c.a),
                       Word(ArithSign[c.kind]), OpdPrinted(c.b)>>
    BY <1>7, PrintedAs
  <2>3. FromLine(Printed(c)) = Binary(KindOf(ArithSign, Word(ArithSign[c.kind]).name),
                OpdFromTok(OpdPrinted(c.dst)), OpdFromTok(OpdPrinted(c.a)),
                OpdFromTok(OpdPrinted(c.b)))
    BY <2>2, LinesOfLength
  <2>4. KindOf(ArithSign, Word(ArithSign[c.kind]).name) = c.kind
    BY <1>7, SignsRead, WordsDiffer
  <2>5. Readable(Printed(c))
    BY <2>2, LinesOfLength DEF Readable
  <2> QED  BY <1>7, <2>1, <2>3, <2>4, <2>5, PlainReadsBack
<1>8. CASE /\ c.kind \in IfKinds /\ c = If(c.kind, c.a, c.b, c.labelno)
           /\ Plain(c.a) /\ Plain(c.b) /\ Plain(c.labelno)
  <2>1. c \in Instr
    BY <1>8, PlainReadsBack, AbsentTyped DEF If, Quad, Instr, Kinds
  <2>2. Printed(c) = <<Word("IF"), OpdPrinted(c.a), Word(Relation[c.kind]),
                       OpdPrinted(c.b), Word("GOTO"), OpdPrinted(c.labelno)>>
    BY <1>8, PrintedAs
  <2>3. FromLine(Printed(c)) = If(KindOf(Relation, Word(Relation[c.kind]).name),
                OpdFromTok(OpdPrinted(c.a)), OpdFromTok(OpdPrinted(c.b)),
                OpdFromTok(OpdPrinted(c.labelno)))
    BY <2>2, LinesOfLength
  <2>4. KindOf(Relation, Word(Relation[c.kind]).name) = c.kind
    BY <1>8, SignsRead, WordsDiffer
  <2>5. Readable(Printed(c))
    BY <2>2, LinesOfLength DEF Readable
  <2> QED  BY <1>8, <2>1, <2>3, <2>4, <2>5, PlainReadsBack
<1>9. CASE c = Goto(c.labelno) /\ Plain(c.labelno)
  <2>1. c.kind = "GOTO" /\ c \in Instr
    BY <1>9, PlainReadsBack, AbsentTyped DEF Goto, Quad, Instr, Kinds
  <2>2. Printed(c) = <<Word("GOTO"), OpdPrinted(c.labelno)>>
    BY <2>1, PrintedAs
  <2>3. OpdFromTok(OpdPrinted(c.labelno)) = c.labelno
    BY <1>9, PlainReadsBack
  <2>4. Readable(Printed(c)) /\ FromLine(Printed(c)) = Goto(OpdFromTok(OpdPrinted(c.labelno)))
    BY <2>2, TwoRead
  <2> QED  BY <1>9, <2>1, <2>3, <2>4
<1>10. CASE c = Return(c.a) /\ Plain(c.a)
  <2>1. c.kind = "RETURN" /\ c \in Instr
    BY <1>10, PlainReadsBack, AbsentTyped DEF Return, Quad, Instr, Kinds
  <2>2. Printed(c) = <<Word("RETURN"), OpdPrinted(c.a)>>
    BY <2>1, PrintedAs
  <2>3. OpdFromTok(OpdPrinted(c.a)) = c.a
    BY <1>10, PlainReadsBack
  <2>4. Readable(Printed(c)) /\ FromLine(Printed(c)) = Return(OpdFromTok(OpdPrinted(c.a)))
    BY <2>2, TwoRead
  <2> QED  BY <1>10, <2>1, <2>3, <2>4
<1>11. CASE c = Arg(c.a) /\ Plain(c.a)
  <2>1. c.kind = "ARG" /\ c \in Instr
    BY <1>11, PlainReadsBack, AbsentTyped DEF Arg, Quad, Instr, Kinds
  <2>2. Printed(c) = <<Word("ARG"), OpdPrinted(c.a)>>
    BY <2>1, PrintedAs
  <2>3. OpdFromTok(OpdPrinted(c.a)) = c.a
    BY <1>11, PlainReadsBack
  <2>4. Readable(Printed(c)) /\ FromLine(Printed(c)) = Arg(OpdFromTok(OpdPrinted(c.a)))
    BY <2>2, TwoRead
  <2> QED  BY <1>11, <2>1, <2>3, <2>4
<1>12. CASE c = Write(c.a) /\ Plain(c.a)
  <2>1. c.kind = "WRITE" /\ c \in Instr
    BY <1>12, PlainReadsBack, AbsentTyped DEF Write, Quad, Instr, Kinds
  <2>2. Printed(c) = <<Word("WRITE"), OpdPrinted(c.a)>>
    BY <2>1, PrintedAs
  <2>3. OpdFromTok(OpdPrinted(c.a)) = c.a
    BY <1>12, PlainReadsBack
  <2>4. Readable(Printed(c)) /\ FromLine(Printed(c)) = Write(OpdFromTok(OpdPrinted(c.a)))
    BY <2>2, TwoRead
  <2> QED  BY <1>12, <2>1, <2>3, <2>4
<1>13. CASE c = Param(c.dst) /\ Plain(c.dst)
  <2>1. c.kind = "PARAM" /\ c \in Instr
    BY <1>13, PlainReadsBack, AbsentTyped DEF Param, Quad, Instr, Kinds
  <2>2. Printed(c) = <<Word("PARAM"), OpdPrinted(c.dst)>>
    BY <2>1, PrintedAs
  <2>3. OpdFromTok(OpdPrinted(c.dst)) = c.dst
    BY <1>13, PlainReadsBack
  <2>4. Readable(Printed(c)) /\ FromLine(Printed(c)) = Param(OpdFromTok(OpdPrinted(c.dst)))
    BY <2>2, TwoRead
  <2> QED  BY <1>13, <2>1, <2>3, <2>4
<1>14. CASE c = Read(c.dst) /\ Plain(c.dst)
  <2>1. c.kind = "READ" /\ c \in Instr
    BY <1>14, PlainReadsBack, AbsentTyped DEF Read, Quad, Instr, Kinds
  <2>2. Printed(c) = <<Word("READ"), OpdPrinted(c.dst)>>
    BY <2>1, PrintedAs
  <2>3. OpdFromTok(OpdPrinted(c.dst)) = c.dst
    BY <1>14, PlainReadsBack
  <2>4. Readable(Printed(c)) /\ FromLine(Printed(c)) = Read(OpdFromTok(OpdPrinted(c.dst)))
    BY <2>2, TwoRead
  <2> QED  BY <1>14, <2>1, <2>3, <2>4
<1>15. CASE c = Call(c.dst, c.funcname) /\ Plain(c.dst) /\ c.funcname \in Funcs
  <2>1. c.kind = "CALL" /\ c \in Instr
    BY <1>15, PlainReadsBack, AbsentTyped DEF Call, Quad, Instr, Kinds
  <2>2. Printed(c) = <<OpdPrinted(c.dst), Word(":="), Word("CALL"), Word(c.funcname)>>
    BY <2>1, PrintedAs
  <2>3. FromLine(Printed(c)) = Call(OpdFromTok(OpdPrinted(c.dst)), Word(c.funcname).name)
    BY <2>2, LinesOfLength
  <2>4. Readable(Printed(c))
    BY <2>2, LinesOfLength DEF Readable
  <2> QED  BY <1>15, <2>1, <2>3, <2>4, PlainReadsBack, WordsDiffer
<1>16. CASE /\ c = Dec(c.a, c.b.int_val) /\ Plain(c.a) /\ c.a.kind = "OP_POINTER"
            /\ c.b.int_val \in Int
  <2>1. c.kind = "DEC" /\ c \in Instr
    BY <1>16, PlainReadsBack, AbsentTyped DEF Dec, Quad, Instr, Kinds
  <2>2. Printed(c) = <<Word("DEC"), Word(c.a.char_val), Tok("", NoVar, c.b.int_val)>>
    BY <2>1, PrintedAs
  <2>3. /\ Tok("", NoVar, c.b.int_val).num = c.b.int_val
        /\ Tok("", NoVar, c.b.int_val).lead = ""
    BY DEF Tok
  <2>4. Readable(Printed(c)) /\ FromLine(Printed(c))
                                = Dec(Pointer(Word(c.a.char_val).name), c.b.int_val)
    BY <2>2, <2>3, ThreeRead
  <2>5. Pointer(Word(c.a.char_val).name) = c.a
    <3>1. Word(c.a.char_val).name = c.a.char_val
      BY WordsDiffer
    <3>2. Pointer(c.a.char_val) = c.a
      BY <1>16, PlainReadsBack
    <3> QED  BY <3>1, <3>2
  <2> QED  BY <1>16, <2>1, <2>4, <2>5
<1> QED
  BY <1>1, <1>2, <1>3, <1>4, <1>5, <1>6, <1>7, <1>8, <1>9, <1>10, <1>11, <1>12, <1>13,
     <1>14, <1>15, <1>16 DEF Written

-------------------------------------------------------------------------------
(* A node for each line read, and in it what the line says.                *)
ReadInv ==
  /\ ListInv
  /\ buf \in Files /\ LinesWritten(buf)
  /\ buf_i <= Len(buf) + 1 /\ (p # NULL => buf_i <= Len(buf) /\ prev[Newest] = NULL)
  /\ reading \in {"reading", "read", "stopped"}
  /\ code \in Seq(Instr) /\ Len(code) = Newest
  /\ PrintsBack

LEMMA ReadInvInit == ListInit /\ LinesWritten(buf) => ReadInv
<1> SUFFICES ASSUME ListInit, LinesWritten(buf) PROVE ReadInv
  OBVIOUS
<1>1. ListInv
  BY ListInvInit
<1>2. None \in Instr
  BY AbsentTyped DEF None, Quad, Instr, Kinds
<1>3. /\ code = <<None>> /\ code \in Seq(Instr) /\ Len(code) = 1 /\ Len(next) = 1
      /\ buf_i = 1 /\ p = NULL /\ buf \in Files /\ reading = "reading"
  BY <1>2 DEF ListInit
<1>4. Len(buf) \in Nat
  BY <1>3, FilesAssumption
<1> QED
  BY <1>1, <1>3, <1>4 DEF ReadInv, PrintsBack, Newest

(* The node made of a line prints as that line.                            *)
LEMMA ReadInvRead == ReadInv /\ ReadLine => ReadInv'
<1> SUFFICES ASSUME ReadInv, ReadLine PROVE ReadInv'
  OBVIOUS
<1>1. ListInv'
  BY ReadLineKeeps DEF ReadInv
<1>2. /\ buf' = buf /\ buf_i' = buf_i /\ p = NULL /\ buf_i \in Nat \ {0} /\ buf_i <= Len(buf)
      /\ buf \in Files /\ LinesWritten(buf) /\ Len(buf) \in Nat /\ buf_i \in DOMAIN buf
      /\ code \in Seq(Instr) /\ Len(code) = buf_i /\ next \in Seq(Nat) /\ prev \in Seq(Nat)
      /\ Len(next) = buf_i /\ Len(prev) = buf_i
  BY FilesAssumption DEF ReadLine, ReadInv, ListInv, Newest
<1>3. CASE ~Readable(buf[buf_i])
  <2>1. UNCHANGED <<code, next, prev, p>> /\ reading' = "stopped"
    BY <1>3 DEF ReadLine
  <2> QED  BY <1>1, <1>2, <2>1 DEF ReadInv, PrintsBack, Newest
<1>4. CASE Readable(buf[buf_i])
  <2> DEFINE new == FromLine(buf[buf_i])
  <2>1. new \in Instr /\ Printed(new) = buf[buf_i]
    <3>1. PICK c \in Instr : Written(c) /\ buf[buf_i] = Printed(c)
      BY <1>2, <1>4 DEF LinesWritten
    <3> QED  BY <3>1, LineReadsBack
  <2>2. /\ code' = Append(code, new) /\ next' = Append(next, NULL) /\ prev' = Append(prev, NULL)
        /\ reading' = reading /\ p' = 1
    BY <1>4 DEF ReadLine
  <2> HIDE DEF new
  <2>3. /\ code' \in Seq(Instr) /\ Len(code') = buf_i + 1 /\ code'[buf_i + 1] = new
        /\ \A n \in 1 .. buf_i : code'[n] = code[n]
        /\ Len(next') = buf_i + 1 /\ prev'[buf_i + 1] = NULL
    BY <1>2, <2>1, <2>2 DEF NULL
  <2>4. PrintsBack'
    <3>1. ASSUME NEW n \in 2 .. Len(code') PROVE Printed(code'[n]) = buf'[n - 1]
      <4>1. CASE n = buf_i + 1
        BY <4>1, <1>2, <2>1, <2>3
      <4>2. CASE n # buf_i + 1
        <5>1. n \in 2 .. Len(code) /\ n \in 1 .. buf_i
          BY <4>2, <1>2, <2>3
        <5> QED  BY <5>1, <1>2, <2>3 DEF ReadInv, PrintsBack
      <4> QED  BY <4>1, <4>2
    <3> QED  BY <3>1 DEF PrintsBack
  <2>5. reading' \in {"reading", "read", "stopped"}
    BY <2>2 DEF ReadInv
  <2> QED  BY <1>1, <1>2, <2>2, <2>3, <2>4, <2>5 DEF ReadInv, Newest
<1> QED
  BY <1>3, <1>4

LEMMA ReadInvWalk == ReadInv /\ Walk => ReadInv'
<1> SUFFICES ASSUME ReadInv, Walk PROVE ReadInv'
  OBVIOUS
<1>1. ListInv'
  BY WalkKeeps DEF ReadInv
<1>2. UNCHANGED <<buf, buf_i, code, next, prev, reading>> /\ p # NULL
  BY DEF Walk
<1> QED
  BY <1>1, <1>2 DEF ReadInv, PrintsBack, Newest

LEMMA ReadInvInsert == ReadInv /\ Insert => ReadInv'
<1> SUFFICES ASSUME ReadInv, Insert PROVE ReadInv'
  OBVIOUS
<1>1. ListInv'
  BY InsertKeeps DEF ReadInv
<1>2. /\ UNCHANGED <<buf, code, reading>> /\ p # NULL /\ p' = NULL /\ buf_i' = buf_i + 1
      /\ next' = NextLinked(p, Newest)
  BY DEF Insert
<1>3. /\ Len(buf) \in Nat /\ buf_i \in Nat /\ buf_i <= Len(buf)
      /\ Len(code) = buf_i + 1
  BY <1>2, FilesAssumption DEF ReadInv, ListInv, Newest
<1>4. Newest' = buf_i + 1
  BY <1>1, <1>2 DEF ListInv
<1> QED
  BY <1>1, <1>2, <1>3, <1>4 DEF ReadInv, PrintsBack

LEMMA ReadInvStep == ReadInv /\ [ListNext]_listVars => ReadInv'
<1> SUFFICES ASSUME ReadInv, [ListNext]_listVars PROVE ReadInv'
  OBVIOUS
<1>1. CASE ReadLine
  BY <1>1, ReadInvRead
<1>2. CASE Walk
  BY <1>2, ReadInvWalk
<1>3. CASE Insert
  BY <1>3, ReadInvInsert
<1>4. CASE Finish
  BY <1>4 DEF Finish, ReadInv, ListInv, InFileOrder, PrintsBack, Newest
<1>5. CASE UNCHANGED listVars
  BY <1>5 DEF listVars, ReadInv, ListInv, InFileOrder, PrintsBack, Newest
<1> QED
  BY <1>1, <1>2, <1>3, <1>4, <1>5 DEF ListNext

(* The type invariant follows: the links are among the nodes.              *)
LEMMA ReadInvTypes == ReadInv => ListTypeOK
<1> SUFFICES ASSUME ReadInv PROVE ListTypeOK
  OBVIOUS
<1>1. /\ Len(buf) \in Nat /\ buf_i \in Nat \ {0} /\ buf_i <= Len(buf) + 1
      /\ code \in Seq(Instr) /\ Len(code) = Newest /\ Newest \in Nat
      /\ p \in 0 .. buf_i
      /\ next \in Seq(Nat) /\ prev \in Seq(Nat) /\ Len(prev) = Newest /\ Len(next) = Newest
      /\ Newest = IF p = NULL THEN buf_i ELSE buf_i + 1
  BY FilesAssumption DEF ReadInv, ListInv, Newest
<1>2. DOMAIN code = 1 .. Newest /\ DOMAIN next = 1 .. Newest /\ DOMAIN prev = 1 .. Newest
  BY <1>1
<1>3. ASSUME NEW n \in 1 .. Newest
      PROVE  next[n] \in DOMAIN code \cup {NULL} /\ prev[n] \in DOMAIN code \cup {NULL}
  <2>1. CASE n \in 1 .. buf_i
    <3>1. /\ next[n] = IF n = buf_i THEN NULL ELSE n + 1
          /\ prev[n] = n - 1
      BY <2>1 DEF ReadInv, ListInv, InFileOrder
    <3>2. buf_i <= Newest /\ 0 <= n - 1 /\ (n # buf_i => n + 1 <= buf_i)
      BY <2>1, <1>1
    <3> QED  BY SMTT(60), <2>1, <1>1, <1>2, <3>1, <3>2 DEF NULL
  <2>2. CASE n \notin 1 .. buf_i
    <3>1. p # NULL /\ n = Newest
      BY <2>2, <1>1
    <3> QED  BY <3>1 DEF ReadInv, ListInv
  <2> QED  BY <2>1, <2>2
<1>4. /\ next \in [DOMAIN code -> DOMAIN code \cup {NULL}]
      /\ prev \in [DOMAIN code -> DOMAIN code \cup {NULL}]
  BY <1>1, <1>2, <1>3
<1>5. p \in DOMAIN code \cup {NULL}
  BY <1>1, <1>2 DEF NULL
<1> QED
  BY <1>1, <1>4, <1>5 DEF ListTypeOK, ReadInv

(* On a file of lines that tac_print writes, the reader's list is well     *)
(* linked and each of its nodes holds the quadruple of its line.           *)
THEOREM ReadInvariant == ListSpec /\ LinesWritten(buf) => []ReadInv
<1> QED
  BY ReadInvInit, ReadInvStep, PTL DEF ListSpec

(* tac_from_buffer loses nothing: whatever the IR file, if its lines are   *)
(* lines tac_print writes (or are refused), every node prints as the line  *)
(* it was read from, for ever.                                             *)
THEOREM AlwaysPrintsBack == ListSpec /\ LinesWritten(buf) => []PrintsBack
<1>1. ReadInv => PrintsBack
  BY DEF ReadInv
<1> QED
  BY <1>1, ReadInvariant, PTL

(* The reader's state keeps its types: a quadruple in every node, and the  *)
(* links and the walking pointer among the nodes.                          *)
THEOREM AlwaysListTypeOK == ListSpec /\ LinesWritten(buf) => []ListTypeOK
<1> QED
  BY ReadInvTypes, ReadInvariant, PTL

==============================================================================
