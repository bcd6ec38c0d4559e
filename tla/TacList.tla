------------------------------- MODULE TacList -------------------------------
(***************************************************************************)
(* The reader of tac.cpp: tac_from_buffer takes the lines of an IR file one*)
(* by one, _tac_from_line makes a quadruple of each, and tac_append walks  *)
(* the doubly linked list from its NONE head to its end and inserts the new*)
(* node there.  Nodes are numbered as they are allocated, the head is 1,   *)
(* and NULL is 0.                                                          *)
(***************************************************************************)
EXTENDS TacLine

CONSTANT Files   \* the IR files considered, each a sequence of lines

ASSUME FilesAssumption == \A f \in Files : Len(f) \in Nat /\ DOMAIN f = 1 .. Len(f)

(* Names are v0, t0, ..., none of the words _tac_from_line looks for first.*)
ASSUME WordsAssumption == Vars \cap {"LABEL", "FUNCTION", "DEC"} = {}

NULL == 0

VARIABLES buf,      \* the file read into the buffer
          buf_i,    \* the line tac_from_buffer has got to
          code,     \* the quadruples of the allocated nodes
          next, prev, \* their links
          p,        \* tac_append's walking pointer, NULL outside tac_append
          reading   \* reading, read (the list is returned), or stopped (crash)

listVars == <<buf, buf_i, code, next, prev, p, reading>>

-------------------------------------------------------------------------------
(* The list.                                                               *)
ListInit ==
  /\ buf \in Files
  /\ buf_i = 1
  /\ code = <<None>> /\ next = <<NULL>> /\ prev = <<NULL>>
  /\ p = NULL
  /\ reading = "reading"

ReadLine ==       \* a newline: make a node of the line, start the walk
  /\ reading = "reading" /\ p = NULL /\ buf_i <= Len(buf)
  /\ IF Readable(buf[buf_i])
     THEN /\ code' = Append(code, FromLine(buf[buf_i]))
          /\ next' = Append(next, NULL) /\ prev' = Append(prev, NULL)
          /\ p' = 1
          /\ UNCHANGED reading
     ELSE reading' = "stopped" /\ UNCHANGED <<code, next, prev, p>>
  /\ UNCHANGED <<buf, buf_i>>

Walk ==
  /\ p # NULL /\ next[p] # NULL
  /\ p' = next[p]
  /\ UNCHANGED <<buf, buf_i, code, next, prev, reading>>

(* tac_insert of a single node seg behind h.                               *)
Newest == Len(next)
NextLinkedInCircle(h, seg) == [next EXCEPT ![h] = seg, ![seg] = h]
NextLinked(h, seg) == [next EXCEPT ![h] = seg, ![seg] = next[h]]
PrevUnlinked(h, seg) == prev
PrevLinked(h, seg) ==
  [n \in DOMAIN prev |-> IF n = seg THEN h ELSE IF n = next[h] THEN seg ELSE prev[n]]

Insert ==
  /\ p # NULL /\ next[p] = NULL
  /\ next' = NextLinked(p, Newest)
  /\ prev' = PrevLinked(p, Newest)
  /\ p' = NULL
  /\ buf_i' = buf_i + 1
  /\ UNCHANGED <<buf, code, reading>>

Finish ==         \* the \x7f behind the last line
  /\ reading = "reading" /\ p = NULL /\ buf_i = Len(buf) + 1
  /\ reading' = "read"
  /\ UNCHANGED <<buf, buf_i, code, next, prev, p>>

ListNext == ReadLine \/ Walk \/ Insert \/ Finish

ListSpec == ListInit /\ [][ListNext]_listVars /\ WF_listVars(ListNext)

-------------------------------------------------------------------------------
(* The reader's state has its types.                                       *)
ListTypeOK ==
  /\ buf \in Files /\ buf_i \in 1 .. Len(buf) + 1
  /\ code \in Seq(Instr)
  /\ next \in [DOMAIN code -> DOMAIN code \cup {NULL}]
  /\ prev \in [DOMAIN code -> DOMAIN code \cup {NULL}]
  /\ p \in DOMAIN code \cup {NULL}
  /\ reading \in {"reading", "read", "stopped"}

(* The nodes linked so far are a list in the order of their lines, both    *)
(* ways: the code generator follows next and so prints in file order.      *)
InFileOrder ==
  \A n \in 1 .. buf_i :
     /\ next[n] = IF n = buf_i THEN NULL ELSE n + 1
     /\ prev[n] = n - 1

(* Between two lines every allocated node is linked; inside tac_append the *)
(* newest one is not yet, and the walk is among the others.                *)
ListInv ==
  /\ buf_i \in Nat \ {0}
  /\ next \in Seq(Nat) /\ prev \in Seq(Nat) /\ Len(prev) = Newest
  /\ Newest = IF p = NULL THEN buf_i ELSE buf_i + 1
  /\ p \in 0 .. buf_i
  /\ p # NULL => next[Newest] = NULL
  /\ InFileOrder

(* Printing a node gives back the line it was read from: no operand is     *)
(* lost, swapped or taken for another kind.                                *)
PrintsBack == \A n \in 2 .. Len(code) : Printed(code[n]) = buf[n - 1]

(* The quadruples a line can stand for, and the files in which every line  *)
(* that is not refused is one of theirs.                                   *)
Plain(o) == \/ \E v \in Vars : o \in {Variable(v), Pointer(v)}
            \/ o.int_val \in Int /\ o \in {Constant(o.int_val), LabelOpd(o.int_val)}
Written(c) ==
  \/ c \in {Label(c.labelno), Goto(c.labelno)} /\ Plain(c.labelno)
  \/ c = Function(c.funcname) /\ c.funcname \in Funcs
  \/ c = Assign(c.dst, c.a) /\ Plain(c.dst) /\ Plain(c.a) /\ c.a.kind # "OP_POINTER"
  \/ c = Addr(c.dst, c.a) /\ Plain(c.dst) /\ Plain(c.a) /\ c.a.kind = "OP_POINTER"
  \/ c = Fetch(c.dst, c.a) /\ Plain(c.dst) /\ Plain(c.a) /\ IsVariable(c.a)
  \/ c = Deref(c.a, c.b) /\ Plain(c.a) /\ IsVariable(c.a) /\ Plain(c.b)
  \/ c.kind \in Arith /\ c = Binary(c.kind, c.dst, c.a, c.b)
     /\ Plain(c.dst) /\ Plain(c.a) /\ Plain(c.b)
  \/ c.kind \in IfKinds /\ c = If(c.kind, c.a, c.b, c.labelno)
     /\ Plain(c.a) /\ Plain(c.b) /\ Plain(c.labelno)
  \/ c \in {Return(c.a), Arg(c.a), Write(c.a)} /\ Plain(c.a)
  \/ c \in {Param(c.dst), Read(c.dst)} /\ Plain(c.dst)
  \/ c = Call(c.dst, c.funcname) /\ Plain(c.dst) /\ c.funcname \in Funcs
  \/ c = Dec(c.a, c.b.int_val) /\ Plain(c.a) /\ c.a.kind = "OP_POINTER"
     /\ c.b.int_val \in Int
LinesWritten(file) ==
  \A i \in DOMAIN file :
     Readable(file[i]) => \E c \in Instr : Written(c) /\ file[i] = Printed(c)

(* Every walk finds the end of the list, and so the whole file is read     *)
(* unless a line is refused.                                               *)
ReadingEnds == <>(reading \in {"read", "stopped"})

==============================================================================
