------------------------------- MODULE MipsRun -------------------------------
(***************************************************************************)
(* The assembly of splc, linked and run.  AssemblyGenerator reads the      *)
(* generated text back, gives every name of the final vars_set a word of   *)
(* .data and expands pushvars and popvars over all of them; the program    *)
(* then runs on a MIPS machine, one block of MipsGen at a time (a CALL in  *)
(* two halves, up to its jal and from there on).  Addresses and $s0 count  *)
(* words where the code counts bytes in fours.  $t3 and $a0 never outlive a*)
(* block and are not kept.                                                 *)
(***************************************************************************)
EXTENDS MipsGen

CONSTANTS Inputs,     \* the integers the read syscall may deliver
          Rank,       \* the order in which std::set iterates over the names
          StackWords, \* bound: the words of stack the machine has
          WordSymbol(_), LabelSymbol(_), FuncSymbol(_), \* what the text spells
          OwnSymbols, \* the symbols of emit_preamble, read: and write:
          Reserved    \* the words the assembler keeps for itself

ASSUME MachineAssumption ==
  /\ Inputs \subseteq Int
  /\ Rank \in [Vars -> Nat]
  /\ \A u, v \in Vars : Rank[u] = Rank[v] => u = v
  /\ StackWords \in Nat
  /\ IsFiniteSet(Vars)

(* A variable's word is `_' and its name.                                  *)
ASSUME WordsApart == \A u, v \in Vars : WordSymbol(u) = WordSymbol(v) => u = v

(* translateExp prints a call's ARG lines together, right before its CALL. *)
ASSUME ArgsTogether ==
  \A p \in Programs : \A i \in DOMAIN p :
     p[i].kind = "ARG" => i + 1 \in DOMAIN p /\ p[i + 1].kind \in {"ARG", "CALL"}

(* What a CALL, PARAM or READ stores has a name: the front end makes it with*)
(* createVar or createTemp.                                                *)
ASSUME PlacesNamed ==
  \A p \in Programs : \A i \in DOMAIN p :
     p[i].kind \in {"CALL", "PARAM", "READ"} => IsVariable(p[i].dst)

VARIABLES phase,   \* compile, run, halted, fault, unresolved (refused by the
                   \* assembler), foreign (a symbol is of another kind)
          pc,      \* the block to execute
          resume,  \* the machine is behind the jal of the CALL at pc
          t,       \* $t0, $t1, $t2
          sp, s0,  \* the stack pointer; the words of arguments pushed
          ra,      \* $ra: the CALL to return into, 0 for the start-up code
          t4, v0,  \* where PARAM reads next; the returned value
          mem,     \* the words of .data
          stack,   \* the words of the stack
          out,     \* what the write syscall has printed
          bases    \* history: $sp behind each pushvars, the oldest call first

runVars == <<phase, pc, resume, t, sp, s0, ra, t4, v0, mem, stack, out, bases>>
vars == <<genVars, runVars>>

TRegs == {"t0", "t1", "t2"}

Init ==
  /\ GenInit
  /\ phase = "compile"
  /\ pc = FuncAt(tacs, Main)
  /\ resume = FALSE
  /\ t = [r \in TRegs |-> 0]
  /\ sp = StackWords /\ s0 = 0 /\ ra = 0 /\ t4 = -1 /\ v0 = 0
  /\ mem = [v \in Vars |-> 0]
  /\ stack = [a \in 0 .. StackWords - 1 |-> 0]
  /\ out = << >>
  /\ bases = << >>

(* One walk of emit_code.                                                  *)
Compile == GenNext /\ UNCHANGED runVars

-------------------------------------------------------------------------------
(* The assembler.  Labels, functions, the words of .data and the text's own*)
(* routines share one name space; a text is refused when a symbol is there *)
(* twice or not at all, and when a number prints with a sign too many: the *)
(* `-%d' of emit_sub for a negative constant, a `label%d' below zero.      *)
ByName(q) == IF q.kind \in {"ARG", "RETURN"} /\ ~IsConstant(q.a) THEN {q.a.char_val} ELSE {}
Names(blk) == {blk.ld[k].var : k \in DOMAIN blk.ld} \cup Stored(blk) \cup ByName(blk.tac)
TextNames == UNION {Names(asm[i]) : i \in DOMAIN asm}
Words == vars_set      \* the `_v: .word 0' lines put behind .data

Marks(p) == Labels(p) \cup Entries(p)
SymbolOf(c) == IF c.kind = "LABEL" THEN LabelSymbol(c.labelno.int_val) ELSE FuncSymbol(c.funcname)
MarkSymbols(p) == {SymbolOf(p[i]) : i \in Marks(p)}
WordSymbols(names) == {WordSymbol(v) : v \in names}
DefinedOnce(p, words) ==
  /\ \A i, j \in Marks(p) : SymbolOf(p[i]) = SymbolOf(p[j]) => i = j
  /\ MarkSymbols(p) \cap WordSymbols(words) = {}
  /\ OwnSymbols \cap (MarkSymbols(p) \cup WordSymbols(words)) = {}
SymbolsUsed(p, names) ==
  WordSymbols(names) \cup {FuncSymbol(Main)}
  \cup UNION {{LabelSymbol(l.int_val) : l \in Targets(p[i])} : i \in DOMAIN p}
  \cup UNION {{FuncSymbol(f) : f \in Callees(p[i])} : i \in DOMAIN p}
Spelled(c) ==
  /\ c.kind = "SUB" /\ ~IsConstant(c.a) /\ IsConstant(c.b) => c.b.int_val >= 0
  /\ c.kind = "LABEL" => c.labelno.int_val >= 0
  /\ c.kind = "FUNCTION" => FuncSymbol(c.funcname) \notin Reserved
AssemblerTakes(p, words, names) ==
  /\ \A i \in DOMAIN p : Spelled(p[i])
  /\ DefinedOnce(p, words)
  /\ SymbolsUsed(p, names) \subseteq OwnSymbols \cup MarkSymbols(p) \cup WordSymbols(words)

(* Every symbol stands for what its instruction takes it for: a jal of read*)
(* where no function has that name goes to the text's own routine, and what*)
(* becomes of such a program is not followed.                              *)
Resolves ==
  /\ \A i \in DOMAIN asm : Names(asm[i]) \subseteq Words
  /\ PlacesResolve(tacs)

Link ==
  /\ status = "generated" /\ phase = "compile"
  /\ phase' = IF ~AssemblerTakes(tacs, Words, TextNames) THEN "unresolved"
              ELSE IF Resolves THEN "run" ELSE "foreign"
  /\ UNCHANGED <<pc, resume, t, sp, s0, ra, t4, v0, mem, stack, out, bases, genVars>>

-------------------------------------------------------------------------------
(* The machine.                                                            *)
blk == asm[pc]
q == blk.tac

InCode == phase = "run" /\ ~resume /\ pc \in DOMAIN asm
Runs(kinds) == InCode /\ q.kind \in kinds

NumVars == Cardinality(vars_set)
Slot(v) == Cardinality({u \in vars_set : Rank[u] < Rank[v]})

(* The registers behind the block's loads, and its operands' values there. *)
AfterLoads ==
  [r \in TRegs |->
     LET ks == {k \in DOMAIN blk.ld : blk.ld[k].reg = r}
     IN IF ks = {} THEN t[r]
        ELSE mem[blk.ld[CHOOSE k \in ks : \A j \in ks : j <= k].var]]
Operand1 == IF IsConstant(q.a) THEN q.a.int_val ELSE AfterLoads[blk.ld[1].reg]
Operand2SameRegister == IF IsConstant(q.b) THEN q.b.int_val ELSE AfterLoads[blk.ld[1].reg]
Operand2 == IF IsConstant(q.b) THEN q.b.int_val ELSE AfterLoads[blk.ld[Len(blk.ld)].reg]
ByNameValue(o) == IF IsConstant(o) THEN o.int_val ELSE mem[o.char_val]

Forward == pc' = pc + 1 /\ UNCHANGED <<phase, resume, genVars>>
StoreElsewhere(n, regs) ==
  /\ t' = regs
  /\ mem' = [mem EXCEPT ![blk.t0] = n]
StoreT0(n, regs) ==
  /\ t' = [regs EXCEPT !["t0"] = n]
  /\ mem' = [mem EXCEPT ![blk.t0] = n]

ExecNothing ==
  /\ Runs({"LABEL", "FUNCTION", "NONE", "DEC"})
  /\ Forward
  /\ UNCHANGED <<t, sp, s0, ra, t4, v0, mem, stack, out, bases>>

ExecAssign ==
  /\ Runs({"ASSIGN"})
  /\ Forward
  /\ StoreT0(Operand1, AfterLoads)
  /\ UNCHANGED <<sp, s0, ra, t4, v0, stack, out, bases>>

(* `neg' works in place: the subtrahend's register keeps the negated value. *)
Negated(regs) == IF q.kind = "SUB" /\ IsConstant(q.a)
                 THEN [regs EXCEPT ![blk.ld[1].reg] = -@] ELSE regs

ExecArith ==
  /\ Runs(Arith)
  /\ Forward
  /\ \E n \in Results(q.kind, Operand1, Operand2) : StoreT0(n, Negated(AfterLoads))
  /\ UNCHANGED <<sp, s0, ra, t4, v0, stack, out, bases>>

(* A constant c1 is printed second, behind the register of c2.             *)
TakesBranch == IF IsConstant(q.a) THEN Holds(q.kind, Operand2, Operand1)
               ELSE Holds(q.kind, Operand1, Operand2)

ExecJump ==
  /\ \/ Runs({"GOTO"}) /\ t' = t
     \/ Runs(IfKinds) /\ TakesBranch /\ t' = AfterLoads
  /\ pc' = LabelAt(tacs, q.labelno.int_val)
  /\ UNCHANGED <<phase, resume, sp, s0, ra, t4, v0, mem, stack, out, bases, genVars>>

ExecNoJump ==
  /\ Runs(IfKinds) /\ ~TakesBranch
  /\ Forward
  /\ t' = AfterLoads
  /\ UNCHANGED <<sp, s0, ra, t4, v0, mem, stack, out, bases>>

ArgCellBeforeMove == sp
ArgCell == sp - 1
ExecArg ==
  /\ Runs({"ARG"}) /\ sp >= 1
  /\ Forward
  /\ sp' = sp - 1
  /\ s0' = s0 + 1
  /\ stack' = [stack EXCEPT ![ArgCell] = ByNameValue(q.a)]
  /\ UNCHANGED <<t, ra, t4, v0, mem, out, bases>>

(* The frame of a call, from its lowest word up: every name of vars_set in *)
(* the set's order (pushvars), $ra, and the count of argument words.       *)
FrameBase == sp - 2 - NumVars
Pushed(base) ==
  [a \in DOMAIN stack |->
     CASE a = sp - 1 -> s0
       [] a = sp - 2 -> ra
       [] a >= base /\ a < sp - 2 -> mem[CHOOSE v \in vars_set : Slot(v) = a - base]
       [] OTHER -> stack[a]]

ClearedS0 == 0
ExecCall ==
  /\ Runs({"CALL"}) /\ FrameBase >= 0
  /\ t4' = sp
  /\ s0' = ClearedS0
  /\ sp' = FrameBase
  /\ stack' = Pushed(FrameBase)
  /\ bases' = Append(bases, FrameBase)
  /\ ra' = pc
  /\ pc' = FuncAt(tacs, q.funcname)
  /\ UNCHANGED <<phase, resume, t, v0, mem, out, genVars>>

PoppedNothing == mem
Popped == [v \in Vars |-> IF v \in vars_set THEN stack[sp + Slot(v)] ELSE mem[v]]
SavedRaSwapped == stack[sp + NumVars + 1]
SavedRa == stack[sp + NumVars]
SavedS0 == stack[sp + NumVars + 1]
ArgsPoppedNever(n) == sp + NumVars + 2
ArgsPoppedTwice(n) == sp + NumVars + 2 + n + n
ArgsPopped(n) == sp + NumVars + 2 + n

ExecResume ==      \* behind the jal: popvars, $ra, $s0, the arguments, the result
  /\ phase = "run" /\ resume
  /\ resume' = FALSE
  /\ pc' = pc + 1
  /\ mem' = [Popped EXCEPT ![q.dst.char_val] = v0]
  /\ ra' = SavedRa
  /\ sp' = ArgsPopped(SavedS0)
  /\ s0' = 0
  /\ bases' = SubSeq(bases, 1, Len(bases) - 1)
  /\ UNCHANGED <<phase, t, t4, v0, stack, out, genVars>>

ExecParam ==
  /\ Runs({"PARAM"}) /\ t4 \in DOMAIN stack
  /\ Forward
  /\ mem' = [mem EXCEPT ![q.dst.char_val] = stack[t4]]
  /\ t4' = t4 + 1
  /\ UNCHANGED <<t, sp, s0, ra, v0, stack, out, bases>>

ExecReturn ==
  /\ Runs({"RETURN"})
  /\ v0' = ByNameValue(q.a)
  /\ IF ra = 0 THEN phase' = "halted" /\ UNCHANGED <<pc, resume>>
               ELSE pc' = ra /\ resume' = TRUE /\ UNCHANGED phase
  /\ UNCHANGED <<t, sp, s0, ra, t4, mem, stack, out, bases, genVars>>

(* read and write are leaf routines that keep $ra in the word below $sp.   *)
KeepRa == sp >= 1 /\ stack' = [stack EXCEPT ![sp - 1] = ra]

ExecRead ==
  /\ Runs({"READ"}) /\ KeepRa
  /\ Forward
  /\ \E n \in Inputs :
        /\ v0' = n
        /\ t' = [AfterLoads EXCEPT ![blk.ld[1].reg] = n]
        /\ mem' = [mem EXCEPT ![q.dst.char_val] = n]
  /\ UNCHANGED <<sp, s0, ra, t4, out, bases>>

ExecWrite ==       \* what $t0 holds is printed; nothing loads the operand
  /\ Runs({"WRITE"}) /\ KeepRa
  /\ Forward
  /\ out' = Append(out, t["t0"])
  /\ v0' = 0
  /\ UNCHANGED <<t, sp, s0, ra, t4, mem, bases>>

(* Out of stack, a PARAM without a caller, or past the end of the text.    *)
Fault ==
  /\ phase = "run" /\ ~resume
  /\ \/ pc \notin DOMAIN asm
     \/ Runs({"ARG", "READ", "WRITE"}) /\ sp < 1
     \/ Runs({"CALL"}) /\ FrameBase < 0
     \/ Runs({"PARAM"}) /\ t4 \notin DOMAIN stack
  /\ phase' = "fault"
  /\ UNCHANGED <<pc, resume, t, sp, s0, ra, t4, v0, mem, stack, out, bases, genVars>>

Over == phase \in {"halted", "fault", "unresolved", "foreign"} \/ status = "aborted"
Stay == Over /\ UNCHANGED vars

Next == \/ Compile \/ Link \/ ExecNothing \/ ExecAssign \/ ExecArith \/ ExecJump
        \/ ExecNoJump \/ ExecArg \/ ExecCall \/ ExecResume \/ ExecParam
        \/ ExecReturn \/ ExecRead \/ ExecWrite \/ Fault \/ Stay

Spec == Init /\ [][Next]_vars /\ WF_vars(Next)

-------------------------------------------------------------------------------
(* The machine's state has its types, and pc, ra and the words of vars_set *)
(* are in the text and in .data.                                           *)
TypeOK ==
  /\ GenTypeOK
  /\ phase \in {"compile", "run", "halted", "unresolved", "foreign", "fault"}
  /\ phase # "compile" => status = "generated"
  /\ resume \in BOOLEAN
  /\ t \in [TRegs -> Int]
  /\ sp \in 0 .. StackWords /\ s0 \in 0 .. StackWords
  /\ ra \in 0 .. Len(tacs) /\ t4 \in Int /\ v0 \in Int
  /\ mem \in [Vars -> Int]
  /\ stack \in [0 .. StackWords - 1 -> Int]
  /\ out \in Seq(Int)
  /\ bases \in Seq(0 .. StackWords)

(* The top of the words the running activation may use, and the top of what*)
(* the i-th suspended one had pushed when it called.                       *)
Top(bs) == IF bs = << >> THEN StackWords ELSE bs[Len(bs)]
Under(i) == IF i = 1 THEN StackWords ELSE bases[i - 1]
SavedRaOf(i) == stack[bases[i] + NumVars]
SavedS0Of(i) == stack[bases[i] + NumVars + 1]
CallerTop(i) == bases[i] + NumVars + 2 + SavedS0Of(i)

(* Every word between $sp and the start of the stack is accounted for: an  *)
(* activation has pushed exactly the s0 words of arguments it will pop, and*)
(* every suspended one as many as its saved $s0 says.  $s0 is the only     *)
(* record of how far RETURN's caller has to move $sp.                      *)
StackShape ==
  /\ sp + s0 = Top(bases)
  /\ \A i \in DOMAIN bases : CallerTop(i) = Under(i)

(* $ra is a CALL exactly when there is one to return to, and so is every   *)
(* $ra a frame has saved: a RETURN never lands anywhere else.              *)
IsCall(a) == a \in DOMAIN tacs /\ tacs[a].kind = "CALL"
ReturnsToCall ==
  /\ \/ ra = 0 /\ bases = << >>
     \/ IsCall(ra) /\ bases # << >>
  /\ \A i \in DOMAIN bases :
        IF i = 1 THEN SavedRaOf(i) = 0 ELSE IsCall(SavedRaOf(i))

(* What makes the two inductive: arguments are only ever pending between an*)
(* ARG and its CALL, so that a RETURN finds $sp at the frame it has to pop;*)
(* the frames lie one below the other.                                     *)
ArgsPending ==
  /\ s0 > 0 => phase # "compile" /\ pc \in DOMAIN tacs /\ tacs[pc].kind \in {"ARG", "CALL"}
  /\ resume => s0 = 0 /\ bases # << >>
FramesInOrder ==
  \A i, j \in DOMAIN bases : i < j => bases[j] < bases[i]
StackTypes ==
  /\ sp \in 0 .. StackWords /\ s0 \in Nat
  /\ DOMAIN stack = 0 .. StackWords - 1 /\ stack = [a \in DOMAIN stack |-> stack[a]]
  /\ bases \in Seq(0 .. StackWords)
  /\ \A i \in DOMAIN bases : SavedS0Of(i) \in Nat
  /\ phase = "compile" => bases = << >>
  /\ phase # "compile" => status = "generated"
StackInv == /\ StackTypes /\ StackShape /\ ReturnsToCall /\ ArgsPending /\ FramesInOrder

(* No instruction writes into the frame of a suspended activation: the     *)
(* words from the last frame's base up only change by being popped.        *)
FramesIntact ==
  [][\A a \in DOMAIN stack : a >= Top(bases) => stack'[a] = stack[a]]_vars

(* Every run of a program that is not an endless loop ends: each RETURN    *)
(* finds its caller, and a call without end runs out of stack.             *)
RunEnds == <>Over

(* What WRITE prints is the variable the quadruple names.                  *)
WritesItsOperand ==
  [][out' # out => out' = Append(out, ByNameValue(q.a))]_vars

(* A conditional jump is taken when its relation holds between c1 and c2.  *)
JumpsAsStated ==
  [][Runs(IfKinds) =>
       pc' = IF Holds(q.kind, ByNameValue(q.a), ByNameValue(q.b))
             THEN LabelAt(tacs, q.labelno.int_val) ELSE pc + 1]_vars

(* What the text's names are, said of the program's quadruples: those read *)
(* by name, and those for which some quadruple makes the generator allocate*)
(* a word.                                                                 *)
OperandsRead(c) == CASE c.kind \in Arith \cup IfKinds \cup {"DEREF"} -> {c.a, c.b}
                     [] c.kind \in {"ASSIGN", "ADDR", "FETCH"} -> {c.a}
                     [] OTHER -> {}
NamesRead(c) == {o.char_val : o \in {x \in OperandsRead(c) : IsVariable(x)}} \cup ByName(c)
NamesGiven(c) ==
  CASE c.kind \in Arith \cup {"ASSIGN", "ADDR", "FETCH", "CALL", "PARAM", "READ"} ->
         {c.dst.char_val}
    [] c.kind = "WRITE" -> {c.a.char_val}
    [] OTHER -> {}
Given(p) == UNION {NamesGiven(p[i]) : i \in DOMAIN p}
ReadIn(p) == UNION {NamesRead(p[i]) : i \in DOMAIN p}
Taken(p) == AssemblerTakes(p, Given(p), ReadIn(p))
Linkable(p) == Taken(p) /\ ReadIn(p) \subseteq Given(p) /\ PlacesResolve(p)

(* The assembler refuses a compiled program exactly when its quadruples are*)
(* at fault (a name read that none of them gives a word, a label or function*)
(* that is missing or whose symbol is taken, a number it cannot spell), and*)
(* what runs has every symbol in its place: the three emitters that store a*)
(* name without get_register_w forget none, and no word is left over.      *)
LinksAsStated ==
  /\ phase # "compile" => status = "generated"
  /\ phase = "unresolved" => ~Taken(tacs)
  /\ phase = "foreign" => Taken(tacs) /\ ~Linkable(tacs)
  /\ phase \in {"run", "halted", "fault"} => Linkable(tacs)

(* What links runs.                                                        *)
Links == phase \notin {"unresolved", "foreign"}

(* What the running program is of TacRun: the activations are the words of *)
(* .data and the frames on the stack, the arguments are between $sp and the*)
(* last frame, or, before the PARAMs of a callee have read them, above it. *)
SavedEnv(i) == [v \in Vars |-> IF v \in vars_set THEN stack[bases[i] + Slot(v)] ELSE mem[v]]
ReturnTo(i) == IF i = Len(bases) THEN ra ELSE SavedRaOf(i + 1)
AbsFrames == [i \in DOMAIN bases |-> [at |-> ReturnTo(i), env |-> SavedEnv(i)]]
AbsArgs == [k \in 1 .. s0 |-> stack[sp + k - 1]]
TakesParams == /\ phase # "compile" /\ pc \in DOMAIN tacs
               /\ tacs[pc].kind \in {"FUNCTION", "PARAM"} /\ bases # << >>
AbsActuals == IF TakesParams
              THEN [k \in 1 .. CallerTop(Len(bases)) - t4 |-> stack[t4 + k - 1]]
              ELSE << >>

Meaning == INSTANCE TacRun
  WITH prog <- tacs, at <- pc, returned <- resume, env <- mem, args <- AbsArgs,
       actuals <- AbsActuals, frames <- AbsFrames, value <- IF resume THEN v0 ELSE 0,
       halted <- phase = "halted"

(* The compiled program does what its TAC says, call for call: pushing all *)
(* of .data at every call gives each activation variables of its own.      *)
KeepsMeaning == Meaning!Spec

(* The programs whose compiled form keeps that promise.  `live' is where   *)
(* control can get: the front end leaves quadruples behind a RETURN or a   *)
(* GOTO that nothing reaches, and what stands there does not matter.       *)
Falls(p, i) == p[i].kind \notin {"GOTO", "RETURN"}
ControlStays(p, live) ==
  /\ FuncAt(p, Main) \in live
  /\ \A i \in live \cap DOMAIN p :
        /\ Falls(p, i) => i + 1 \in live
        /\ p[i].kind \in IfKinds \cup {"GOTO"} => LabelAt(p, p[i].labelno.int_val) \in live
        /\ p[i].kind = "CALL" => FuncAt(p, p[i].funcname) \in live

(* No function runs on into the next one, and PARAMs open their function.  *)
FunctionsClosed(p, live) ==
  \A i \in live \cap DOMAIN p : i + 1 \in DOMAIN p /\ Falls(p, i) =>
     /\ p[i + 1].kind # "FUNCTION"
     /\ p[i + 1].kind = "PARAM" => p[i].kind \in {"FUNCTION", "PARAM"}

(* A WRITE stands behind the instruction that stores its operand, as it    *)
(* does unless the operand is a call, a READ or a relation or logical      *)
(* operation, behind which there is a LABEL (mips32.cpp:540).              *)
WritesFollowStores(p, live) ==
  \A i \in live \cap DOMAIN p : i + 1 \in DOMAIN p /\ Falls(p, i) /\ p[i + 1].kind = "WRITE" =>
     p[i].kind \in Arith \cup {"ASSIGN"} /\ p[i].dst.char_val = p[i + 1].a.char_val

(* A CALL has as many ARGs right before it as its function has PARAMs.     *)
ArgsBefore(p, i, n) ==
  /\ \A k \in 1 .. n : i - k \in DOMAIN p /\ p[i - k].kind = "ARG"
  /\ i - n - 1 \in DOMAIN p => p[i - n - 1].kind # "ARG"
ParamsFrom(p, i, n) ==
  /\ \A k \in 0 .. n - 1 : i + k \in DOMAIN p /\ p[i + k].kind = "PARAM"
  /\ i + n \in DOMAIN p => p[i + n].kind # "PARAM"
CallsFit(p, live) ==
  \A i \in live \cap DOMAIN p : p[i].kind = "CALL" =>
     \E n \in 0 .. i : ArgsBefore(p, i, n) /\ ParamsFrom(p, FuncAt(p, p[i].funcname) + 1, n)

(* A relation has its constant on the right, unless it is symmetric        *)
(* (mips32.cpp:271).                                                       *)
ConstantsOnRight(p, live) ==
  \A i \in live \cap DOMAIN p :
     p[i].kind \in IfKinds /\ IsConstant(p[i].a) => p[i].kind \in {"IFEQ", "IFNE"}

FormedOn(p, live) == /\ ControlStays(p, live) /\ FunctionsClosed(p, live)
                     /\ WritesFollowStores(p, live) /\ CallsFit(p, live)
                     /\ ConstantsOnRight(p, live)
WellFormed(p) == \E live \in SUBSET Nat : FormedOn(p, live)

(* What holds of a running well-formed program beside StackInv: arguments  *)
(* are pushed one for each ARG passed, PARAMs are as many as words are left*)
(* to read, every return leads back to where control can get.              *)
FirstParam == IF tacs[pc].kind = "FUNCTION" THEN pc + 1 ELSE pc
ArgsCounted == ~resume => ArgsBefore(tacs, pc, s0)
ParamsCounted ==
  ~resume /\ pc \in DOMAIN tacs /\ tacs[pc].kind \in {"FUNCTION", "PARAM"} =>
     IF bases = << >> THEN t4 = -1
     ELSE /\ CallerTop(Len(bases)) - t4 \in Nat
          /\ ParamsFrom(tacs, FirstParam, CallerTop(Len(bases)) - t4)
StoredInT0 ==
  ~resume /\ pc \in DOMAIN tacs /\ tacs[pc].kind = "WRITE" => t["t0"] = mem[tacs[pc].a.char_val]
StaysLive(live) ==
  /\ pc \in live
  /\ \A i \in DOMAIN bases : ReturnTo(i) \in live
  /\ resume => IsCall(pc)
RunsAsFormed(live) ==
  /\ phase = "compile" => pc = FuncAt(tacs, Main) /\ t4 = -1
  /\ phase = "run" => StaysLive(live) /\ ArgsCounted /\ ParamsCounted /\ StoredInT0

==============================================================================
