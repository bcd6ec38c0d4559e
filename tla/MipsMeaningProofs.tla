-------------------------- MODULE MipsMeaningProofs --------------------------
(***************************************************************************)
(* A well-formed program, compiled and run, does what TacRun says its      *)
(* quadruples mean: MipsRun implements TacRun step by step.                *)
(***************************************************************************)
EXTENDS MipsTypeProofs

RefAt(live) == TypeInv /\ FormedOn(tacs, live) /\ RunsAsFormed(live)
RefInv == \E live \in SUBSET Nat : RefAt(live)

-------------------------------------------------------------------------------
(* What linking has made sure of: jumps end at LABELs, calls at FUNCTIONs. *)
LEMMA TargetsResolved ==
  ASSUME Resolves
  PROVE  /\ FuncAt(tacs, Main) \in DOMAIN tacs /\ tacs[FuncAt(tacs, Main)].kind = "FUNCTION"
         /\ \A i \in DOMAIN tacs :
              /\ tacs[i].kind \in IfKinds \cup {"GOTO"} =>
                    LET n == LabelAt(tacs, tacs[i].labelno.int_val)
                    IN  n \in DOMAIN tacs /\ tacs[n].kind = "LABEL"
              /\ tacs[i].kind = "CALL" =>
                    LET n == FuncAt(tacs, tacs[i].funcname)
                    IN  n \in DOMAIN tacs /\ tacs[n].kind = "FUNCTION"
<1>1. ASSUME NEW f, f \in {tacs[j].funcname : j \in Entries(tacs)}
      PROVE  FuncAt(tacs, f) \in DOMAIN tacs /\ tacs[FuncAt(tacs, f)].kind = "FUNCTION"
  <2>1. \E j \in DOMAIN tacs : tacs[j].kind = "FUNCTION" /\ tacs[j].funcname = f
    BY <1>1 DEF Entries
  <2> QED  BY <2>1 DEF FuncAt
<1>2. ASSUME NEW l, l \in {tacs[j].labelno : j \in Labels(tacs)}
      PROVE  LabelAt(tacs, l.int_val) \in DOMAIN tacs
             /\ tacs[LabelAt(tacs, l.int_val)].kind = "LABEL"
  <2>1. \E j \in DOMAIN tacs : tacs[j].kind = "LABEL" /\ tacs[j].labelno.int_val = l.int_val
    BY <1>2 DEF Labels
  <2> QED  BY <2>1 DEF LabelAt
<1>3. ASSUME NEW i \in DOMAIN tacs, tacs[i].kind \in IfKinds \cup {"GOTO"}
      PROVE  tacs[i].labelno \in {tacs[j].labelno : j \in Labels(tacs)}
  BY <1>3 DEF Resolves, PlacesResolve, Targets
<1>4. ASSUME NEW i \in DOMAIN tacs, tacs[i].kind = "CALL"
      PROVE  tacs[i].funcname \in {tacs[j].funcname : j \in Entries(tacs)}
  BY <1>4 DEF Resolves, PlacesResolve, Callees
<1>5. Main \in {tacs[j].funcname : j \in Entries(tacs)}
  BY DEF Resolves, PlacesResolve
<1> QED
  BY <1>1, <1>2, <1>3, <1>4, <1>5

(* What a block stores is a word that pushvars pushes.                     *)
LEMMA StoresWord ==
  ASSUME TypeInv, phase = "run", pc \in DOMAIN asm,
         q.kind \in Arith \cup {"ASSIGN", "CALL", "PARAM", "READ"}
  PROVE  /\ q.dst.char_val \in vars_set
         /\ q.kind \in Arith \cup {"ASSIGN"} => blk.t0 = q.dst.char_val
<1>1. Stored(blk) \subseteq vars_set
  BY DEF TypeInv, Linked, Resolves, Words, Names, blk
<1>2. CASE q.kind \in {"CALL", "PARAM", "READ"}
  BY <1>1, <1>2 DEF Stored, q, Arith, AddSub, MulDiv
<1>3. CASE q.kind \in Arith \cup {"ASSIGN"}
  <2>1. blk.t0 \in vars_set
    <3>1. Stored(blk) = {blk.t0}
      BY <1>3 DEF Stored, q, Arith, AddSub, MulDiv
    <3> QED  BY <1>1, <3>1
  <2>2. /\ q \in Instr /\ blk.t0 = TakenFor(WritesOf(q))
        /\ \A o \in Range(WritesOf(q)) : IsVariable(o)
    BY RunningBlock DEF Faithful
  <2>3. /\ \A x : TakenFor(<<x>>) = x.char_val
    <3>1. \A x : <<x>> # << >> /\ <<x>>[Len(<<x>>)] = x
      OBVIOUS
    <3> QED  BY <3>1 DEF TakenFor
  <2>4. blk.t0 = q.dst.char_val
    <3>1. CASE q.kind \notin MulDiv
      <4>1. WritesOf(q) = <<q.dst>>
        BY <1>3, <3>1 DEF WritesOf, Arith, AddSub, MulDiv
      <4> QED  BY <2>2, <2>3, <4>1
    <3>2. CASE q.kind \in MulDiv
      <4>1. WritesOf(q) = <<q.dst>> \o ConstantsOf(q.a, q.b)
        BY <3>2 DEF WritesOf, AddSub, MulDiv
      <4>2. q.dst \in Opd /\ q.a \in Opd /\ q.b \in Opd
        BY <2>2 DEF Instr
      <4>3. \A x, y \in Opd : y \in Range(<<x>> \o <<y>>)
        <5> TAKE x, y \in Opd
        <5>1. <<x>> \in Seq(Opd) /\ <<y>> \in Seq(Opd) /\ Len(<<x>>) = 1 /\ Len(<<y>>) = 1
              /\ <<y>>[1] = y
          OBVIOUS
        <5>2. Len(<<x>> \o <<y>>) = 2 /\ (<<x>> \o <<y>>)[2] = y
          BY <5>1
        <5>3. <<x>> \o <<y>> \in Seq(Opd)
          BY <5>1
        <5>4. 2 \in DOMAIN (<<x>> \o <<y>>)
          BY <5>2, <5>3
        <5> QED  BY <5>2, <5>4 DEF Range
      <4>4. ~IsConstant(q.a) /\ ~IsConstant(q.b)
        BY <2>2, <4>1, <4>2, <4>3 DEF ConstantsOf, IsConstant, IsVariable
      <4>5. WritesOf(q) = <<q.dst>>
        BY <4>1, <4>2, <4>4 DEF ConstantsOf
      <4> QED  BY <2>2, <2>3, <4>5
    <3> QED  BY <3>1, <3>2
  <2> QED  BY <1>3, <2>1, <2>4
<1> QED
  BY <1>2, <1>3

-------------------------------------------------------------------------------
(* The frames as activations: every word of them is at or above Top.       *)
LEMMA FrameWords ==
  ASSUME TypeInv, NEW i \in DOMAIN bases
  PROVE  /\ bases[i] \in 0 .. StackWords /\ Top(bases) <= bases[i] /\ Top(bases) \in Nat
         /\ \A n \in 0 .. NumVars + 1 : /\ bases[i] + n \in DOMAIN stack
                                        /\ bases[i] + n >= Top(bases)
         /\ CallerTop(i) \in 0 .. StackWords
<1>0. bases \in Seq(0 .. StackWords) /\ StackWords \in Nat /\ DOMAIN stack = 0 .. StackWords - 1
  BY MachineAssumption DEF TypeInv, StackInv, StackTypes
<1>1. i \in 1 .. Len(bases) /\ bases[i] \in 0 .. StackWords /\ bases # << >>
  BY <1>0
<1>2. Len(bases) \in DOMAIN bases /\ bases[Len(bases)] \in 0 .. StackWords
  BY <1>0, <1>1
<1>3. Top(bases) <= bases[i] /\ Top(bases) \in Nat
  <2>1. i < Len(bases) => bases[Len(bases)] < bases[i]
    BY <1>2 DEF TypeInv, StackInv, FramesInOrder
  <2>2. i = Len(bases) \/ i < Len(bases)
    BY <1>0, <1>1
  <2>3. bases[Len(bases)] <= bases[i]
    BY <1>1, <1>2, <2>1, <2>2
  <2> QED  BY <1>1, <1>2, <2>3 DEF Top
<1>4. bases[i] + NumVars + 1 \in DOMAIN stack /\ NumVars \in Nat
  BY FrameCells, NumVarsNat DEF TypeInv
<1>5. \A n \in 0 .. NumVars + 1 : bases[i] + n \in DOMAIN stack /\ bases[i] + n >= Top(bases)
  <2>1. bases[i] \in Nat /\ bases[i] + NumVars + 1 <= StackWords - 1
    BY <1>0, <1>1, <1>4
  <2>2. ASSUME NEW n \in 0 .. NumVars + 1
        PROVE  bases[i] + n \in 0 .. StackWords - 1 /\ bases[i] + n >= Top(bases)
    BY SMTT(60), <1>0, <1>3, <1>4, <2>1
  <2> QED  BY <1>0, <2>2
<1>6. CallerTop(i) \in 0 .. StackWords
  <2>1. CallerTop(i) = Under(i)
    BY DEF TypeInv, StackInv, StackShape
  <2>2. i # 1 => i - 1 \in DOMAIN bases /\ bases[i - 1] \in 0 .. StackWords
    BY <1>0, <1>1
  <2> QED  BY <1>0, <2>1, <2>2 DEF Under
<1> QED
  BY <1>1, <1>3, <1>5, <1>6

(* A step that writes neither the frames nor a variable that is not in them*)
(* leaves the suspended activations as they are.                           *)
OthersKept == \A v \in Vars \ vars_set : mem'[v] = mem[v]

LEMMA ActivationsKept ==
  ASSUME TypeInv, FramesKept, OthersKept, ra' = ra
  PROVE  /\ AbsFrames' = AbsFrames
         /\ \A i \in DOMAIN bases : ReturnTo(i)' = ReturnTo(i) /\ CallerTop(i)' = CallerTop(i)
<1>1. /\ bases' = bases /\ vars_set' = vars_set /\ NumVars' = NumVars
      /\ \A v : Slot(v)' = Slot(v)
  BY DEF FramesKept, NumVars, Slot
<1>2. /\ vars_set \subseteq Vars /\ NumVars \in Nat
      /\ \A v \in vars_set : Slot(v) \in 0 .. NumVars - 1
  BY SlotsFilled DEF TypeInv, NamesOnly
<1>3. ASSUME NEW i \in DOMAIN bases
      PROVE  SavedEnv(i)' = SavedEnv(i)
  <2>1. ASSUME NEW v \in vars_set
        PROVE  stack'[bases[i] + Slot(v)] = stack[bases[i] + Slot(v)]
    <3>1. Slot(v) \in 0 .. NumVars + 1
      BY <1>2
    <3>2. bases[i] + Slot(v) \in DOMAIN stack /\ bases[i] + Slot(v) >= Top(bases)
      BY <3>1, FrameWords
    <3> QED  BY <3>2 DEF FramesKept
  <2>2. ASSUME NEW v \in Vars
        PROVE  (IF v \in vars_set THEN stack'[bases[i] + Slot(v)] ELSE mem'[v])
                 = IF v \in vars_set THEN stack[bases[i] + Slot(v)] ELSE mem[v]
    BY <2>1 DEF OthersKept
  <2> QED  BY <1>1, <2>2 DEF SavedEnv
<1>4. \A i \in DOMAIN bases : SavedRaOf(i)' = SavedRaOf(i) /\ SavedS0Of(i)' = SavedS0Of(i)
  BY SavedKept DEF TypeInv
<1>5. bases \in Seq(0 .. StackWords)
  BY DEF TypeInv, StackInv, StackTypes
<1>6. ASSUME NEW i \in DOMAIN bases
      PROVE  ReturnTo(i)' = ReturnTo(i)
  <2>1. i # Len(bases) => i + 1 \in DOMAIN bases
    BY <1>5
  <2> QED  BY <1>1, <1>4, <2>1 DEF ReturnTo
<1>7. \A i \in DOMAIN bases : CallerTop(i)' = CallerTop(i)
  BY <1>1, <1>4 DEF CallerTop
<1> QED
  BY <1>1, <1>3, <1>6, <1>7 DEF AbsFrames

LEMMA NoArgs == s0 = 0 => AbsArgs = << >>
BY DEF AbsArgs

-------------------------------------------------------------------------------
(* Where a step may land so that no argument is pending and none is read.  *)
Runnable == phase = "run" /\ ~resume /\ pc \in DOMAIN asm

LEMMA RunnableFacts ==
  ASSUME NEW live \in SUBSET Nat, RefAt(live), Runnable
  PROVE  /\ pc \in live /\ pc \in DOMAIN tacs /\ q = tacs[pc] /\ pc \in Nat
         /\ tacs \in Programs /\ tacs \in Seq(Instr) /\ q \in Instr
         /\ ArgsCounted /\ ParamsCounted /\ StoredInT0 /\ StaysLive(live)
<1>1. pc \in DOMAIN tacs /\ q = tacs[pc] /\ tacs \in Programs /\ tacs \in Seq(Instr)
  BY BlockAtPc, ProgramsAssumption DEF RefAt, TypeInv, Runnable, GenTypeOK
<1>2. ArgsCounted /\ ParamsCounted /\ StoredInT0 /\ StaysLive(live)
  BY DEF RefAt, RunsAsFormed, Runnable
<1>3. q \in Instr
  BY <1>1
<1> QED
  BY <1>1, <1>2, <1>3 DEF StaysLive

LEMMA NotBehindArg ==
  ASSUME NEW p \in Programs, NEW i \in DOMAIN p, p[i].kind \notin {"ARG", "CALL"}
  PROVE  ArgsBefore(p, i, 0)
<1>1. p \in Seq(Instr)
  BY ProgramsAssumption
<1>2. i \in Nat /\ i - 1 + 1 = i /\ i - 0 - 1 = i - 1
  BY <1>1
<1>3. i - 1 \in DOMAIN p => p[i - 1].kind # "ARG"
  BY <1>2, ArgsTogether
<1> QED
  BY <1>2, <1>3 DEF ArgsBefore

LEMMA Landing ==
  ASSUME NEW live \in SUBSET Nat, RefAt(live), phase' = "run", ~resume', pc' \in live,
         s0' = 0, FramesKept, OthersKept, UNCHANGED <<ra, tacs>>, StaysLive(live),
         ArgsBefore(tacs, pc', 0), StoredInT0',
         pc' \in DOMAIN tacs => tacs[pc'].kind \notin {"FUNCTION", "PARAM"}
  PROVE  /\ RunsAsFormed(live)'
         /\ AbsFrames' = AbsFrames /\ AbsArgs' = << >> /\ AbsActuals' = << >>
<1>1. AbsFrames' = AbsFrames /\ \A i \in DOMAIN bases : ReturnTo(i)' = ReturnTo(i)
  BY ActivationsKept DEF RefAt
<1>2. StaysLive(live)'
  BY <1>1 DEF StaysLive, FramesKept
<1>3. AbsArgs' = << >>
  BY DEF AbsArgs
<1>4. AbsActuals' = << >>
  BY DEF AbsActuals, TakesParams
<1>5. ArgsCounted'
  BY DEF ArgsCounted, ArgsBefore
<1>6. ParamsCounted'
  BY DEF ParamsCounted
<1> QED
  BY <1>1, <1>2, <1>3, <1>4, <1>5, <1>6 DEF RunsAsFormed

(* The step to the next quadruple, of those that neither pass arguments nor*)
(* begin a function.                                                       *)
PlainKinds == Kinds \ {"GOTO", "RETURN", "ARG", "CALL", "PARAM", "FUNCTION"}

LEMMA MovesOn ==
  ASSUME NEW live \in SUBSET Nat, RefAt(live), Runnable, q.kind \in PlainKinds,
         pc' = pc + 1, UNCHANGED <<phase, resume, sp, s0, ra, tacs>>, FramesKept, OthersKept,
         q.kind \in Arith \cup {"ASSIGN"} => t'["t0"] = mem'[q.dst.char_val]
  PROVE  /\ RunsAsFormed(live)'
         /\ AbsFrames' = AbsFrames /\ AbsArgs = << >> /\ AbsArgs' = << >>
         /\ AbsActuals = << >> /\ AbsActuals' = << >>
<1>1. /\ pc \in live \cap DOMAIN tacs /\ q = tacs[pc] /\ pc \in Nat /\ StaysLive(live)
      /\ tacs \in Seq(Instr)
  BY RunnableFacts
<1>2. Falls(tacs, pc) /\ q.kind \notin {"ARG", "CALL", "FUNCTION", "PARAM"}
  BY <1>1 DEF PlainKinds, Falls
<1>3. pc' \in live
  BY <1>1, <1>2 DEF RefAt, FormedOn, ControlStays
<1>4. pc' \in DOMAIN tacs => tacs[pc'].kind \notin {"FUNCTION", "PARAM"}
  BY <1>1, <1>2 DEF RefAt, FormedOn, FunctionsClosed
<1>5. ArgsBefore(tacs, pc', 0)
  BY <1>1, <1>2 DEF ArgsBefore
<1>6. StoredInT0'
  BY <1>1, <1>2 DEF RefAt, FormedOn, WritesFollowStores, StoredInT0
<1>7. s0 = 0
  BY <1>1, <1>2 DEF RefAt, TypeInv, StackInv, ArgsPending, StackTypes
<1>8. AbsArgs = << >> /\ AbsActuals = << >>
  BY <1>1, <1>2, <1>7, NoArgs DEF AbsActuals, TakesParams
<1> QED
  BY <1>1, <1>3, <1>4, <1>5, <1>6, <1>7, <1>8, Landing DEF Runnable

-------------------------------------------------------------------------------
(* One lemma per kind of step: the invariant holds behind it, and TacRun   *)
(* takes the step of the same quadruple.                                   *)
(* Both modules take the vocabulary of quadruples from Tac.                *)
LEMMA SameVocabulary ==
  /\ Meaning!Arith = Arith /\ Meaning!IfKinds = IfKinds
  /\ \A o : Meaning!IsConstant(o) <=> IsConstant(o)
  /\ \A k, m, n : Meaning!Results(k, m, n) = Results(k, m, n)
  /\ \A k, m, n : Meaning!Holds(k, m, n) <=> Holds(k, m, n)
  /\ \A p, n : Meaning!LabelAt(p, n) = LabelAt(p, n)
  /\ \A p, f : Meaning!FuncAt(p, f) = FuncAt(p, f)
<1>1. Meaning!Arith = Arith /\ Meaning!IfKinds = IfKinds
  BY DEF Meaning!Arith, Meaning!AddSub, Meaning!MulDiv, Meaning!IfKinds, Arith, AddSub, MulDiv,
         IfKinds
<1>2. \A o : Meaning!IsConstant(o) <=> IsConstant(o)
  BY DEF Meaning!IsConstant, IsConstant
<1>3. \A m, n : Meaning!Quot(m, n) = Quot(m, n)
  BY DEF Meaning!Quot, Quot, Meaning!AbsVal, AbsVal
<1>4. \A k, m, n : Meaning!Results(k, m, n) = Results(k, m, n)
  BY <1>3 DEF Meaning!Results, Results
<1>5. \A k, m, n : Meaning!Holds(k, m, n) <=> Holds(k, m, n)
  BY DEF Meaning!Holds, Holds
<1>6. \A p, n : Meaning!LabelAt(p, n) = LabelAt(p, n)
  BY DEF Meaning!LabelAt, LabelAt
<1>7. \A p, f : Meaning!FuncAt(p, f) = FuncAt(p, f)
  BY DEF Meaning!FuncAt, FuncAt
<1> QED
  BY <1>1, <1>2, <1>4, <1>5, <1>6, <1>7

(* At a block that can run, TacRun is at the same quadruple, and operands  *)
(* have there the values they have by name here.                           *)
LEMMA SameQuadruple ==
  ASSUME NEW live \in SUBSET Nat, RefAt(live), Runnable
  PROVE  /\ Meaning!q = q /\ \A o : Meaning!Val(o) = ByNameValue(o)
         /\ \A kinds : q.kind \in kinds => Meaning!Running(kinds)
<1>1. pc \in DOMAIN tacs /\ q = tacs[pc] /\ ~resume /\ phase # "halted"
  BY RunnableFacts DEF Runnable
<1>2. Meaning!q = q
  BY <1>1 DEF Meaning!q
<1>3. \A o : Meaning!Val(o) = ByNameValue(o)
  BY SameVocabulary DEF Meaning!Val, ByNameValue
<1> QED
  BY <1>1, <1>2, <1>3 DEF Meaning!Running

(* What a step to the next quadruple is for TacRun.                        *)
NextOne == /\ pc' = pc + 1 /\ UNCHANGED <<tacs, phase, resume>>
           /\ AbsFrames' = AbsFrames
LEMMA NextAdvances ==
  ASSUME Runnable, NextOne
  PROVE  /\ Meaning!Advance /\ AbsFrames' = AbsFrames
         /\ (IF resume' THEN v0' ELSE 0) = IF resume THEN v0 ELSE 0
BY DEF Runnable, NextOne, Meaning!Advance

LEMMA SameFrames ==
  ASSUME TypeInv, UNCHANGED <<bases, vars_set, stack>>
  PROVE  FramesKept
BY DEF FramesKept, TypeInv, StackInv, StackTypes

LEMMA SameOthers ==
  ASSUME TypeInv, NEW v \in vars_set, NEW x, mem' = [mem EXCEPT ![v] = x]
  PROVE  OthersKept
BY DEF OthersKept, TypeInv, MachineTyped

LEMMA AssignMeans ==
  ASSUME NEW live \in SUBSET Nat, RefAt(live), ExecAssign
  PROVE  RunsAsFormed(live)' /\ Meaning!Move
<1>1. /\ Runnable /\ q.kind = "ASSIGN" /\ pc' = pc + 1
      /\ UNCHANGED <<phase, resume, sp, s0, ra, stack, out, bases, genVars>>
      /\ t' = [AfterLoads EXCEPT !["t0"] = Operand1]
      /\ mem' = [mem EXCEPT ![blk.t0] = Operand1]
  BY DEF ExecAssign, Runs, InCode, Forward, StoreT0, Runnable
<1>3. q.dst.char_val \in vars_set /\ blk.t0 = q.dst.char_val
  BY <1>1, StoresWord DEF RefAt, Runnable
<1>4. Operand1 = ByNameValue(q.a)
  BY <1>1, OperandValues DEF RefAt, Runnable
<1>5. UNCHANGED <<tacs, vars_set>>
  BY <1>1 DEF genVars
<1>6. FramesKept /\ OthersKept
  BY <1>1, <1>3, <1>5, SameFrames, SameOthers DEF RefAt
<1>7. t'["t0"] = mem'[q.dst.char_val]
  <2>1. q.dst.char_val \in Vars
    BY <1>3 DEF RefAt, TypeInv, NamesOnly
  <2>2. AfterLoads \in [TRegs -> Int]
    BY <1>1, LoadedValues DEF RefAt, Runnable
  <2> QED  BY <1>1, <1>3, <2>1, <2>2 DEF RefAt, TypeInv, MachineTyped, TRegs
<1>8. q.kind \in PlainKinds
  BY <1>1 DEF PlainKinds, Kinds, Arith, AddSub, MulDiv, IfKinds
<1>9. /\ RunsAsFormed(live)'
      /\ AbsFrames' = AbsFrames /\ AbsArgs = << >> /\ AbsArgs' = << >>
      /\ AbsActuals = << >> /\ AbsActuals' = << >>
  BY <1>1, <1>5, <1>6, <1>7, <1>8, MovesOn
<1>10. Meaning!Move
  <2>1. NextOne
    BY <1>1, <1>5, <1>9 DEF NextOne
  <2> QED  BY <1>1, <1>3, <1>4, <1>9, <2>1, SameQuadruple, NextAdvances
              DEF Meaning!Move, Meaning!Assigned
<1> QED
  BY <1>9, <1>10

LEMMA ArithMeans ==
  ASSUME NEW live \in SUBSET Nat, RefAt(live), ExecArith
  PROVE  RunsAsFormed(live)' /\ Meaning!Operate
<1>1. /\ Runnable /\ q.kind \in Arith /\ pc' = pc + 1
      /\ UNCHANGED <<phase, resume, sp, s0, ra, stack, out, bases, genVars>>
  BY DEF ExecArith, Runs, InCode, Forward, Runnable
<1>2. PICK n \in Results(q.kind, Operand1, Operand2) :
         /\ t' = [Negated(AfterLoads) EXCEPT !["t0"] = n]
         /\ mem' = [mem EXCEPT ![blk.t0] = n]
  BY DEF ExecArith, StoreT0
<1>3. q.dst.char_val \in vars_set /\ blk.t0 = q.dst.char_val
  BY <1>1, StoresWord DEF RefAt, Runnable
<1>4. Operand1 = ByNameValue(q.a) /\ Operand2 = ByNameValue(q.b)
  BY <1>1, OperandValues DEF RefAt, Runnable, Arith, AddSub, MulDiv
<1>5. UNCHANGED <<tacs, vars_set>>
  BY <1>1 DEF genVars
<1>6. FramesKept /\ OthersKept
  BY <1>1, <1>2, <1>3, <1>5, SameFrames, SameOthers DEF RefAt
<1>7. t'["t0"] = mem'[q.dst.char_val]
  <2>1. q.dst.char_val \in Vars
    BY <1>3 DEF RefAt, TypeInv, NamesOnly
  <2>2. DOMAIN Negated(AfterLoads) = TRegs
    BY DEF Negated, AfterLoads
  <2> QED  BY <1>2, <1>3, <2>1, <2>2 DEF RefAt, TypeInv, MachineTyped, TRegs
<1>8. q.kind \in PlainKinds
  BY <1>1 DEF PlainKinds, Kinds, Arith, AddSub, MulDiv, IfKinds
<1>9. /\ RunsAsFormed(live)'
      /\ AbsFrames' = AbsFrames /\ AbsArgs = << >> /\ AbsArgs' = << >>
      /\ AbsActuals = << >> /\ AbsActuals' = << >>
  BY <1>1, <1>5, <1>6, <1>7, <1>8, MovesOn
<1>10. Meaning!Operate
  <2>1. NextOne
    BY <1>1, <1>5, <1>9 DEF NextOne
  <2>2. \E m \in Meaning!Results(q.kind, Meaning!Val(q.a), Meaning!Val(q.b)) :
           Meaning!Assigned(q.dst, m)
    <3>1. Meaning!Val(q.a) = Operand1 /\ Meaning!Val(q.b) = Operand2
      BY <1>1, <1>4, SameQuadruple
    <3>2. Meaning!Results(q.kind, Operand1, Operand2) = Results(q.kind, Operand1, Operand2)
      BY SameVocabulary
    <3>3. Meaning!Assigned(q.dst, n)
      BY <1>2, <1>3 DEF Meaning!Assigned
    <3> QED  BY <1>2, <3>1, <3>2, <3>3
  <2> QED  BY <1>1, <1>9, <2>1, <2>2, SameQuadruple, SameVocabulary, NextAdvances
              DEF Meaning!Operate
<1> QED
  BY <1>9, <1>10

(* A condition is decided as its quadruple says, the exchanged operands of *)
(* a constant on the left making no difference to the symmetric relations. *)
LEMMA BranchMeans ==
  ASSUME NEW live \in SUBSET Nat, RefAt(live), Runnable, q.kind \in IfKinds
  PROVE  TakesBranch <=> Holds(q.kind, ByNameValue(q.a), ByNameValue(q.b))
<1>1. Operand1 = ByNameValue(q.a) /\ Operand2 = ByNameValue(q.b)
  BY OperandValues DEF RefAt, Runnable, IfKinds
<1>2. IsConstant(q.a) => q.kind \in {"IFEQ", "IFNE"}
  BY RunnableFacts DEF RefAt, FormedOn, ConstantsOnRight
<1>3. \A k \in {"IFEQ", "IFNE"} : \A m, n : Holds(k, m, n) <=> Holds(k, n, m)
  BY DEF Holds
<1> QED
  BY <1>1, <1>2, <1>3 DEF TakesBranch

LEMMA NoJumpMeans ==
  ASSUME NEW live \in SUBSET Nat, RefAt(live), ExecNoJump
  PROVE  RunsAsFormed(live)' /\ Meaning!FallThrough
<1>1. /\ Runnable /\ q.kind \in IfKinds /\ pc' = pc + 1 /\ ~TakesBranch
      /\ UNCHANGED <<phase, resume, sp, s0, ra, mem, stack, out, bases, genVars>>
  BY DEF ExecNoJump, Runs, InCode, Forward, Runnable
<1>2. UNCHANGED <<tacs, vars_set>>
  BY <1>1 DEF genVars
<1>3. FramesKept /\ OthersKept
  BY <1>1, <1>2, SameFrames DEF RefAt, OthersKept
<1>4. q.kind \in PlainKinds /\ q.kind \notin Arith \cup {"ASSIGN"}
  BY <1>1 DEF PlainKinds, Kinds, Arith, AddSub, MulDiv, IfKinds
<1>5. /\ RunsAsFormed(live)'
      /\ AbsFrames' = AbsFrames /\ AbsArgs = << >> /\ AbsArgs' = << >>
      /\ AbsActuals = << >> /\ AbsActuals' = << >>
  BY <1>1, <1>2, <1>3, <1>4, MovesOn
<1>6. Meaning!FallThrough
  <2>1. NextOne
    BY <1>1, <1>2, <1>5 DEF NextOne
  <2>2. ~Meaning!Holds(q.kind, Meaning!Val(q.a), Meaning!Val(q.b))
    BY <1>1, BranchMeans, SameQuadruple, SameVocabulary
  <2> QED  BY <1>1, <1>5, <2>1, <2>2, SameQuadruple, SameVocabulary, NextAdvances
              DEF Meaning!FallThrough
<1> QED
  BY <1>5, <1>6

LEMMA JumpMeans ==
  ASSUME NEW live \in SUBSET Nat, RefAt(live), ExecJump
  PROVE  RunsAsFormed(live)' /\ Meaning!Jump
<1>1. /\ Runnable /\ q.kind \in IfKinds \cup {"GOTO"}
      /\ q.kind \in IfKinds => TakesBranch
      /\ pc' = LabelAt(tacs, q.labelno.int_val)
      /\ UNCHANGED <<phase, resume, sp, s0, ra, t4, v0, mem, stack, out, bases, genVars>>
  BY DEF ExecJump, Runs, InCode, Runnable, IfKinds
<1>2. UNCHANGED <<tacs, vars_set>>
  BY <1>1 DEF genVars
<1>3. FramesKept /\ OthersKept
  BY <1>1, <1>2, SameFrames DEF RefAt, OthersKept
<1>4. /\ pc \in live \cap DOMAIN tacs /\ q = tacs[pc] /\ StaysLive(live) /\ tacs \in Programs
  BY <1>1, RunnableFacts
<1>5. pc' \in live /\ pc' \in DOMAIN tacs /\ tacs[pc'].kind = "LABEL"
  <2>1. pc' \in live
    BY <1>1, <1>4 DEF RefAt, FormedOn, ControlStays
  <2> QED  BY <1>1, <1>4, <2>1, TargetsResolved DEF RefAt, Runnable, TypeInv, Linked
<1>6. ArgsBefore(tacs, pc', 0)
  BY <1>4, <1>5, NotBehindArg
<1>7. s0 = 0 /\ AbsArgs = << >> /\ AbsActuals = << >>
  <2>1. q.kind \notin {"ARG", "CALL", "FUNCTION", "PARAM"}
    BY <1>1 DEF IfKinds
  <2>2. s0 = 0
    BY <1>4, <2>1 DEF RefAt, TypeInv, StackInv, ArgsPending, StackTypes
  <2> QED  BY <1>4, <2>1, <2>2, NoArgs DEF AbsActuals, TakesParams
<1>8. StoredInT0'
  BY <1>2, <1>5 DEF StoredInT0
<1>9. /\ RunsAsFormed(live)'
      /\ AbsFrames' = AbsFrames /\ AbsArgs' = << >> /\ AbsActuals' = << >>
  BY <1>1, <1>2, <1>3, <1>4, <1>5, <1>6, <1>7, <1>8, Landing DEF Runnable
<1>10. Meaning!Jump
  <2>1. \/ Meaning!Running({"GOTO"})
        \/ Meaning!Running(IfKinds)
           /\ Meaning!Holds(q.kind, Meaning!Val(q.a), Meaning!Val(q.b))
    <3>1. CASE q.kind = "GOTO"
      BY <1>1, <3>1, SameQuadruple
    <3>2. CASE q.kind \in IfKinds
      BY <1>1, <3>2, BranchMeans, SameQuadruple, SameVocabulary
    <3> QED  BY <1>1, <3>1, <3>2
  <2>2. pc' = Meaning!LabelAt(tacs, Meaning!q.labelno.int_val)
    BY <1>1, SameQuadruple, SameVocabulary
  <2> QED  BY <1>1, <1>2, <1>7, <1>9, <2>1, <2>2, SameQuadruple, SameVocabulary
              DEF Meaning!Jump
<1> QED
  BY <1>9, <1>10

LEMMA ReadMeans ==
  ASSUME NEW live \in SUBSET Nat, RefAt(live), ExecRead
  PROVE  RunsAsFormed(live)' /\ Meaning!Input
<1>1. /\ Runnable /\ q.kind = "READ" /\ pc' = pc + 1 /\ sp >= 1
      /\ stack' = [stack EXCEPT ![sp - 1] = ra]
      /\ UNCHANGED <<phase, resume, sp, s0, ra, out, bases, genVars>>
  BY DEF ExecRead, KeepRa, Runs, InCode, Forward, Runnable
<1>2. PICK n \in Inputs : mem' = [mem EXCEPT ![q.dst.char_val] = n]
  BY DEF ExecRead
<1>3. q.dst.char_val \in vars_set
  BY <1>1, StoresWord DEF RefAt, Runnable
<1>4. UNCHANGED <<tacs, vars_set>>
  BY <1>1 DEF genVars
<1>5. FramesKept
  BY <1>1, <1>4, CellBelow DEF RefAt, TypeInv
<1>6. OthersKept
  BY <1>2, <1>3, SameOthers DEF RefAt
<1>7. q.kind \in PlainKinds /\ q.kind \notin Arith \cup {"ASSIGN"}
  BY <1>1 DEF PlainKinds, Kinds, Arith, AddSub, MulDiv, IfKinds
<1>8. /\ RunsAsFormed(live)'
      /\ AbsFrames' = AbsFrames /\ AbsArgs = << >> /\ AbsArgs' = << >>
      /\ AbsActuals = << >> /\ AbsActuals' = << >>
  BY <1>1, <1>4, <1>5, <1>6, <1>7, MovesOn
<1>9. Meaning!Input
  <2>1. NextOne
    BY <1>1, <1>4, <1>8 DEF NextOne
  <2> QED  BY <1>1, <1>2, <1>8, <2>1, SameQuadruple, NextAdvances
              DEF Meaning!Input, Meaning!Assigned
<1> QED
  BY <1>8, <1>9

(* WRITE prints what $t0 holds: the operand, by StoredInT0.                *)
LEMMA WritesOperand ==
  ASSUME NEW live \in SUBSET Nat, RefAt(live), Runnable, q.kind = "WRITE"
  PROVE  t["t0"] = ByNameValue(q.a)
<1>1. t["t0"] = mem[q.a.char_val]
  BY RunnableFacts DEF StoredInT0, Runnable
<1>2. IsVariable(q.a)
  <2>1. WritesOf(q) = <<q.a>>
    BY DEF WritesOf, Arith, AddSub, MulDiv
  <2>2. q.a \in Range(<<q.a>>)
    <3>1. 1 \in DOMAIN <<q.a>> /\ <<q.a>>[1] = q.a
      OBVIOUS
    <3> QED  BY <3>1 DEF Range
  <2> QED  BY <2>1, <2>2, RunningBlock DEF RefAt, Runnable, Faithful
<1> QED
  BY <1>1, <1>2 DEF ByNameValue, IsConstant, IsVariable

LEMMA WriteMeans ==
  ASSUME NEW live \in SUBSET Nat, RefAt(live), ExecWrite
  PROVE  RunsAsFormed(live)' /\ Meaning!Output
<1>1. /\ Runnable /\ q.kind = "WRITE" /\ pc' = pc + 1 /\ sp >= 1
      /\ stack' = [stack EXCEPT ![sp - 1] = ra] /\ out' = Append(out, t["t0"])
      /\ UNCHANGED <<phase, resume, sp, s0, ra, mem, bases, genVars>>
  BY DEF ExecWrite, KeepRa, Runs, InCode, Forward, Runnable
<1>2. UNCHANGED <<tacs, vars_set>>
  BY <1>1 DEF genVars
<1>3. FramesKept
  BY <1>1, <1>2, CellBelow DEF RefAt, TypeInv
<1>4. OthersKept
  BY <1>1 DEF OthersKept
<1>5. q.kind \in PlainKinds /\ q.kind \notin Arith \cup {"ASSIGN"}
  BY <1>1 DEF PlainKinds, Kinds, Arith, AddSub, MulDiv, IfKinds
<1>6. /\ RunsAsFormed(live)'
      /\ AbsFrames' = AbsFrames /\ AbsArgs = << >> /\ AbsArgs' = << >>
      /\ AbsActuals = << >> /\ AbsActuals' = << >>
  BY <1>1, <1>2, <1>3, <1>4, <1>5, MovesOn
<1>7. Meaning!Output
  <2>1. NextOne
    BY <1>1, <1>2, <1>6 DEF NextOne
  <2>2. out' = Append(out, Meaning!Val(q.a))
    BY <1>1, WritesOperand, SameQuadruple
  <2> QED  BY <1>1, <1>6, <2>1, <2>2, SameQuadruple, NextAdvances DEF Meaning!Output
<1> QED
  BY <1>6, <1>7

(* A FUNCTION line is the one place from which a PARAM is reached.         *)
LEMMA NothingMeans ==
  ASSUME NEW live \in SUBSET Nat, RefAt(live), ExecNothing
  PROVE  RunsAsFormed(live)' /\ Meaning!Skip
<1>1. /\ Runnable /\ q.kind \in {"LABEL", "FUNCTION", "NONE", "DEC"} /\ pc' = pc + 1
      /\ UNCHANGED <<phase, resume, t, sp, s0, ra, t4, v0, mem, stack, out, bases, genVars>>
  BY DEF ExecNothing, Runs, InCode, Forward, Runnable
<1>2. UNCHANGED <<tacs, vars_set>>
  BY <1>1 DEF genVars
<1>3. FramesKept /\ OthersKept
  BY <1>1, <1>2, SameFrames DEF RefAt, OthersKept
<1>4. /\ pc \in live \cap DOMAIN tacs /\ q = tacs[pc] /\ StaysLive(live) /\ ParamsCounted
      /\ pc \in Nat
  BY <1>1, RunnableFacts
<1>5. s0 = 0 /\ AbsArgs = << >> /\ AbsArgs' = << >>
  <2>1. s0 = 0
    BY <1>1, <1>4 DEF RefAt, TypeInv, StackInv, ArgsPending, StackTypes
  <2> QED  BY <1>1, <2>1, NoArgs DEF AbsArgs
<1>6. RunsAsFormed(live)' /\ AbsFrames' = AbsFrames /\ AbsActuals' = AbsActuals
  <2>1. CASE q.kind # "FUNCTION"
    <3>1. q.kind \in PlainKinds /\ q.kind \notin Arith \cup {"ASSIGN"}
      BY <1>1, <2>1 DEF PlainKinds, Kinds, Arith, AddSub, MulDiv, IfKinds
    <3> QED  BY <1>1, <1>2, <1>3, <3>1, MovesOn
  <2>2. CASE q.kind = "FUNCTION"
    <3> DEFINE n == CallerTop(Len(bases)) - t4
    <3>1. pc' \in live
      BY <1>1, <1>4, <2>2 DEF RefAt, FormedOn, ControlStays, Falls
    <3>2. pc' \in DOMAIN tacs => tacs[pc'].kind \notin {"FUNCTION", "WRITE"}
      BY <1>1, <1>4, <2>2
         DEF RefAt, FormedOn, FunctionsClosed, WritesFollowStores, Falls, Arith, AddSub, MulDiv
    <3>3. /\ AbsFrames' = AbsFrames
          /\ \A i \in DOMAIN bases : ReturnTo(i)' = ReturnTo(i) /\ CallerTop(i)' = CallerTop(i)
      BY <1>1, <1>3, ActivationsKept DEF RefAt
    <3>4. StaysLive(live)'
      BY <1>1, <1>4, <3>1, <3>3 DEF StaysLive, Runnable
    <3>5. ArgsCounted'
      BY <1>1, <1>2, <1>4, <1>5, <2>2 DEF ArgsCounted, ArgsBefore
    <3>6. StoredInT0'
      BY <1>2, <3>2 DEF StoredInT0
    <3>7. bases # << >> => /\ n \in Nat /\ ParamsFrom(tacs, pc', n)
                           /\ CallerTop(Len(bases))' = CallerTop(Len(bases))
      <4>1. bases \in Seq(0 .. StackWords)
        BY DEF RefAt, TypeInv, StackInv, StackTypes
      <4>2. bases # << >> => Len(bases) \in DOMAIN bases
        BY <4>1
      <4> QED  BY <1>1, <1>4, <2>2, <3>3, <4>2 DEF ParamsCounted, FirstParam, Runnable
    <3>8. ParamsCounted'
      <4>1. bases = << >> => t4 = -1
        BY <1>1, <1>4, <2>2 DEF ParamsCounted, Runnable
      <4>2. pc' \in DOMAIN tacs /\ tacs[pc'].kind \in {"FUNCTION", "PARAM"} => FirstParam' = pc'
        BY <1>2, <3>2 DEF FirstParam
      <4> QED  BY <1>1, <1>2, <3>7, <4>1, <4>2 DEF ParamsCounted, ParamsFrom
    <3>9. AbsActuals' = AbsActuals
      <4>1. CASE bases = << >>
        BY <1>1, <4>1 DEF AbsActuals, TakesParams
      <4>2. CASE bases # << >> /\ pc' \in DOMAIN tacs /\ tacs[pc'].kind = "PARAM"
        <5>1. TakesParams /\ TakesParams'
          BY <1>1, <1>2, <1>4, <2>2, <4>2 DEF TakesParams, Runnable
        <5> QED  BY <1>1, <3>7, <4>2, <5>1 DEF AbsActuals
      <4>3. CASE bases # << >> /\ ~(pc' \in DOMAIN tacs /\ tacs[pc'].kind = "PARAM")
        <5>1. n = 0
          <6>1. n > 0 => pc' + 0 \in DOMAIN tacs /\ tacs[pc' + 0].kind = "PARAM"
            BY <3>7, <4>3 DEF ParamsFrom
          <6>2. pc' + 0 = pc'
            BY <1>1, <1>4
          <6> QED  BY <3>7, <4>3, <6>1, <6>2
        <5>2. AbsActuals = << >>
          BY <4>3, <5>1 DEF AbsActuals
        <5>3. AbsActuals' = << >>
          BY <1>1, <1>2, <3>2, <4>3 DEF AbsActuals, TakesParams
        <5> QED  BY <5>2, <5>3
      <4> QED  BY <4>1, <4>2, <4>3
    <3> QED  BY <1>1, <3>3, <3>4, <3>5, <3>6, <3>8, <3>9 DEF RunsAsFormed, Runnable
  <2> QED  BY <2>1, <2>2
<1>7. Meaning!Skip
  <2>1. NextOne
    BY <1>1, <1>2, <1>6 DEF NextOne
  <2> QED  BY <1>1, <1>5, <1>6, <2>1, SameQuadruple, NextAdvances DEF Meaning!Skip
<1> QED
  BY <1>6, <1>7

-------------------------------------------------------------------------------
(* Arguments: the word an ARG pushes is the head of those pending.         *)
LEMMA ArgMeans ==
  ASSUME NEW live \in SUBSET Nat, RefAt(live), ExecArg
  PROVE  RunsAsFormed(live)' /\ Meaning!PassArg
<1>1. /\ Runnable /\ q.kind = "ARG" /\ pc' = pc + 1 /\ sp >= 1 /\ sp' = sp - 1 /\ s0' = s0 + 1
      /\ stack' = [stack EXCEPT ![sp - 1] = ByNameValue(q.a)]
      /\ UNCHANGED <<phase, resume, t, ra, t4, v0, mem, out, bases, genVars>>
  BY DEF ExecArg, ArgCell, Runs, InCode, Forward, Runnable
<1>2. UNCHANGED <<tacs, vars_set>>
  BY <1>1 DEF genVars
<1>3. FramesKept /\ OthersKept
  BY <1>1, <1>2, CellBelow DEF RefAt, TypeInv, OthersKept
<1>4. /\ pc \in live \cap DOMAIN tacs /\ q = tacs[pc] /\ StaysLive(live) /\ ArgsCounted
      /\ pc \in Nat /\ tacs \in Programs
  BY <1>1, RunnableFacts
<1>5. /\ sp \in 0 .. StackWords /\ s0 \in Nat /\ StackWords \in Nat
      /\ DOMAIN stack = 0 .. StackWords - 1 /\ sp + s0 = Top(bases) /\ Top(bases) <= StackWords
  <2>1. bases # << >> => bases[Len(bases)] \in 0 .. StackWords
    <3>1. bases \in Seq(0 .. StackWords)
      BY DEF RefAt, TypeInv, StackInv, StackTypes
    <3>2. bases # << >> => Len(bases) \in DOMAIN bases
      BY <3>1
    <3> QED  BY <3>1, <3>2, MachineAssumption
  <2>2. Top(bases) <= StackWords
    BY <2>1, MachineAssumption DEF Top
  <2> QED  BY <2>2, MachineAssumption DEF RefAt, TypeInv, StackInv, StackTypes, StackShape
<1>6. pc' \in live /\ pc' \in DOMAIN tacs /\ tacs[pc'].kind \in {"ARG", "CALL"}
  <2>1. pc' \in live
    BY <1>1, <1>4 DEF RefAt, FormedOn, ControlStays, Falls
  <2> QED  BY <1>1, <1>4, <2>1, ArgsTogether
<1>7. /\ AbsFrames' = AbsFrames /\ \A i \in DOMAIN bases : ReturnTo(i)' = ReturnTo(i)
  BY <1>1, <1>3, ActivationsKept DEF RefAt
<1>8. StaysLive(live)'
  BY <1>1, <1>4, <1>6, <1>7 DEF StaysLive, Runnable
<1>9. ArgsCounted'
  <2>1. ArgsBefore(tacs, pc, s0)
    BY <1>1, <1>4 DEF ArgsCounted, Runnable
  <2>2. ASSUME NEW k \in 1 .. s0 + 1
        PROVE  pc + 1 - k \in DOMAIN tacs /\ tacs[pc + 1 - k].kind = "ARG"
    <3>1. CASE k = 1
      <4>1. pc + 1 - k = pc
        BY <1>4, <3>1
      <4> QED  BY <1>1, <1>4, <4>1
    <3>2. CASE k # 1
      <4>1. k - 1 \in 1 .. s0 /\ pc + 1 - k = pc - (k - 1)
        BY <1>4, <1>5, <3>2
      <4> QED  BY <2>1, <4>1 DEF ArgsBefore
    <3> QED  BY <3>1, <3>2
  <2>3. pc + 1 - (s0 + 1) - 1 = pc - s0 - 1
    BY <1>4, <1>5
  <2>4. ArgsBefore(tacs, pc + 1, s0 + 1)
    <3>1. pc - s0 - 1 \in DOMAIN tacs => tacs[pc - s0 - 1].kind # "ARG"
      BY <2>1 DEF ArgsBefore
    <3>2. \A k \in 1 .. s0 + 1 : (pc + 1) - k \in DOMAIN tacs /\ tacs[(pc + 1) - k].kind = "ARG"
      BY <1>4, <1>5, <2>2
    <3>3. (pc + 1) - (s0 + 1) - 1 \in DOMAIN tacs => tacs[(pc + 1) - (s0 + 1) - 1].kind # "ARG"
      BY <1>4, <1>5, <2>3, <3>1
    <3> QED  BY <3>2, <3>3, Zenon DEF ArgsBefore
  <2> QED  BY <1>1, <1>2, <2>4 DEF ArgsCounted, ArgsBefore
<1>10. ParamsCounted' /\ StoredInT0'
  BY <1>2, <1>6 DEF ParamsCounted, StoredInT0
<1>11. AbsActuals = << >> /\ AbsActuals' = << >>
  BY <1>1, <1>2, <1>4, <1>6 DEF AbsActuals, TakesParams
<1>12. AbsArgs' = <<ByNameValue(q.a)>> \o AbsArgs
  <2> DEFINE x == ByNameValue(q.a)
  <2>1. x \in Int
    BY <1>1, ByNameTyped DEF RefAt, Runnable
  <2>2. AbsArgs \in Seq(Int) /\ Len(AbsArgs) = s0
    <3>1. \A k \in 1 .. s0 : stack[sp + k - 1] \in Int
      <4> TAKE k \in 1 .. s0
      <4>1. sp + k - 1 \in 0 .. StackWords - 1
        BY <1>5
      <4> QED  BY <4>1 DEF RefAt, TypeInv, MachineTyped
    <3>2. AbsArgs \in [1 .. s0 -> Int]
      BY <3>1 DEF AbsArgs
    <3> QED  BY <1>5, <3>2
  <2>3. AbsArgs' = [k \in 1 .. s0 + 1 |-> stack'[sp - 1 + k - 1]]
    BY <1>1 DEF AbsArgs
  <2>4. <<x>> \in Seq(Int) /\ Len(<<x>>) = 1 /\ <<x>>[1] = x
    BY <2>1
  <2> HIDE DEF x
  <2>5. /\ <<x>> \o AbsArgs \in Seq(Int) /\ Len(<<x>> \o AbsArgs) = s0 + 1
        /\ \A k \in 1 .. s0 + 1 : (<<x>> \o AbsArgs)[k] = IF k = 1 THEN x ELSE AbsArgs[k - 1]
    BY <1>5, <2>2, <2>4
  <2>6. ASSUME NEW k \in 1 .. s0 + 1
        PROVE  stack'[sp - 1 + k - 1] = IF k = 1 THEN x ELSE AbsArgs[k - 1]
    <3>0. sp - 1 + k - 1 \in DOMAIN stack
      BY <1>1, <1>5
    <3>1. CASE k = 1
      <4>1. sp - 1 + k - 1 = sp - 1
        BY <1>5, <3>1
      <4> QED  BY <1>1, <3>0, <3>1, <4>1 DEF x
    <3>2. CASE k # 1
      <4>1. k - 1 \in 1 .. s0 /\ sp - 1 + k - 1 = sp + (k - 1) - 1 /\ sp - 1 + k - 1 # sp - 1
        BY <1>5, <3>2
      <4>2. stack'[sp - 1 + k - 1] = stack[sp - 1 + k - 1]
        BY <1>1, <3>0, <4>1
      <4> QED  BY <3>2, <4>1, <4>2 DEF AbsArgs
    <3> QED  BY <3>1, <3>2
  <2>7. <<x>> \o AbsArgs = [k \in 1 .. s0 + 1 |-> (<<x>> \o AbsArgs)[k]]
    BY SMTT(60), <1>5, <2>5
  <2>8. AbsArgs' = <<x>> \o AbsArgs
    BY <2>3, <2>5, <2>6, <2>7
  <2> QED  BY <2>8 DEF x
<1>13. RunsAsFormed(live)'
  BY <1>1, <1>8, <1>9, <1>10 DEF RunsAsFormed, Runnable
<1>14. Meaning!PassArg
  <2>1. NextOne
    BY <1>1, <1>2, <1>7 DEF NextOne
  <2> QED  BY <1>1, <1>11, <1>12, <2>1, SameQuadruple, NextAdvances DEF Meaning!PassArg
<1> QED
  BY <1>13, <1>14

(* A RETURN goes to the suspended CALL, which the last frame returns into. *)
LEMMA ReturnMeans ==
  ASSUME NEW live \in SUBSET Nat, RefAt(live), ExecReturn
  PROVE  RunsAsFormed(live)' /\ Meaning!GiveBack
<1>1. /\ Runnable /\ q.kind = "RETURN" /\ v0' = ByNameValue(q.a)
      /\ IF ra = 0 THEN phase' = "halted" /\ UNCHANGED <<pc, resume>>
                   ELSE pc' = ra /\ resume' = TRUE /\ UNCHANGED phase
      /\ UNCHANGED <<t, sp, s0, ra, t4, mem, stack, out, bases, genVars>>
  BY DEF ExecReturn, Runs, InCode, Runnable
<1>2. UNCHANGED <<tacs, vars_set>>
  BY <1>1 DEF genVars
<1>3. FramesKept /\ OthersKept
  BY <1>1, <1>2, SameFrames DEF RefAt, OthersKept
<1>4. pc \in live \cap DOMAIN tacs /\ q = tacs[pc] /\ StaysLive(live)
  BY <1>1, RunnableFacts
<1>5. s0 = 0 /\ AbsArgs = << >> /\ AbsArgs' = << >>
  <2>1. s0 = 0
    BY <1>1, <1>4 DEF RefAt, TypeInv, StackInv, ArgsPending, StackTypes
  <2> QED  BY <1>1, <2>1, NoArgs DEF AbsArgs
<1>6. AbsFrames' = AbsFrames /\ \A i \in DOMAIN bases : ReturnTo(i)' = ReturnTo(i)
  BY <1>1, <1>3, ActivationsKept DEF RefAt
<1>7. bases \in Seq(0 .. StackWords)
  BY DEF RefAt, TypeInv, StackInv, StackTypes
<1>8. \/ ra = 0 /\ bases = << >>
      \/ IsCall(ra) /\ ra # 0 /\ bases # << >>
  <2>1. tacs \in Seq(Instr)
    BY <1>1, RunnableFacts
  <2>2. IsCall(ra) => ra # 0
    BY <2>1 DEF IsCall
  <2> QED  BY <2>2 DEF RefAt, TypeInv, StackInv, ReturnsToCall
<1>a. CASE ra = 0
  <2>1. bases = << >> /\ AbsFrames = << >>
    BY <1>8, <1>a DEF AbsFrames
  <2>2. RunsAsFormed(live)'
    BY <1>1, <1>a DEF RunsAsFormed
  <2>3. AbsActuals = << >> /\ AbsActuals' = << >>
    BY <1>1, <2>1 DEF AbsActuals, TakesParams
  <2>4. Meaning!GiveBack
    BY <1>1, <1>2, <1>5, <1>6, <1>a, <2>1, <2>3, SameQuadruple DEF Meaning!GiveBack, Runnable
  <2> QED  BY <2>2, <2>4
<1>b. CASE ra # 0
  <2> DEFINE n == Len(bases)
  <2>1. IsCall(ra) /\ bases # << >> /\ n \in DOMAIN bases /\ n > 0 /\ DOMAIN bases = 1 .. n
    BY <1>7, <1>8, <1>b
  <2>2. ReturnTo(n) = ra
    BY DEF ReturnTo
  <2>3. StaysLive(live)'
    BY <1>1, <1>2, <1>4, <1>6, <1>b, <2>1, <2>2 DEF StaysLive, IsCall
  <2>4. RunsAsFormed(live)'
    BY <1>1, <1>b, <2>3 DEF RunsAsFormed, Runnable, ArgsCounted, ParamsCounted, StoredInT0
  <2>5. AbsActuals = << >> /\ AbsActuals' = << >>
    <3>1. ~TakesParams
      BY <1>1, <1>4 DEF TakesParams
    <3>2. ~TakesParams'
      BY <1>1, <1>2, <1>b, <2>1 DEF TakesParams, IsCall
    <3> QED  BY <3>1, <3>2 DEF AbsActuals
  <2>6. AbsFrames # << >> /\ Len(AbsFrames) = n /\ AbsFrames[n].at = ra
    <3>1. DOMAIN AbsFrames = 1 .. n /\ n \in Nat
      BY <1>7, <2>1 DEF AbsFrames
    <3>2. AbsFrames \in Seq({AbsFrames[i] : i \in 1 .. n}) /\ Len(AbsFrames) = n
      BY <3>1 DEF AbsFrames
    <3>3. AbsFrames # << >>
      BY <2>1, <3>2
    <3>4. AbsFrames[n].at = ra
      BY <2>1, <2>2 DEF AbsFrames
    <3> QED  BY <3>2, <3>3, <3>4
  <2>7. Meaning!GiveBack
    BY <1>1, <1>2, <1>5, <1>6, <1>b, <2>5, <2>6, SameQuadruple DEF Meaning!GiveBack, Runnable
  <2> QED  BY <2>4, <2>7
<1> QED
  BY <1>a, <1>b

LEMMA TailOf ==
  ASSUME NEW s \in Seq(Int), s # << >>
  PROVE  Tail(s) = [k \in 1 .. Len(s) - 1 |-> s[k + 1]]
<1> DEFINE r == Tail(s)
<1>1. r \in Seq(Int) /\ Len(r) = Len(s) - 1 /\ \A k \in 1 .. Len(r) : r[k] = s[k + 1]
  BY HeadTailProperties
<1> HIDE DEF r
<1>2. r = [k \in 1 .. Len(r) |-> r[k]]
  BY <1>1
<1>3. r = [k \in 1 .. Len(s) - 1 |-> s[k + 1]]
  BY <1>1, <1>2
<1> QED
  BY <1>3 DEF r

(* A PARAM takes the first of the words that are left to read.             *)
LEMMA ParamMeans ==
  ASSUME NEW live \in SUBSET Nat, RefAt(live), ExecParam
  PROVE  RunsAsFormed(live)' /\ Meaning!TakeParam
<1> DEFINE n == CallerTop(Len(bases)) - t4
<1>1. /\ Runnable /\ q.kind = "PARAM" /\ pc' = pc + 1 /\ t4 \in DOMAIN stack /\ t4' = t4 + 1
      /\ mem' = [mem EXCEPT ![q.dst.char_val] = stack[t4]]
      /\ UNCHANGED <<phase, resume, t, sp, s0, ra, v0, stack, out, bases, genVars>>
  BY DEF ExecParam, Runs, InCode, Forward, Runnable
<1>2. UNCHANGED <<tacs, vars_set>>
  BY <1>1 DEF genVars
<1>3. q.dst.char_val \in vars_set
  BY <1>1, StoresWord DEF RefAt, Runnable
<1>4. FramesKept /\ OthersKept
  BY <1>1, <1>2, <1>3, SameFrames, SameOthers DEF RefAt
<1>5. /\ pc \in live \cap DOMAIN tacs /\ q = tacs[pc] /\ StaysLive(live) /\ ParamsCounted
      /\ pc \in Nat
  BY <1>1, RunnableFacts
<1>6. s0 = 0 /\ AbsArgs = << >> /\ AbsArgs' = << >>
  <2>1. s0 = 0
    BY <1>1, <1>5 DEF RefAt, TypeInv, StackInv, ArgsPending, StackTypes
  <2> QED  BY <1>1, <2>1, NoArgs DEF AbsArgs
<1>7. t4 \in Nat /\ StackWords \in Nat /\ DOMAIN stack = 0 .. StackWords - 1
  <2>1. StackWords \in Nat /\ DOMAIN stack = 0 .. StackWords - 1
    BY MachineAssumption DEF RefAt, TypeInv, StackInv, StackTypes
  <2> QED  BY <1>1, <2>1
<1>8. bases # << >> /\ n \in Nat /\ ParamsFrom(tacs, pc, n)
  <2>1. IF bases = << >> THEN t4 = -1 ELSE n \in Nat /\ ParamsFrom(tacs, FirstParam, n)
    BY <1>1, <1>5 DEF ParamsCounted, Runnable
  <2>2. FirstParam = pc
    BY <1>1, <1>5 DEF FirstParam
  <2> QED  BY <1>7, <2>1, <2>2
<1>9. n > 0
  <2>1. n = 0 => pc + n = pc
    BY <1>5
  <2>2. pc + n \in DOMAIN tacs => tacs[pc + n].kind # "PARAM"
    BY <1>8 DEF ParamsFrom
  <2> QED  BY <1>1, <1>5, <1>8, <2>1, <2>2
<1>10. ParamsFrom(tacs, pc + 1, n - 1)
  <2>1. ASSUME NEW k \in 0 .. n - 1 - 1
        PROVE  (pc + 1) + k \in DOMAIN tacs /\ tacs[(pc + 1) + k].kind = "PARAM"
    <3>1. k + 1 \in 0 .. n - 1 /\ (pc + 1) + k = pc + (k + 1)
      BY <1>5, <1>8, <1>9
    <3>2. pc + (k + 1) \in DOMAIN tacs /\ tacs[pc + (k + 1)].kind = "PARAM"
      BY <1>8, <3>1 DEF ParamsFrom
    <3> QED  BY <3>1, <3>2
  <2>2. (pc + 1) + (n - 1) = pc + n
    BY <1>5, <1>8
  <2>3. pc + n \in DOMAIN tacs => tacs[pc + n].kind # "PARAM"
    BY <1>8 DEF ParamsFrom
  <2> HIDE DEF n
  <2> QED  BY <2>1, <2>2, <2>3 DEF ParamsFrom
<1>11. /\ AbsFrames' = AbsFrames
       /\ \A i \in DOMAIN bases : ReturnTo(i)' = ReturnTo(i) /\ CallerTop(i)' = CallerTop(i)
  BY <1>1, <1>4, ActivationsKept DEF RefAt
<1>12. CallerTop(Len(bases))' = CallerTop(Len(bases)) /\ CallerTop(Len(bases)) \in 0 .. StackWords
  <2>1. bases \in Seq(0 .. StackWords)
    BY DEF RefAt, TypeInv, StackInv, StackTypes
  <2>2. Len(bases) \in DOMAIN bases
    BY <1>8, <2>1
  <2> QED  BY <1>1, <1>11, <2>2, FrameWords DEF RefAt
<1>13. CallerTop(Len(bases))' - t4' = n - 1 /\ n - 1 \in Nat
  BY <1>1, <1>7, <1>8, <1>9, <1>12
<1>14. pc' \in live
  BY <1>1, <1>5 DEF RefAt, FormedOn, ControlStays, Falls
<1>15. pc' \in DOMAIN tacs => tacs[pc'].kind \notin {"FUNCTION", "WRITE"}
  BY <1>1, <1>5
     DEF RefAt, FormedOn, FunctionsClosed, WritesFollowStores, Falls, Arith, AddSub, MulDiv
<1>16. RunsAsFormed(live)'
  <2>1. StaysLive(live)'
    BY <1>1, <1>5, <1>11, <1>14 DEF StaysLive, Runnable
  <2>2. ArgsCounted'
    BY <1>1, <1>2, <1>5, <1>6 DEF ArgsCounted, ArgsBefore
  <2>3. StoredInT0'
    BY <1>2, <1>15 DEF StoredInT0
  <2>4. ParamsCounted'
    <3>1. pc' \in DOMAIN tacs /\ tacs[pc'].kind \in {"FUNCTION", "PARAM"} => FirstParam' = pc + 1
      BY <1>1, <1>2, <1>15 DEF FirstParam
    <3>2. ParamsFrom(tacs', pc + 1, n - 1)
      BY <1>2, <1>10
    <3> HIDE DEF n
    <3> QED  BY <1>1, <1>2, <1>8, <1>13, <3>1, <3>2 DEF ParamsCounted
  <2> QED  BY <1>1, <2>1, <2>2, <2>3, <2>4 DEF RunsAsFormed, Runnable
<1>17. /\ AbsActuals # << >> /\ Head(AbsActuals) = stack[t4]
       /\ Tail(AbsActuals) = [k \in 1 .. n - 1 |-> stack[t4 + k]]
  <2>1. AbsActuals = [k \in 1 .. n |-> stack[t4 + k - 1]]
    BY <1>1, <1>5, <1>8 DEF AbsActuals, TakesParams, Runnable
  <2>2. ASSUME NEW k \in 1 .. n
        PROVE  stack[t4 + k - 1] \in Int
    <3>1. t4 + k - 1 \in 0 .. StackWords - 1
      BY <1>7, <1>8, <1>12
    <3> QED  BY <3>1 DEF RefAt, TypeInv, MachineTyped
  <2>3. AbsActuals \in Seq(Int) /\ Len(AbsActuals) = n
    <3> HIDE DEF n
    <3>1. AbsActuals \in [1 .. n -> Int]
      BY <2>1, <2>2
    <3> QED  BY <1>8, <3>1
  <2>4. AbsActuals # << >>
    BY <1>9, <2>3
  <2>5. Head(AbsActuals) = stack[t4]
    <3>1. 1 \in 1 .. n /\ t4 + 1 - 1 = t4
      BY <1>7, <1>8, <1>9
    <3>2. Head(AbsActuals) = AbsActuals[1]
      BY <2>3, <2>4
    <3> HIDE DEF n
    <3> QED  BY <2>1, <3>1, <3>2
  <2>6. Tail(AbsActuals) = [k \in 1 .. n - 1 |-> stack[t4 + k]]
    <3>1. Tail(AbsActuals) = [k \in 1 .. n - 1 |-> AbsActuals[k + 1]]
      BY <2>3, <2>4, TailOf
    <3>2. ASSUME NEW k \in 1 .. n - 1
          PROVE  AbsActuals[k + 1] = stack[t4 + k]
      <4>1. k + 1 \in 1 .. n /\ t4 + (k + 1) - 1 = t4 + k
        BY <1>7, <1>8, <1>9
      <4> HIDE DEF n
      <4> QED  BY <2>1, <4>1
    <3> QED  BY <3>1, <3>2
  <2> QED  BY <2>4, <2>5, <2>6
<1>18. AbsActuals' = Tail(AbsActuals)
  <2>1. CASE pc' \in DOMAIN tacs /\ tacs[pc'].kind = "PARAM"
    <3>1. TakesParams'
      BY <1>1, <1>2, <1>8, <2>1 DEF TakesParams, Runnable
    <3>2. AbsActuals' = [k \in 1 .. n - 1 |-> stack[(t4 + 1) + k - 1]]
      <4> HIDE DEF n
      <4> QED  BY <1>1, <1>13, <3>1 DEF AbsActuals
    <3>3. \A k \in 1 .. n - 1 : (t4 + 1) + k - 1 = t4 + k
      BY <1>7
    <3> HIDE DEF n
    <3> QED  BY <1>17, <3>2, <3>3
  <2>2. CASE ~(pc' \in DOMAIN tacs /\ tacs[pc'].kind = "PARAM")
    <3>1. n - 1 = 0
      <4>1. n - 1 > 0 => (pc + 1) + 0 \in DOMAIN tacs /\ tacs[(pc + 1) + 0].kind = "PARAM"
        <5>1. n - 1 > 0 => 0 \in 0 .. n - 1 - 1
          BY <1>13
        <5> HIDE DEF n
        <5> QED  BY <1>10, <5>1 DEF ParamsFrom
      <4>2. (pc + 1) + 0 = pc'
        BY <1>1, <1>5
      <4>3. ~(n - 1 > 0)
        <5> HIDE DEF n
        <5> QED  BY <2>2, <4>1, <4>2
      <4>4. \A m \in Nat : ~(m > 0) => m = 0
        OBVIOUS
      <4> HIDE DEF n
      <4> QED  BY <1>13, <4>3, <4>4
    <3>2. AbsActuals' = << >>
      BY <1>2, <1>15, <2>2 DEF AbsActuals, TakesParams
    <3>3. Tail(AbsActuals) = << >>
      BY <1>17, <3>1
    <3> QED  BY <3>2, <3>3
  <2> QED  BY <2>1, <2>2
<1>19. Meaning!TakeParam
  <2>1. NextOne
    BY <1>1, <1>2, <1>11 DEF NextOne
  <2> QED  BY <1>1, <1>6, <1>17, <1>18, <2>1, SameQuadruple, NextAdvances
              DEF Meaning!TakeParam, Meaning!Assigned
<1> QED
  BY <1>16, <1>19

-------------------------------------------------------------------------------
(* Calls: the frame is the caller's activation, word for word.             *)
LEMMA FramePushed ==
  ASSUME TypeInv, ExecCall
  PROVE  /\ stack'[sp - 1] = s0 /\ stack'[sp - 2] = ra
         /\ \A v \in vars_set : stack'[FrameBase + Slot(v)] = mem[v]
         /\ \A a \in DOMAIN stack : a >= sp => stack'[a] = stack[a]
<1>1. stack' = Pushed(FrameBase) /\ FrameBase = sp - 2 - NumVars /\ FrameBase >= 0
  BY DEF ExecCall, FrameBase
<1>2. sp \in 0 .. StackWords /\ StackWords \in Nat /\ DOMAIN stack = 0 .. StackWords - 1
  BY MachineAssumption DEF TypeInv, StackInv, StackTypes
<1>3. /\ vars_set \subseteq Vars /\ NumVars \in Nat
      /\ \A v \in vars_set : Slot(v) \in 0 .. NumVars - 1
      /\ \A u, v \in vars_set : Slot(u) = Slot(v) => u = v
  BY SlotsFilled DEF TypeInv, NamesOnly
<1>4. sp - 1 \in DOMAIN stack /\ sp - 2 \in DOMAIN stack
  BY <1>1, <1>2, <1>3
<1>5. ASSUME NEW a \in DOMAIN stack
      PROVE  /\ a = sp - 1 => stack'[a] = s0
             /\ a = sp - 2 => stack'[a] = ra
             /\ a >= sp => stack'[a] = stack[a]
             /\ a >= FrameBase /\ a < sp - 2 =>
                   stack'[a] = mem[CHOOSE v \in vars_set : Slot(v) = a - FrameBase]
  <2>1. /\ sp - 2 # sp - 1 /\ ~(sp - 1 < sp - 2) /\ ~(sp - 2 < sp - 2)
        /\ a >= sp => a # sp - 1 /\ a # sp - 2 /\ ~(a < sp - 2)
        /\ a < sp - 2 => a # sp - 1 /\ a # sp - 2
    BY <1>2
  <2> QED  BY <1>1, <2>1 DEF Pushed
<1>6. ASSUME NEW v \in vars_set
      PROVE  stack'[FrameBase + Slot(v)] = mem[v]
  <2> DEFINE a == FrameBase + Slot(v)
  <2>1. Slot(v) \in 0 .. NumVars - 1
    BY <1>3
  <2>2. a \in DOMAIN stack /\ a >= FrameBase /\ a < sp - 2 /\ a - FrameBase = Slot(v)
    BY <1>1, <1>2, <1>3, <2>1
  <2>3. (CHOOSE u \in vars_set : Slot(u) = Slot(v)) = v
    BY <1>3
  <2> HIDE DEF a
  <2>4. stack'[a] = mem[CHOOSE u \in vars_set : Slot(u) = Slot(v)]
    BY <1>5, <2>2
  <2>5. stack'[a] = mem[v]
    BY <2>3, <2>4
  <2> QED  BY <2>5 DEF a
<1> QED
  BY <1>4, <1>5, <1>6

LEMMA AppendAs ==
  ASSUME NEW S, NEW s \in Seq(S), NEW e \in S
  PROVE  Append(s, e) = [i \in 1 .. Len(s) + 1 |-> IF i = Len(s) + 1 THEN e ELSE s[i]]
<1> DEFINE r == Append(s, e)
<1>1. /\ r \in Seq(S) /\ Len(r) = Len(s) + 1
      /\ \A k \in 1 .. Len(s) : r[k] = s[k]
      /\ r[Len(s) + 1] = e
  BY AppendProperties
<1>2. Len(s) \in Nat
  OBVIOUS
<1> HIDE DEF r
<1>3. r = [i \in 1 .. Len(r) |-> r[i]]
  BY <1>1
<1>4. \A i \in 1 .. Len(s) + 1 : r[i] = IF i = Len(s) + 1 THEN e ELSE s[i]
  BY <1>1, <1>2
<1>5. r = [i \in 1 .. Len(s) + 1 |-> IF i = Len(s) + 1 THEN e ELSE s[i]]
  BY <1>1, <1>3, <1>4
<1> QED
  BY <1>5 DEF r

LEMMA CallSuspends ==
  ASSUME TypeInv, ExecCall
  PROVE  /\ AbsFrames' = Append(AbsFrames, [at |-> pc, env |-> mem])
         /\ bases' # << >> /\ Len(bases') = Len(bases) + 1
         /\ DOMAIN bases' = DOMAIN bases \cup {Len(bases) + 1}
         /\ \A i : i = Len(bases) + 1 => ReturnTo(i)' = pc /\ CallerTop(i)' = sp + s0
         /\ \A i \in DOMAIN bases : ReturnTo(i)' = ReturnTo(i)
<1> DEFINE n == Len(bases)
           e == [at |-> pc, env |-> mem]
<1>1. /\ FrameBase = sp - 2 - NumVars /\ FrameBase >= 0 /\ bases' = Append(bases, FrameBase)
      /\ ra' = pc /\ UNCHANGED <<tacs, vars_set, mem>>
  BY DEF ExecCall, FrameBase, genVars
<1>2. /\ sp \in 0 .. StackWords /\ s0 \in Nat /\ StackWords \in Nat
      /\ bases \in Seq(0 .. StackWords) /\ sp + s0 = Top(bases)
      /\ DOMAIN stack = 0 .. StackWords - 1
  BY MachineAssumption DEF TypeInv, StackInv, StackTypes, StackShape
<1>3. /\ vars_set \subseteq Vars /\ NumVars \in Nat
      /\ \A v \in vars_set : Slot(v) \in 0 .. NumVars - 1
  BY SlotsFilled DEF TypeInv, NamesOnly
<1>4. /\ NumVars' = NumVars /\ \A v : Slot(v)' = Slot(v)
      /\ FrameBase \in 0 .. StackWords
  BY <1>1, <1>2, <1>3 DEF NumVars, Slot
<1>5. /\ Len(bases') = n + 1 /\ bases'[n + 1] = FrameBase /\ bases' # << >>
      /\ DOMAIN bases' = 1 .. n + 1 /\ \A i \in DOMAIN bases : bases'[i] = bases[i]
      /\ DOMAIN bases = 1 .. n /\ n \in Nat
  BY <1>1, <1>2, <1>4
<1>6. ASSUME NEW i \in DOMAIN bases, NEW k \in 0 .. NumVars + 1
      PROVE  stack'[bases[i] + k] = stack[bases[i] + k]
  <2>1. bases[i] + k \in DOMAIN stack /\ bases[i] + k >= Top(bases)
    BY FrameWords
  <2>2. bases[i] + k >= sp
    BY <1>2, <2>1
  <2> QED  BY <2>1, <2>2, FramePushed
<1>7. ASSUME NEW i \in DOMAIN bases
      PROVE  SavedEnv(i)' = SavedEnv(i) /\ SavedRaOf(i)' = SavedRaOf(i)
  <2>1. \A v \in vars_set : Slot(v) \in 0 .. NumVars + 1
    BY <1>3
  <2>2. SavedEnv(i)' = SavedEnv(i)
    <3>1. \A v \in vars_set : stack'[bases[i] + Slot(v)] = stack[bases[i] + Slot(v)]
      BY <1>6, <2>1
    <3> QED  BY <1>1, <1>4, <1>5, <3>1 DEF SavedEnv
  <2>3. NumVars \in 0 .. NumVars + 1
    BY <1>3
  <2> QED  BY <1>4, <1>5, <1>6, <2>2, <2>3 DEF SavedRaOf
<1>8. ASSUME NEW i, i = n + 1
      PROVE  /\ SavedEnv(i)' = mem /\ SavedRaOf(i)' = ra /\ CallerTop(i)' = sp + s0
             /\ ReturnTo(i)' = pc
  <2>0. bases'[i] = FrameBase /\ i = Len(bases')
    BY <1>5, <1>8
  <2>1. SavedEnv(i)' = mem
    <3>1. ASSUME NEW v \in Vars
          PROVE  (IF v \in vars_set THEN stack'[FrameBase + Slot(v)] ELSE mem[v]) = mem[v]
      BY FramePushed
    <3>2. SavedEnv(i)' = [v \in Vars |-> IF v \in vars_set THEN stack'[FrameBase + Slot(v)]
                                         ELSE mem[v]]
      BY <1>1, <1>4, <2>0 DEF SavedEnv
    <3>3. mem = [v \in Vars |-> mem[v]]
      BY DEF TypeInv, MachineTyped
    <3> QED  BY <3>1, <3>2, <3>3
  <2>2. SavedRaOf(i)' = ra /\ SavedS0Of(i)' = s0
    <3>1. FrameBase + NumVars = sp - 2 /\ FrameBase + NumVars + 1 = sp - 1
      BY <1>1, <1>2, <1>3
    <3> QED  BY <1>4, <2>0, <3>1, FramePushed DEF SavedRaOf, SavedS0Of
  <2>3. CallerTop(i)' = sp + s0
    <3>1. CallerTop(i)' = FrameBase + NumVars + 2 + s0
      BY <1>4, <2>0, <2>2 DEF CallerTop
    <3> QED  BY <1>1, <1>2, <1>3, <3>1
  <2>4. ReturnTo(i)' = pc
    BY <1>1, <2>0 DEF ReturnTo
  <2> QED  BY <2>1, <2>2, <2>3, <2>4
<1>12. ASSUME NEW i \in DOMAIN bases
       PROVE  ReturnTo(i)' = ReturnTo(i)
  <2>1. ReturnTo(i)' = SavedRaOf(i + 1)'
    BY <1>5 DEF ReturnTo
  <2>2. CASE i = n
    <3>1. SavedRaOf(i + 1)' = ra
      BY <1>8, <2>2
    <3> QED  BY <2>1, <2>2, <3>1 DEF ReturnTo
  <2>3. CASE i # n
    <3>1. i + 1 \in DOMAIN bases
      BY <1>5, <2>3
    <3> QED  BY <1>7, <2>1, <2>3, <3>1 DEF ReturnTo
  <2> QED  BY <2>2, <2>3
<1>13. AbsFrames' = Append(AbsFrames, e)
  <2> DEFINE S == {AbsFrames[i] : i \in 1 .. n} \cup {e}
  <2>1. AbsFrames \in [1 .. n -> S]
    BY <1>5 DEF AbsFrames
  <2>2. AbsFrames \in Seq(S) /\ Len(AbsFrames) = n
    BY <1>5, <2>1
  <2>3. e \in S
    OBVIOUS
  <2>4. AbsFrames' = [i \in 1 .. n + 1 |-> [at |-> ReturnTo(i)', env |-> SavedEnv(i)']]
    BY <1>5 DEF AbsFrames
  <2>5. \A i \in 1 .. n + 1 : [at |-> ReturnTo(i)', env |-> SavedEnv(i)']
                                = IF i = n + 1 THEN e ELSE AbsFrames[i]
    BY <1>5, <1>7, <1>8, <1>12 DEF AbsFrames
  <2> HIDE DEF n, S, e
  <2>6. Append(AbsFrames, e) = [i \in 1 .. n + 1 |-> IF i = n + 1 THEN e ELSE AbsFrames[i]]
    BY <2>2, <2>3, AppendAs
  <2> QED  BY <2>4, <2>5, <2>6
<1> QED
  BY <1>5, <1>8, <1>12, <1>13

(* How many ARGs stand right before a quadruple, there is no doubt about.  *)
LEMMA ArgsBeforeOnce ==
  ASSUME NEW p, NEW i \in Nat, NEW m \in Nat, NEW n \in Nat,
         ArgsBefore(p, i, m), ArgsBefore(p, i, n)
  PROVE  m = n
<1>1. ASSUME NEW j \in Nat, NEW k \in Nat, ArgsBefore(p, i, j), ArgsBefore(p, i, k)
      PROVE  ~(j < k)
  <2>1. j < k => j + 1 \in 1 .. k /\ i - (j + 1) = i - j - 1
    OBVIOUS
  <2> QED  BY <1>1, <2>1 DEF ArgsBefore
<1> QED
  BY <1>1

LEMMA CallMeans ==
  ASSUME NEW live \in SUBSET Nat, RefAt(live), ExecCall
  PROVE  RunsAsFormed(live)' /\ Meaning!Invoke
<1> DEFINE f == FuncAt(tacs, q.funcname)
<1>1. /\ Runnable /\ q.kind = "CALL" /\ pc' = f /\ t4' = sp /\ s0' = 0
      /\ UNCHANGED <<phase, resume, t, v0, mem, out, genVars>>
  BY DEF ExecCall, ClearedS0, Runs, InCode, Runnable
<1>2. UNCHANGED <<tacs, vars_set>>
  BY <1>1 DEF genVars
<1>3. /\ pc \in live \cap DOMAIN tacs /\ q = tacs[pc] /\ StaysLive(live) /\ ArgsCounted
      /\ pc \in Nat /\ tacs \in Programs
  BY <1>1, RunnableFacts
<1>4. f \in live /\ f \in DOMAIN tacs /\ tacs[f].kind = "FUNCTION"
  <2>1. f \in live
    BY <1>1, <1>3 DEF RefAt, FormedOn, ControlStays
  <2> QED  BY <1>1, <1>3, <2>1, TargetsResolved DEF RefAt, Runnable, TypeInv, Linked
<1>5. /\ sp \in 0 .. StackWords /\ s0 \in Nat /\ StackWords \in Nat
      /\ bases \in Seq(0 .. StackWords) /\ sp + s0 = Top(bases)
      /\ DOMAIN stack = 0 .. StackWords - 1
  BY MachineAssumption DEF RefAt, TypeInv, StackInv, StackTypes, StackShape
<1>6. ParamsFrom(tacs, f + 1, s0)
  <2>1. PICK m \in 0 .. pc : ArgsBefore(tacs, pc, m) /\ ParamsFrom(tacs, f + 1, m)
    BY <1>1, <1>3 DEF RefAt, FormedOn, CallsFit
  <2>2. ArgsBefore(tacs, pc, s0)
    BY <1>1, <1>3 DEF ArgsCounted, Runnable
  <2>3. m = s0
    BY <1>3, <1>5, <2>1, <2>2, ArgsBeforeOnce
  <2> QED  BY <2>1, <2>3
<1>7. /\ AbsFrames' = Append(AbsFrames, [at |-> pc, env |-> mem])
      /\ bases' # << >> /\ Len(bases') = Len(bases) + 1
      /\ DOMAIN bases' = DOMAIN bases \cup {Len(bases) + 1}
      /\ \A i : i = Len(bases) + 1 => ReturnTo(i)' = pc /\ CallerTop(i)' = sp + s0
      /\ \A i \in DOMAIN bases : ReturnTo(i)' = ReturnTo(i)
  BY CallSuspends DEF RefAt
<1>8. CallerTop(Len(bases))' - t4' = s0
  <2>1. CallerTop(Len(bases))' = sp + s0
    BY <1>7
  <2> QED  BY <1>1, <1>5, <2>1
<1>9. RunsAsFormed(live)'
  <2>1. StaysLive(live)'
    BY <1>1, <1>3, <1>4, <1>7 DEF StaysLive, Runnable
  <2>2. ArgsCounted'
    <3>1. ArgsBefore(tacs, f, 0)
      BY <1>3, <1>4, NotBehindArg
    <3> QED  BY <1>1, <1>2, <3>1 DEF ArgsCounted
  <2>3. ParamsCounted'
    <3>1. FirstParam' = f + 1
      BY <1>1, <1>2, <1>4 DEF FirstParam
    <3> QED  BY <1>2, <1>5, <1>6, <1>7, <1>8, <3>1 DEF ParamsCounted
  <2>4. StoredInT0'
    BY <1>1, <1>2, <1>4 DEF StoredInT0
  <2> QED  BY <1>1, <2>1, <2>2, <2>3, <2>4 DEF RunsAsFormed, Runnable
<1>10. AbsActuals' = AbsArgs /\ AbsArgs' = << >>
  <2>1. TakesParams'
    BY <1>1, <1>2, <1>4, <1>7 DEF TakesParams, Runnable
  <2>2. AbsActuals' = [k \in 1 .. s0 |-> stack'[sp + k - 1]]
    BY <1>1, <1>8, <2>1 DEF AbsActuals
  <2>3. ASSUME NEW k \in 1 .. s0
        PROVE  stack'[sp + k - 1] = stack[sp + k - 1]
    <3>1. Top(bases) <= StackWords
      <4>1. bases # << >> => bases[Len(bases)] \in 0 .. StackWords
        BY <1>5
      <4> QED  BY <1>5, <4>1 DEF Top
    <3>2. sp + k - 1 \in DOMAIN stack /\ sp + k - 1 >= sp
      BY <1>5, <3>1
    <3> QED  BY <3>2, FramePushed DEF RefAt
  <2> QED  BY <1>1, <2>2, <2>3 DEF AbsArgs
<1>11. Meaning!Invoke
  BY <1>1, <1>2, <1>7, <1>10, SameQuadruple, SameVocabulary DEF Meaning!Invoke, Runnable
<1> QED
  BY <1>9, <1>11

-------------------------------------------------------------------------------
(* Behind the jal: the last frame is the activation that goes on.          *)
LEMMA FrontOf ==
  ASSUME NEW S, NEW s \in Seq(S), Len(s) > 0
  PROVE  SubSeq(s, 1, Len(s) - 1) = [i \in 1 .. Len(s) - 1 |-> s[i]]
<1> DEFINE r == SubSeq(s, 1, Len(s) - 1)
<1>1. /\ r \in Seq(S) /\ Len(r) = Len(s) - 1
      /\ \A k \in 1 .. Len(s) - 1 : r[k] = s[k]
  <2>1. Len(s) \in Nat /\ Len(s) - 1 \in Int /\ \A i \in 1 .. Len(s) - 1 : s[i] \in S
    OBVIOUS
  <2>2. /\ r \in Seq(S) /\ Len(r) = IF 1 <= Len(s) - 1 THEN (Len(s) - 1) - 1 + 1 ELSE 0
        /\ \A k \in 1 .. (Len(s) - 1) - 1 + 1 : r[k] = s[1 + k - 1]
    BY <2>1, SubSeqProperties
  <2> HIDE DEF r
  <2>3. Len(r) = Len(s) - 1
    <3>1. \A m \in Nat : m > 0 => (IF 1 <= m - 1 THEN (m - 1) - 1 + 1 ELSE 0) = m - 1
      OBVIOUS
    <3> QED  BY <2>1, <2>2, <3>1, Zenon
  <2>4. \A k \in 1 .. Len(s) - 1 : r[k] = s[k]
    <3> TAKE k \in 1 .. Len(s) - 1
    <3>1. k \in 1 .. (Len(s) - 1) - 1 + 1 /\ 1 + k - 1 = k
      BY <2>1
    <3> QED  BY <2>2, <3>1
  <2> QED  BY <2>2, <2>3, <2>4
<1> HIDE DEF r
<1>2. r = [i \in 1 .. Len(r) |-> r[i]]
  BY <1>1
<1>3. r = [i \in 1 .. Len(s) - 1 |-> s[i]]
  BY <1>1, <1>2
<1> QED
  BY <1>3 DEF r

LEMMA LastFramePopped ==
  ASSUME TypeInv, ExecResume, q.dst.char_val \in vars_set
  PROVE  /\ Len(AbsFrames) = Len(bases) /\ Len(bases) \in DOMAIN bases
         /\ mem' = [AbsFrames[Len(bases)].env EXCEPT ![q.dst.char_val] = v0]
         /\ AbsFrames' = SubSeq(AbsFrames, 1, Len(bases) - 1)
         /\ \A i \in DOMAIN bases' : i \in DOMAIN bases /\ ReturnTo(i)' = ReturnTo(i)
<1> DEFINE n == Len(bases)
<1>1. /\ bases' = SubSeq(bases, 1, n - 1) /\ ra' = SavedRa /\ resume
      /\ mem' = [Popped EXCEPT ![q.dst.char_val] = v0]
      /\ UNCHANGED <<stack, vars_set>>
  BY DEF ExecResume, genVars
<1>2. /\ bases \in Seq(0 .. StackWords) /\ DOMAIN bases = 1 .. n /\ n \in Nat
      /\ s0 = 0 /\ bases # << >> /\ sp + s0 = Top(bases) /\ sp \in Nat
  BY <1>1, MachineAssumption DEF TypeInv, StackInv, StackTypes, StackShape, ArgsPending
<1>3. n \in DOMAIN bases /\ n > 0 /\ sp = bases[n]
  BY <1>2 DEF Top
<1>4. /\ DOMAIN bases' = 1 .. n - 1 /\ Len(bases') = n - 1
      /\ \A i \in DOMAIN bases' : i \in DOMAIN bases /\ bases'[i] = bases[i]
  BY <1>1, <1>2, <1>3
<1>5. NumVars' = NumVars /\ \A v : Slot(v)' = Slot(v)
  BY <1>1 DEF NumVars, Slot
<1>6. Popped = SavedEnv(n)
  BY <1>3 DEF Popped, SavedEnv
<1>7. \A v \in Vars \ vars_set : mem'[v] = mem[v]
  <2>1. \A v \in Vars \ vars_set : Popped[v] = mem[v]
    BY DEF Popped
  <2>2. DOMAIN Popped = Vars
    BY DEF Popped
  <2> QED  BY <1>1, <2>1, <2>2
<1>8. ASSUME NEW i \in DOMAIN bases'
      PROVE  SavedEnv(i)' = SavedEnv(i) /\ SavedRaOf(i)' = SavedRaOf(i)
  <2>1. \A v \in Vars : (IF v \in vars_set THEN stack[bases[i] + Slot(v)] ELSE mem'[v])
                          = IF v \in vars_set THEN stack[bases[i] + Slot(v)] ELSE mem[v]
    BY <1>7
  <2>2. SavedEnv(i)' = SavedEnv(i)
    BY <1>1, <1>4, <1>5, <2>1 DEF SavedEnv
  <2> QED  BY <1>1, <1>4, <1>5, <2>2 DEF SavedRaOf
<1>9. ASSUME NEW i \in DOMAIN bases'
      PROVE  ReturnTo(i)' = ReturnTo(i)
  <2>0. i \in 1 .. n - 1 /\ i # n
    BY <1>4
  <2>1. CASE i = n - 1
    <3>1. ReturnTo(i)' = SavedRa
      BY <1>1, <1>4, <2>1 DEF ReturnTo
    <3>2. ReturnTo(i) = SavedRaOf(n)
      <4>1. i + 1 = n
        BY <1>2, <2>1
      <4> QED  BY <2>0, <4>1 DEF ReturnTo
    <3> QED  BY <1>3, <3>1, <3>2 DEF SavedRa, SavedRaOf
  <2>2. CASE i # n - 1
    <3>1. i + 1 \in DOMAIN bases'
      BY <1>2, <1>4, <2>0, <2>2
    <3>2. ReturnTo(i)' = SavedRaOf(i + 1)'
      BY <1>4, <2>2 DEF ReturnTo
    <3> QED  BY <1>8, <2>0, <3>1, <3>2 DEF ReturnTo
  <2> QED  BY <2>1, <2>2
<1>10. AbsFrames \in Seq({AbsFrames[i] : i \in 1 .. n}) /\ Len(AbsFrames) = n
  <2>1. DOMAIN AbsFrames = 1 .. n
    BY <1>2 DEF AbsFrames
  <2> QED  BY <1>2, <2>1 DEF AbsFrames
<1>11. AbsFrames' = SubSeq(AbsFrames, 1, n - 1)
  <2>1. AbsFrames' = [i \in 1 .. n - 1 |-> [at |-> ReturnTo(i)', env |-> SavedEnv(i)']]
    BY <1>4 DEF AbsFrames
  <2>2. \A i \in 1 .. n - 1 : [at |-> ReturnTo(i)', env |-> SavedEnv(i)'] = AbsFrames[i]
    BY <1>4, <1>8, <1>9 DEF AbsFrames
  <2>3. SubSeq(AbsFrames, 1, n - 1) = [i \in 1 .. n - 1 |-> AbsFrames[i]]
    <3> HIDE DEF n
    <3> QED  BY <1>3, <1>10, FrontOf
  <2> QED  BY <2>1, <2>2, <2>3
<1>12. AbsFrames[n].env = SavedEnv(n)
  BY <1>3 DEF AbsFrames
<1> QED
  BY <1>1, <1>3, <1>4, <1>6, <1>9, <1>10, <1>11, <1>12

LEMMA ResumeMeans ==
  ASSUME NEW live \in SUBSET Nat, RefAt(live), ExecResume
  PROVE  RunsAsFormed(live)' /\ Meaning!Resume
<1>1. /\ phase = "run" /\ resume /\ resume' = FALSE /\ pc' = pc + 1 /\ s0' = 0
      /\ UNCHANGED <<phase, t, t4, v0, stack, out, genVars>>
  BY DEF ExecResume
<1>2. UNCHANGED <<tacs, vars_set>>
  BY <1>1 DEF genVars
<1>3. StaysLive(live) /\ IsCall(pc)
  BY <1>1 DEF RefAt, RunsAsFormed, StaysLive
<1>4. /\ pc \in live \cap DOMAIN tacs /\ tacs[pc].kind = "CALL" /\ pc \in Nat
      /\ pc \in DOMAIN asm /\ q = tacs[pc] /\ tacs \in Seq(Instr)
  <2>1. pc \in live \cap DOMAIN tacs /\ tacs[pc].kind = "CALL"
    BY <1>3 DEF StaysLive, IsCall
  <2>2. tacs \in Seq(Instr)
    BY ProgramsAssumption DEF RefAt, TypeInv, GenTypeOK
  <2>3. asm \in Seq(Block) /\ Len(asm) = Len(tacs)
    BY <1>1, <2>2 DEF RefAt, TypeInv, GenTypeOK, StackInv, StackTypes
  <2>4. pc \in DOMAIN asm
    BY <2>1, <2>2, <2>3
  <2> QED  BY <2>1, <2>2, <2>4, BlockAtPc DEF RefAt, TypeInv
<1>5. q.dst.char_val \in vars_set
  BY <1>1, <1>4, StoresWord DEF RefAt
<1>6. /\ Len(AbsFrames) = Len(bases)
      /\ mem' = [AbsFrames[Len(bases)].env EXCEPT ![q.dst.char_val] = v0]
      /\ AbsFrames' = SubSeq(AbsFrames, 1, Len(bases) - 1)
      /\ \A i \in DOMAIN bases' : i \in DOMAIN bases /\ ReturnTo(i)' = ReturnTo(i)
  BY <1>5, LastFramePopped DEF RefAt
<1>7. pc' \in live
  BY <1>1, <1>4 DEF RefAt, FormedOn, ControlStays, Falls
<1>8. pc' \in DOMAIN tacs => tacs[pc'].kind \notin {"FUNCTION", "PARAM", "WRITE"}
  BY <1>1, <1>4
     DEF RefAt, FormedOn, FunctionsClosed, WritesFollowStores, Falls, Arith, AddSub, MulDiv
<1>9. s0 = 0 /\ AbsArgs = << >> /\ AbsArgs' = << >>
  <2>1. s0 = 0
    BY <1>1 DEF RefAt, TypeInv, StackInv, ArgsPending
  <2> QED  BY <1>1, <2>1, NoArgs DEF AbsArgs
<1>10. AbsActuals = << >> /\ AbsActuals' = << >>
  BY <1>2, <1>4, <1>8 DEF AbsActuals, TakesParams
<1>11. RunsAsFormed(live)'
  <2>1. StaysLive(live)'
    BY <1>1, <1>3, <1>6, <1>7 DEF StaysLive
  <2>2. ArgsCounted'
    <3>1. ArgsBefore(tacs, pc + 1, 0)
      BY <1>4 DEF ArgsBefore
    <3> QED  BY <1>1, <1>2, <3>1 DEF ArgsCounted
  <2>3. ParamsCounted' /\ StoredInT0'
    BY <1>2, <1>8 DEF ParamsCounted, StoredInT0
  <2> QED  BY <1>1, <2>1, <2>2, <2>3 DEF RunsAsFormed
<1>12. Meaning!Resume
  <2>1. Meaning!q = q
    BY <1>4 DEF Meaning!q
  <2> QED  BY <1>1, <1>2, <1>6, <1>9, <1>10, <2>1 DEF Meaning!Resume
<1> QED
  BY <1>11, <1>12

-------------------------------------------------------------------------------
(* The steps TacRun does not see: compiling, linking, faulting and none.   *)
LEMMA SameState ==
  ASSUME TypeInv, UNCHANGED <<pc, sp, s0, ra, t4, mem, stack, bases, tacs, vars_set>>,
         phase' = "compile" <=> phase = "compile"
  PROVE  /\ AbsFrames' = AbsFrames /\ AbsArgs' = AbsArgs /\ AbsActuals' = AbsActuals
         /\ \A i \in DOMAIN bases : ReturnTo(i)' = ReturnTo(i)
         /\ CallerTop(Len(bases))' = CallerTop(Len(bases))
<1>1. FramesKept /\ OthersKept
  BY SameFrames DEF OthersKept
<1>2. AbsFrames' = AbsFrames /\ \A i \in DOMAIN bases : ReturnTo(i)' = ReturnTo(i)
  BY <1>1, ActivationsKept
<1>3. CallerTop(Len(bases))' = CallerTop(Len(bases))
  BY DEF CallerTop, SavedS0Of, NumVars
<1>4. TakesParams' <=> TakesParams
  BY DEF TakesParams
<1> QED
  BY <1>2, <1>3, <1>4 DEF AbsArgs, AbsActuals

LEMMA StillStands ==
  ASSUME NEW live \in SUBSET Nat, RefAt(live), Stay \/ UNCHANGED vars
  PROVE  RunsAsFormed(live)' /\ UNCHANGED Meaning!vars
<1>1. /\ UNCHANGED <<phase, pc, resume, t, sp, s0, ra, t4, v0, mem, stack, out, bases>>
      /\ UNCHANGED <<tacs, vars_set>>
  BY DEF Stay, vars, runVars, genVars
<1>2. /\ AbsFrames' = AbsFrames /\ AbsArgs' = AbsArgs /\ AbsActuals' = AbsActuals
      /\ \A i \in DOMAIN bases : ReturnTo(i)' = ReturnTo(i)
      /\ CallerTop(Len(bases))' = CallerTop(Len(bases))
  BY <1>1, SameState DEF RefAt
<1>3. RunsAsFormed(live)'
  <2>1. StaysLive(live) => StaysLive(live)'
    BY <1>1, <1>2 DEF StaysLive, IsCall
  <2>2. ArgsCounted => ArgsCounted'
    BY <1>1 DEF ArgsCounted
  <2>3. ParamsCounted => ParamsCounted'
    BY <1>1, <1>2 DEF ParamsCounted, FirstParam
  <2>4. StoredInT0 => StoredInT0'
    BY <1>1 DEF StoredInT0
  <2> QED  BY <1>1, <2>1, <2>2, <2>3, <2>4 DEF RefAt, RunsAsFormed
<1> QED
  BY <1>1, <1>2, <1>3 DEF Meaning!vars

LEMMA FaultMeansNothing ==
  ASSUME NEW live \in SUBSET Nat, RefAt(live), Fault
  PROVE  RunsAsFormed(live)' /\ UNCHANGED Meaning!vars
<1>1. /\ UNCHANGED <<pc, resume, t, sp, s0, ra, t4, v0, mem, stack, out, bases>>
      /\ UNCHANGED <<tacs, vars_set>> /\ phase = "run" /\ phase' = "fault"
  BY DEF Fault, genVars
<1>2. AbsFrames' = AbsFrames /\ AbsArgs' = AbsArgs /\ AbsActuals' = AbsActuals
  BY <1>1, SameState DEF RefAt
<1> QED
  BY <1>1, <1>2 DEF RunsAsFormed, Meaning!vars

(* Before the program runs there is nothing but where it starts.           *)
LEMMA NothingYet ==
  ASSUME TypeInv, phase = "compile"
  PROVE  /\ bases = << >> /\ s0 = 0 /\ ~resume
         /\ AbsFrames = << >> /\ AbsArgs = << >> /\ AbsActuals = << >>
<1>1. bases = << >> /\ s0 = 0 /\ ~resume
  BY DEF TypeInv, StackInv, StackTypes, ArgsPending
<1>2. AbsFrames = << >> /\ AbsActuals = << >>
  BY <1>1 DEF AbsFrames, AbsActuals, TakesParams
<1> QED
  BY <1>1, <1>2, NoArgs

LEMMA CompileMeansNothing ==
  ASSUME NEW live \in SUBSET Nat, RefAt(live), Compile
  PROVE  RunsAsFormed(live)' /\ UNCHANGED Meaning!vars
<1>1. status = "emitting" /\ \E reads, writes, inserts : Emits(reads, writes, inserts)
  BY EveryActionEmits DEF Compile, RefAt, TypeInv
<1>2. tacs' = tacs
  BY <1>1 DEF Emits, Emit
<1>3. UNCHANGED <<phase, pc, resume, t, sp, s0, ra, t4, v0, mem, stack, out, bases>>
  BY DEF Compile, runVars
<1>4. phase = "compile"
  BY <1>1 DEF RefAt, TypeInv, StackInv, StackTypes
<1>5. /\ AbsFrames = << >> /\ AbsArgs = << >> /\ AbsActuals = << >>
      /\ AbsFrames' = << >> /\ AbsArgs' = << >> /\ AbsActuals' = << >>
  <2>1. bases = << >> /\ s0 = 0 /\ AbsFrames = << >> /\ AbsArgs = << >> /\ AbsActuals = << >>
    BY <1>4, NothingYet DEF RefAt
  <2> QED  BY <1>3, <1>4, <2>1 DEF AbsFrames, AbsArgs, AbsActuals, TakesParams
<1>6. RunsAsFormed(live)'
  BY <1>2, <1>3, <1>4 DEF RefAt, RunsAsFormed
<1> QED
  BY <1>2, <1>3, <1>5, <1>6 DEF Meaning!vars

LEMMA LinkMeansNothing ==
  ASSUME NEW live \in SUBSET Nat, RefAt(live), Link
  PROVE  RunsAsFormed(live)' /\ UNCHANGED Meaning!vars
<1>1. /\ UNCHANGED <<pc, resume, t, sp, s0, ra, t4, v0, mem, stack, out, bases>>
      /\ UNCHANGED <<tacs, vars_set>> /\ phase = "compile"
      /\ (phase' = "run" /\ Resolves) \/ phase' \in {"unresolved", "foreign"}
  BY DEF Link, genVars
<1>2. /\ bases = << >> /\ s0 = 0 /\ ~resume
      /\ AbsFrames = << >> /\ AbsArgs = << >> /\ AbsActuals = << >>
  BY <1>1, NothingYet DEF RefAt
<1>3. pc = FuncAt(tacs, Main) /\ t4 = -1 /\ pc \in live /\ tacs \in Programs
  BY <1>1 DEF RefAt, RunsAsFormed, FormedOn, ControlStays, TypeInv, GenTypeOK
<1>4. AbsFrames' = << >> /\ AbsArgs' = << >> /\ AbsActuals' = << >>
  BY <1>1, <1>2 DEF AbsFrames, AbsArgs, AbsActuals, TakesParams
<1>5. RunsAsFormed(live)'
  <2>1. CASE phase' = "run" /\ Resolves
    <3>1. pc \in DOMAIN tacs /\ tacs[pc].kind = "FUNCTION"
      BY <1>3, <2>1, TargetsResolved
    <3>2. StaysLive(live)'
      BY <1>1, <1>2, <1>3 DEF StaysLive
    <3>3. ArgsCounted'
      <4>1. ArgsBefore(tacs, pc, 0)
        BY <1>3, <3>1, NotBehindArg
      <4> QED  BY <1>1, <1>2, <4>1 DEF ArgsCounted
    <3>4. ParamsCounted' /\ StoredInT0'
      BY <1>1, <1>2, <1>3, <3>1 DEF ParamsCounted, StoredInT0
    <3> QED  BY <1>1, <2>1, <3>2, <3>3, <3>4 DEF RunsAsFormed
  <2>2. CASE phase' \in {"unresolved", "foreign"}
    BY <2>2 DEF RunsAsFormed
  <2> QED  BY <1>1, <2>1, <2>2
<1> QED
  BY <1>1, <1>2, <1>4, <1>5 DEF Meaning!vars

-------------------------------------------------------------------------------
LEMMA ProgramKept == TypeInv /\ [Next]_vars => tacs' = tacs
<1> SUFFICES ASSUME TypeInv, [Next]_vars PROVE tacs' = tacs
  OBVIOUS
<1>1. CASE GenNext
  <2>1. \E reads, writes, inserts : Emits(reads, writes, inserts)
    BY <1>1, EveryActionEmits DEF TypeInv
  <2> QED  BY <2>1 DEF Emits, Emit
<1>2. CASE UNCHANGED genVars
  BY <1>2 DEF genVars
<1> QED
  BY <1>1, <1>2, NextCompiles

LEMMA RefInit == Init /\ WellFormed(tacs) => RefInv /\ Meaning!Init
<1> SUFFICES ASSUME Init, WellFormed(tacs) PROVE RefInv /\ Meaning!Init
  OBVIOUS
<1>1. TypeInv
  BY TypeInvInit
<1>2. phase = "compile" /\ pc = FuncAt(tacs, Main) /\ t4 = -1
  BY DEF Init
<1>3. \A live : RunsAsFormed(live)
  BY <1>2 DEF RunsAsFormed
<1>4. RefInv
  BY <1>1, <1>3 DEF WellFormed, RefInv, RefAt
<1>5. AbsFrames = << >> /\ AbsArgs = << >> /\ AbsActuals = << >>
  BY <1>1, <1>2, NothingYet
<1>6. Meaning!Init
  BY <1>5, SameVocabulary DEF Init, GenInit, Meaning!Init
<1> QED
  BY <1>4, <1>6

LEMMA RefStep == RefInv /\ [Next]_vars => RefInv' /\ [Meaning!Next]_(Meaning!vars)
<1> SUFFICES ASSUME RefInv, [Next]_vars PROVE RefInv' /\ [Meaning!Next]_(Meaning!vars)
  OBVIOUS
<1>1. PICK live \in SUBSET Nat : RefAt(live)
  BY DEF RefInv
<1>2. TypeInv' /\ tacs' = tacs
  BY <1>1, TypeInvStep, ProgramKept DEF RefAt
<1>3. FormedOn(tacs, live)'
  BY <1>1, <1>2 DEF RefAt
<1>4. RunsAsFormed(live)' /\ [Meaning!Next]_(Meaning!vars)
  <2>1. CASE Stay \/ UNCHANGED vars
    BY <1>1, <2>1, StillStands
  <2>2. CASE Compile \/ Link \/ Fault
    BY <1>1, <2>2, CompileMeansNothing, LinkMeansNothing, FaultMeansNothing
  <2>3. CASE ExecNothing \/ ExecAssign \/ ExecArith \/ ExecJump \/ ExecNoJump
    BY <1>1, <2>3, NothingMeans, AssignMeans, ArithMeans, JumpMeans, NoJumpMeans
       DEF Meaning!Next
  <2>4. CASE ExecArg \/ ExecCall \/ ExecResume \/ ExecParam \/ ExecReturn
    BY <1>1, <2>4, ArgMeans, CallMeans, ResumeMeans, ParamMeans, ReturnMeans
       DEF Meaning!Next
  <2>5. CASE ExecRead \/ ExecWrite
    BY <1>1, <2>5, ReadMeans, WriteMeans DEF Meaning!Next
  <2> QED  BY <2>1, <2>2, <2>3, <2>4, <2>5 DEF Next
<1>5. RefAt(live)'
  BY <1>2, <1>3, <1>4 DEF RefAt
<1> QED
  BY <1>4, <1>5 DEF RefInv

(* A well-formed program keeps to where control can get, passes as many    *)
(* arguments as are taken and writes what it has just stored.              *)
THEOREM RefInvariant == Spec /\ WellFormed(tacs) => []RefInv
<1> QED
  BY RefInit, RefStep, PTL DEF Spec

(* The compiled program does what its TAC says: every run of a well-formed *)
(* program is, seen through the refinement mapping, a run of TacRun, with  *)
(* the same values in the same variables of every activation, the same     *)
(* arguments, the same output.                                             *)
THEOREM MeaningKept == Spec /\ WellFormed(tacs) => KeepsMeaning
<1> QED
  BY RefInit, RefStep, PTL DEF Spec, KeepsMeaning, Meaning!Spec

(* What a WRITE of a well-formed program prints is its operand.            *)
THEOREM WritesTheOperand == Spec /\ WellFormed(tacs) => WritesItsOperand
<1> DEFINE Own == out' # out => out' = Append(out, ByNameValue(q.a))
<1>1. RefInv /\ [Next]_vars => [Own]_vars
  <2> SUFFICES ASSUME RefInv, Next PROVE Own
    BY DEF vars, runVars
  <2>1. PICK live \in SUBSET Nat : RefAt(live)
    BY DEF RefInv
  <2>2. CASE ExecWrite
    <3>1. Runnable /\ q.kind = "WRITE" /\ out' = Append(out, t["t0"])
      BY <2>2 DEF ExecWrite, Runs, InCode, Runnable
    <3> QED  BY <2>1, <3>1, WritesOperand
  <2>3. CASE ~ExecWrite
    <3>1. out' = out
      BY <2>3 DEF Next, Compile, Link, ExecNothing, ExecAssign, ExecArith, ExecJump,
                  ExecNoJump, ExecArg, ExecCall, ExecResume, ExecParam, ExecReturn,
                  ExecRead, Fault, Stay, runVars, vars
    <3> QED  BY <3>1
  <2> QED  BY <2>2, <2>3
<1> QED
  BY <1>1, RefInvariant, PTL DEF Spec, WritesItsOperand

(* A conditional jump of a well-formed program is taken when its relation  *)
(* holds: where the printed branch exchanges its operands (a constant on   *)
(* the left), the relation is symmetric.                                   *)
THEOREM JumpsTakenAsStated == Spec /\ WellFormed(tacs) => JumpsAsStated
<1> DEFINE Own == Runs(IfKinds) =>
                    pc' = IF Holds(q.kind, ByNameValue(q.a), ByNameValue(q.b))
                          THEN LabelAt(tacs, q.labelno.int_val) ELSE pc + 1
<1>1. RefInv /\ [Next]_vars => [Own]_vars
  <2> SUFFICES ASSUME RefInv, Next, vars' # vars, Runs(IfKinds)
               PROVE  pc' = IF Holds(q.kind, ByNameValue(q.a), ByNameValue(q.b))
                            THEN LabelAt(tacs, q.labelno.int_val) ELSE pc + 1
    OBVIOUS
  <2>1. PICK live \in SUBSET Nat : RefAt(live)
    BY DEF RefInv
  <2>2. Runnable /\ q.kind \in IfKinds /\ phase = "run"
    BY DEF Runs, InCode, Runnable
  <2>3. TakesBranch <=> Holds(q.kind, ByNameValue(q.a), ByNameValue(q.b))
    BY <2>1, <2>2, BranchMeans
  <2>4. CASE ExecJump
    BY <2>2, <2>3, <2>4 DEF ExecJump, Runs, IfKinds
  <2>5. CASE ExecNoJump
    BY <2>3, <2>5 DEF ExecNoJump, Forward
  <2>6. ExecJump \/ ExecNoJump
    <3>1. status = "generated"
      BY <2>1, <2>2 DEF RefAt, TypeInv, StackInv, StackTypes
    <3>2. ~Compile /\ ~Link /\ ~Stay
      <4>1. ~Compile
        BY <2>1, <3>1, EveryActionEmits DEF Compile, RefAt, TypeInv
      <4> QED  BY <2>2, <4>1 DEF Link, Stay
    <3>3. ~ExecResume /\ ~Fault
      BY <2>2 DEF ExecResume, Fault, Runs, Runnable, IfKinds
    <3>4. /\ ~ExecNothing /\ ~ExecAssign /\ ~ExecArith /\ ~ExecArg /\ ~ExecCall
          /\ ~ExecParam /\ ~ExecReturn /\ ~ExecRead /\ ~ExecWrite
      BY <2>2 DEF ExecNothing, ExecAssign, ExecArith, ExecArg, ExecCall, ExecParam,
                  ExecReturn, ExecRead, ExecWrite, Runs, IfKinds, Arith, AddSub, MulDiv
    <3> QED  BY <3>2, <3>3, <3>4 DEF Next
  <2> QED  BY <2>4, <2>5, <2>6
<1> QED
  BY <1>1, RefInvariant, PTL DEF Spec, JumpsAsStated

==============================================================================
