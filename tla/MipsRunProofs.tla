---------------------------- MODULE MipsRunProofs ----------------------------
(***************************************************************************)
(* What is proved of the running program, for every program whose ARGs     *)
(* stand together, every input and every size of the stack.                *)
(***************************************************************************)
EXTENDS MipsRun, MipsGenProofs

-------------------------------------------------------------------------------
(* Compiling and running are apart, and neither changes the other's state. *)
LEMMA InitTyped == Init => GenTypeOK
BY GenTypeInit DEF Init

LEMMA NextCompiles == [Next]_vars => [GenNext]_genVars
BY DEF Next, vars, genVars, runVars, Compile, Link, ExecNothing, ExecAssign, ExecArith,
       ExecJump, ExecNoJump, ExecArg, ExecCall, ExecResume, ExecParam, ExecReturn,
       ExecRead, ExecWrite, Fault, Stay, Forward

LEMMA TypedStep == GenTypeOK /\ [Next]_vars => GenTypeOK'
BY NextCompiles, GenTypeStep

LEMMA AlwaysTyped == Spec => []GenTypeOK
<1> QED
  BY InitTyped, TypedStep, PTL DEF Spec

(* The block that runs is that of the quadruple pc stands at.              *)
LEMMA BlockAtPc ==
  ASSUME GenTypeOK, pc \in DOMAIN asm
  PROVE  pc \in DOMAIN tacs /\ q = tacs[pc]
<1>1. tacs \in Seq(Instr) /\ asm \in Seq(Block)
  BY ProgramsAssumption DEF GenTypeOK
<1>2. DOMAIN asm \subseteq DOMAIN tacs
  BY <1>1 DEF GenTypeOK
<1> QED
  BY <1>2 DEF GenTypeOK, q, blk

LEMMA NumVarsNat == GenTypeOK => NumVars \in Nat
<1> SUFFICES ASSUME GenTypeOK PROVE NumVars \in Nat
  OBVIOUS
<1>1. IsFiniteSet(Vars \cup {NoVar})
  BY MachineAssumption, FS_Union, FS_Singleton
<1>2. IsFiniteSet(vars_set)
  BY <1>1, FS_Subset DEF GenTypeOK
<1> QED
  BY <1>2, FS_CardinalityType DEF NumVars

(* Outside an ARG and its CALL no argument is pending.                     *)
LEMMA NonePending ==
  ASSUME GenTypeOK, StackInv, NEW kinds, Runs(kinds), "ARG" \notin kinds, "CALL" \notin kinds
  PROVE  s0 = 0 /\ sp = Top(bases)
<1>1. tacs[pc].kind \in kinds
  BY BlockAtPc DEF Runs, InCode
<1>2. s0 = 0
  BY <1>1 DEF StackInv, ArgsPending, StackTypes
<1> QED
  BY <1>2 DEF StackInv, StackShape, StackTypes

-------------------------------------------------------------------------------
(* The cells of a frame that hold $ra and $s0 lie in the stack, at or above*)
(* the lowest frame's base.                                                *)
LEMMA FrameCells ==
  ASSUME GenTypeOK, StackInv, NEW i \in DOMAIN bases
  PROVE  /\ Top(bases) \in 0 .. StackWords
         /\ bases[i] + NumVars \in DOMAIN stack /\ bases[i] + NumVars >= Top(bases)
         /\ bases[i] + NumVars + 1 \in DOMAIN stack
<1>0. bases \in Seq(0 .. StackWords) /\ StackWords \in Nat
  BY MachineAssumption DEF StackInv, StackTypes
<1>1. i \in 1 .. Len(bases) /\ bases[i] \in 0 .. StackWords /\ bases # << >>
  BY <1>0
<1>2. Len(bases) \in DOMAIN bases /\ bases[Len(bases)] \in 0 .. StackWords
  BY <1>0, <1>1
<1>3. Top(bases) <= bases[i] /\ Top(bases) \in 0 .. StackWords
  <2>1. i < Len(bases) => bases[Len(bases)] < bases[i]
    BY <1>2 DEF StackInv, FramesInOrder
  <2>2. i = Len(bases) \/ i < Len(bases)
    BY <1>0, <1>1
  <2>3. bases[Len(bases)] <= bases[i]
    BY <1>1, <1>2, <2>1, <2>2
  <2> QED  BY <1>1, <1>2, <2>3 DEF Top
<1>4. Under(i) <= StackWords /\ Under(i) \in Nat
  <2>1. i # 1 => i - 1 \in DOMAIN bases /\ bases[i - 1] \in 0 .. StackWords
    BY <1>0, <1>1
  <2> QED  BY <1>0, <2>1 DEF Under
<1>5. bases[i] + NumVars + 2 + SavedS0Of(i) = Under(i) /\ SavedS0Of(i) \in Nat
  BY DEF StackInv, StackShape, StackTypes, CallerTop
<1>6. NumVars \in Nat /\ StackWords \in Nat
  BY NumVarsNat, MachineAssumption
<1>7. bases[i] + NumVars + 1 < StackWords
  BY <1>1, <1>4, <1>5, <1>6
<1> QED
  BY SMTT(60), <1>1, <1>3, <1>6, <1>7 DEF StackInv, StackTypes

(* A step that writes only below the frames leaves every saved $ra and $s0.*)
FramesKept == /\ UNCHANGED <<bases, vars_set>>
              /\ DOMAIN stack' = DOMAIN stack /\ stack' = [a \in DOMAIN stack' |-> stack'[a]]
              /\ \A a \in DOMAIN stack : a >= Top(bases) => stack'[a] = stack[a]

LEMMA SavedKept ==
  ASSUME GenTypeOK, StackInv, FramesKept, NEW i \in DOMAIN bases
  PROVE  SavedRaOf(i)' = SavedRaOf(i) /\ SavedS0Of(i)' = SavedS0Of(i)
<1>0. bases \in Seq(0 .. StackWords) /\ StackWords \in Nat
  BY MachineAssumption DEF StackInv, StackTypes
<1>1. NumVars \in Nat /\ bases[i] \in 0 .. StackWords /\ Top(bases) \in 0 .. StackWords
  BY <1>0, NumVarsNat, FrameCells
<1>2. bases[i] + NumVars + 1 >= Top(bases)
  BY <1>0, <1>1, FrameCells
<1>3. NumVars' = NumVars /\ bases' = bases
  BY DEF FramesKept, NumVars
<1> QED
  BY <1>2, <1>3, FrameCells DEF FramesKept, SavedRaOf, SavedS0Of

(* A step that keeps the frames and, of the rest, moves $sp by the words of*)
(* arguments it counts in $s0, keeps the invariant.                        *)
LEMMA KeepingFrames ==
  ASSUME GenTypeOK, StackInv, FramesKept, UNCHANGED <<tacs, ra>>,
         sp' \in 0 .. StackWords, s0' \in Nat, sp' + s0' = sp + s0, ArgsPending',
         phase' = "compile" => phase = "compile", phase' # "compile" => status' = "generated"
  PROVE  StackInv'
<1>1. StackTypes'
  <2>1. \A i \in DOMAIN bases : SavedS0Of(i)' = SavedS0Of(i)
    BY SavedKept
  <2>2. \A i \in DOMAIN bases' : SavedS0Of(i)' \in Nat
    BY <2>1 DEF StackInv, StackTypes, FramesKept
  <2>3. bases' \in Seq(0 .. StackWords) /\ DOMAIN stack' = 0 .. StackWords - 1
    BY DEF StackInv, StackTypes, FramesKept
  <2>4. phase' = "compile" => bases' = << >>
    BY DEF StackInv, StackTypes, FramesKept
  <2> QED  BY <2>2, <2>3, <2>4 DEF StackTypes, FramesKept
<1>2. StackShape'
  <2>1. sp' + s0' = Top(bases)' 
    BY DEF StackInv, StackShape, FramesKept
  <2>2. ASSUME NEW i \in DOMAIN bases'
        PROVE  CallerTop(i)' = Under(i)'
    <3>1. i \in DOMAIN bases /\ bases' = bases /\ NumVars' = NumVars
      BY <2>2 DEF FramesKept, NumVars
    <3>2. CallerTop(i) = Under(i)
      BY <3>1 DEF StackInv, StackShape
    <3> QED  BY <3>1, <3>2, SavedKept DEF CallerTop, Under
  <2> QED  BY <2>1, <2>2 DEF StackShape
<1>3. ReturnsToCall'
  <2>1. \A a : IsCall(a)' <=> IsCall(a)
    BY DEF IsCall
  <2>2. ASSUME NEW i \in DOMAIN bases'
        PROVE  IF i = 1 THEN SavedRaOf(i)' = 0 ELSE IsCall(SavedRaOf(i)')
    BY SavedKept DEF StackInv, ReturnsToCall, FramesKept
  <2> QED  BY <2>1, <2>2 DEF StackInv, ReturnsToCall, FramesKept, IsCall
<1>4. FramesInOrder'
  BY DEF StackInv, FramesInOrder, FramesKept
<1> QED
  BY <1>1, <1>2, <1>3, <1>4 DEF StackInv

(* The steps that leave the stack and its registers alone.                 *)
LEMMA Untouched ==
  ASSUME GenTypeOK, StackInv, UNCHANGED <<sp, s0, ra, stack, bases, vars_set, tacs>>,
         ArgsPending', phase' = "compile" => phase = "compile",
         phase' # "compile" => status' = "generated"
  PROVE  StackInv'
<1>1. FramesKept
  BY DEF FramesKept, StackInv, StackTypes
<1> QED
  BY <1>1, KeepingFrames DEF StackInv, StackTypes

(* A write to the cell below an unmoved $sp, or to the one an ARG moves to.*)
LEMMA CellBelow ==
  ASSUME GenTypeOK, StackInv, sp >= 1, NEW x,
         stack' = [stack EXCEPT ![sp - 1] = x], UNCHANGED <<bases, vars_set>>
  PROVE  FramesKept
<1>1. sp \in 0 .. StackWords /\ s0 \in Nat /\ sp + s0 = Top(bases)
  BY DEF StackInv, StackTypes, StackShape
<1>2. sp - 1 < Top(bases) /\ sp - 1 \in Int /\ Top(bases) \in Int
  BY <1>1, MachineAssumption
<1>3. DOMAIN stack' = DOMAIN stack /\ stack' = [a \in DOMAIN stack' |-> stack'[a]]
  BY DEF StackInv, StackTypes
<1>4. \A a \in DOMAIN stack : a >= Top(bases) => stack'[a] = stack[a]
  BY <1>2 DEF StackInv, StackTypes
<1> QED
  BY <1>3, <1>4 DEF FramesKept

LEMMA StackInvInit == Init => StackInv
<1> SUFFICES ASSUME Init PROVE StackInv
  OBVIOUS
<1>1. bases = << >> /\ bases \in Seq(0 .. StackWords) /\ DOMAIN bases = {}
  BY DEF Init
<1>2. sp = StackWords /\ s0 = 0 /\ StackWords \in Nat
  BY MachineAssumption DEF Init
<1>3. StackTypes
  BY <1>1, <1>2 DEF Init, StackTypes
<1> QED
  BY <1>1, <1>2, <1>3 DEF Init, StackInv, StackShape, ReturnsToCall, ArgsPending,
                          FramesInOrder, Top

(* No argument is pending behind a step that had none.                     *)
LEMMA StillNone ==
  ASSUME StackInv, s0' = 0, bases' # << >> \/ ~resume'
  PROVE  ArgsPending'
BY DEF ArgsPending

LEMMA CompileKeeps == GenTypeOK /\ StackInv /\ Compile => StackInv'
<1> SUFFICES ASSUME GenTypeOK, StackInv, Compile PROVE StackInv'
  OBVIOUS
<1>1. status = "emitting" /\ UNCHANGED runVars
  BY EveryActionEmits DEF Compile
<1>2. phase = "compile" /\ bases = << >> /\ s0 = 0 /\ ~resume
  BY <1>1 DEF StackInv, StackTypes, ArgsPending
<1>3. /\ bases' = << >> /\ s0' = s0 /\ sp' = sp /\ stack' = stack /\ phase' = "compile"
      /\ ra' = ra /\ resume' = resume
  BY <1>1, <1>2 DEF runVars
<1>4. DOMAIN bases' = {}
  BY <1>3
<1>5. StackTypes'
  BY <1>2, <1>3, <1>4 DEF StackInv, StackTypes
<1>6. ra' = 0
  BY <1>2, <1>3 DEF StackInv, ReturnsToCall
<1> QED
  BY <1>2, <1>3, <1>4, <1>5, <1>6
     DEF StackInv, StackShape, ReturnsToCall, ArgsPending, FramesInOrder

LEMMA ArgKeeps == GenTypeOK /\ StackInv /\ ExecArg => StackInv'
<1> SUFFICES ASSUME GenTypeOK, StackInv, ExecArg PROVE StackInv'
  OBVIOUS
<1>1. /\ sp >= 1 /\ sp' = sp - 1 /\ s0' = s0 + 1 /\ pc' = pc + 1 /\ q.kind = "ARG"
      /\ UNCHANGED <<phase, resume, ra, bases, tacs, vars_set, status>>
      /\ stack' = [stack EXCEPT ![sp - 1] = ByNameValue(q.a)]
      /\ phase = "run" /\ ~resume /\ pc \in DOMAIN asm
  BY DEF ExecArg, Runs, InCode, Forward, ArgCell, genVars
<1>2. FramesKept
  BY <1>1, CellBelow
<1>3. pc \in DOMAIN tacs /\ tacs[pc].kind = "ARG" /\ tacs \in Programs
  BY <1>1, BlockAtPc DEF GenTypeOK
<1>4. pc + 1 \in DOMAIN tacs /\ tacs[pc + 1].kind \in {"ARG", "CALL"}
  BY <1>3, ArgsTogether
<1>5. ArgsPending'
  BY <1>1, <1>4 DEF ArgsPending
<1>6. sp \in 0 .. StackWords /\ s0 \in Nat /\ StackWords \in Nat
  BY MachineAssumption DEF StackInv, StackTypes
<1>7. sp' \in 0 .. StackWords /\ s0' \in Nat /\ sp' + s0' = sp + s0
  BY <1>1, <1>6
<1>8. phase' # "compile" => status' = "generated"
  BY <1>1 DEF StackInv, StackTypes
<1> QED
  BY <1>1, <1>2, <1>5, <1>7, <1>8, KeepingFrames

(* read and write use the word below $sp and give it back.                 *)
LEMMA LibraryKeeps == GenTypeOK /\ StackInv /\ (ExecRead \/ ExecWrite) => StackInv'
<1> SUFFICES ASSUME GenTypeOK, StackInv, ExecRead \/ ExecWrite PROVE StackInv'
  OBVIOUS
<1>1. /\ Runs({"READ"}) \/ Runs({"WRITE"})
      /\ UNCHANGED <<sp, s0, phase, resume, ra, bases, tacs, vars_set, status>>
      /\ sp >= 1 /\ stack' = [stack EXCEPT ![sp - 1] = ra]
  BY DEF ExecRead, ExecWrite, KeepRa, Forward, genVars
<1>2. phase = "run" /\ ~resume
  BY <1>1 DEF Runs, InCode
<1>3. s0 = 0
  BY <1>1, NonePending
<1>4. FramesKept
  BY <1>1, CellBelow
<1>5. ArgsPending'
  BY <1>1, <1>2, <1>3, StillNone
<1>6. phase' # "compile" => status' = "generated"
  BY <1>1 DEF StackInv, StackTypes
<1> QED
  BY <1>1, <1>4, <1>5, <1>6, KeepingFrames DEF StackInv, StackTypes

(* The computing quadruples, with no argument pending before or after.     *)
LEMMA ComputingKeeps ==
  GenTypeOK /\ StackInv /\ (ExecNothing \/ ExecAssign \/ ExecArith \/ ExecJump
                           \/ ExecNoJump \/ ExecParam) => StackInv'
<1> SUFFICES ASSUME GenTypeOK, StackInv,
                    ExecNothing \/ ExecAssign \/ ExecArith \/ ExecJump \/ ExecNoJump \/ ExecParam
             PROVE  StackInv'
  OBVIOUS
<1>1. /\ UNCHANGED <<sp, s0, ra, stack, bases, vars_set, tacs, status, phase, resume>>
      /\ \E kinds : Runs(kinds) /\ "ARG" \notin kinds /\ "CALL" \notin kinds
  BY DEF ExecNothing, ExecAssign, ExecArith, ExecJump, ExecNoJump, ExecParam, Forward,
         genVars, Arith, AddSub, MulDiv, IfKinds
<1>2. s0 = 0 /\ ~resume
  BY <1>1, NonePending DEF Runs, InCode
<1>3. ArgsPending'
  BY <1>1, <1>2, StillNone
<1> QED
  BY <1>1, <1>3, Untouched DEF StackInv, StackTypes

LEMMA ReturnKeeps == GenTypeOK /\ StackInv /\ ExecReturn => StackInv'
<1> SUFFICES ASSUME GenTypeOK, StackInv, ExecReturn PROVE StackInv'
  OBVIOUS
<1>1. /\ UNCHANGED <<sp, s0, ra, stack, bases, vars_set, tacs, status>>
      /\ phase = "run" /\ ~resume /\ phase' # "compile"
  BY DEF ExecReturn, Runs, InCode, genVars
<1>2. s0 = 0
  BY NonePending DEF ExecReturn
<1>3. CASE ra = 0
  <2>1. ~resume'
    BY <1>1, <1>3 DEF ExecReturn
  <2>2. ArgsPending'
    BY <1>1, <1>2, <2>1, StillNone
  <2> QED
    BY <1>1, <2>2, Untouched DEF StackInv, StackTypes
<1>4. CASE ra # 0
  <2>1. bases # << >>
    BY <1>4 DEF StackInv, ReturnsToCall
  <2>2. ArgsPending'
    BY <1>1, <1>2, <2>1, StillNone
  <2> QED
    BY <1>1, <2>2, Untouched DEF StackInv, StackTypes
<1> QED
  BY <1>3, <1>4

LEMMA StandingStillKeeps == GenTypeOK /\ StackInv /\ (Link \/ Fault \/ Stay) => StackInv'
<1> SUFFICES ASSUME GenTypeOK, StackInv, Link \/ Fault \/ Stay PROVE StackInv'
  OBVIOUS
<1>1. /\ UNCHANGED <<sp, s0, ra, stack, bases, vars_set, tacs, status, pc, resume>>
      /\ phase' = "compile" => phase = "compile"
      /\ phase' # "compile" => status = "generated"
  BY DEF Link, Fault, Stay, genVars, runVars, vars, StackInv, StackTypes
<1>2. s0 > 0 => phase' # "compile"
  BY <1>1 DEF StackInv, ArgsPending
<1>3. ArgsPending'
  BY <1>1, <1>2 DEF StackInv, ArgsPending
<1> QED
  BY <1>1, <1>3, Untouched

-------------------------------------------------------------------------------
(* A call puts one more frame below the others.                            *)
LEMMA CallKeeps == GenTypeOK /\ StackInv /\ ExecCall => StackInv'
<1> SUFFICES ASSUME GenTypeOK, StackInv, ExecCall PROVE StackInv'
  OBVIOUS
<1> DEFINE n == Len(bases)
<1>1. /\ FrameBase >= 0 /\ sp' = FrameBase /\ s0' = 0 /\ stack' = Pushed(FrameBase)
      /\ bases' = Append(bases, FrameBase) /\ ra' = pc /\ q.kind = "CALL"
      /\ UNCHANGED <<phase, resume, tacs, vars_set, status>>
      /\ phase = "run" /\ ~resume /\ pc \in DOMAIN asm
  BY DEF ExecCall, Runs, InCode, ClearedS0, genVars
<1>2. /\ sp \in 0 .. StackWords /\ s0 \in Nat /\ StackWords \in Nat /\ NumVars \in Nat
      /\ bases \in Seq(0 .. StackWords) /\ DOMAIN stack = 0 .. StackWords - 1
      /\ sp + s0 = Top(bases)
  BY MachineAssumption, NumVarsNat DEF StackInv, StackTypes, StackShape
<1>3. FrameBase \in 0 .. StackWords /\ FrameBase = sp - 2 - NumVars /\ FrameBase < sp
  BY <1>1, <1>2 DEF FrameBase
<1>4. /\ bases' \in Seq(0 .. StackWords) /\ Len(bases') = n + 1 /\ bases'[n + 1] = FrameBase
      /\ DOMAIN bases' = 1 .. n + 1 /\ \A i \in DOMAIN bases : bases'[i] = bases[i]
      /\ DOMAIN bases = 1 .. n /\ n \in Nat /\ bases' # << >>
  BY <1>1, <1>2, <1>3
<1>5. NumVars' = NumVars
  BY <1>1 DEF NumVars
<1>6. DOMAIN stack' = DOMAIN stack /\ stack' = [a \in DOMAIN stack' |-> stack'[a]]
  BY <1>1 DEF Pushed
<1>7. \A a \in DOMAIN stack : a >= Top(bases) => stack'[a] = stack[a]
  <2>1. ASSUME NEW a \in DOMAIN stack, a >= Top(bases)
        PROVE  a # sp - 1 /\ a # sp - 2 /\ ~(a < sp - 2)
    BY <1>2, <2>1
  <2> QED  BY <1>1, <2>1 DEF Pushed
<1>8. /\ sp - 1 \in DOMAIN stack /\ sp - 2 \in DOMAIN stack
      /\ stack'[sp - 1] = s0 /\ stack'[sp - 2] = ra
  <2>1. sp - 1 \in DOMAIN stack /\ sp - 2 \in DOMAIN stack
    BY <1>2, <1>3
  <2>2. sp - 2 # sp - 1 /\ ~(sp - 1 < sp - 2) /\ ~(sp - 2 < sp - 2)
    BY <1>2
  <2>3. ASSUME NEW a \in DOMAIN stack
        PROVE  /\ a = sp - 1 => stack'[a] = s0
               /\ a = sp - 2 => stack'[a] = ra
    BY <1>1, <2>2 DEF Pushed
  <2> QED  BY <2>1, <2>3
<1>9. \A i : i = n + 1 => SavedRaOf(i)' = ra /\ SavedS0Of(i)' = s0
  <2>1. FrameBase + NumVars = sp - 2 /\ FrameBase + NumVars + 1 = sp - 1
    BY <1>2, <1>3
  <2> QED  BY <1>4, <1>5, <1>8, <2>1 DEF SavedRaOf, SavedS0Of
<1>10. ASSUME NEW i \in DOMAIN bases
       PROVE  SavedRaOf(i)' = SavedRaOf(i) /\ SavedS0Of(i)' = SavedS0Of(i)
  <2>1. /\ bases[i] + NumVars \in DOMAIN stack /\ bases[i] + NumVars >= Top(bases)
        /\ bases[i] + NumVars + 1 \in DOMAIN stack /\ Top(bases) \in 0 .. StackWords
    BY FrameCells
  <2>2. bases[i] \in 0 .. StackWords
    BY <1>2
  <2>3. bases[i] + NumVars + 1 >= Top(bases)
    BY <1>2, <2>1, <2>2
  <2> QED  BY <1>4, <1>5, <1>7, <2>1, <2>3 DEF SavedRaOf, SavedS0Of
<1>11. StackTypes'
  <2>1. ASSUME NEW i \in DOMAIN bases'
        PROVE  SavedS0Of(i)' \in Nat
    <3>1. CASE i \in DOMAIN bases
      BY <1>10, <3>1 DEF StackInv, StackTypes
    <3>2. CASE i = n + 1
      BY <1>2, <1>9, <3>2
    <3> QED  BY <1>4, <3>1, <3>2
  <2> QED
    BY <1>1, <1>2, <1>3, <1>4, <1>6, <2>1 DEF StackInv, StackTypes
<1>12. StackShape'
  <2>1. sp' + s0' = Top(bases)'
    BY <1>1, <1>3, <1>4 DEF Top
  <2>2. ASSUME NEW i \in DOMAIN bases'
        PROVE  CallerTop(i)' = Under(i)'
    <3>1. CASE i \in DOMAIN bases
      <4>1. CallerTop(i) = Under(i)
        BY <3>1 DEF StackInv, StackShape
      <4>2. CallerTop(i)' = CallerTop(i)
        BY <1>4, <1>5, <1>10, <3>1 DEF CallerTop
      <4>3. Under(i)' = Under(i)
        BY <1>4, <3>1 DEF Under
      <4> QED  BY <4>1, <4>2, <4>3
    <3>2. CASE i = n + 1
      <4>1. CallerTop(i)' = FrameBase + NumVars + 2 + s0
        BY <1>4, <1>5, <1>9, <3>2 DEF CallerTop
      <4>2. CallerTop(i)' = Top(bases)
        BY <1>2, <1>3, <4>1
      <4>3. Under(i)' = Top(bases)
        <5>1. CASE n = 0
          BY <1>4, <3>2, <5>1 DEF Under, Top
        <5>2. CASE n > 0
          <6>1. i # 1 /\ i - 1 = n /\ bases'[n] = bases[n] /\ bases # << >>
            BY <1>4, <3>2, <5>2
          <6> QED  BY <6>1 DEF Under, Top
        <5> QED  BY <1>4, <5>1, <5>2
      <4> QED  BY <4>2, <4>3
    <3> QED  BY <1>4, <3>1, <3>2
  <2> QED  BY <2>1, <2>2 DEF StackShape
<1>13. ReturnsToCall'
  <2>1. \A a : IsCall(a)' <=> IsCall(a)
    BY <1>1 DEF IsCall
  <2>2. IsCall(pc)
    BY <1>1, BlockAtPc DEF IsCall
  <2>3. ASSUME NEW i \in DOMAIN bases'
        PROVE  IF i = 1 THEN SavedRaOf(i)' = 0 ELSE IsCall(SavedRaOf(i)')
    <3>1. CASE i \in DOMAIN bases
      BY <1>10, <3>1 DEF StackInv, ReturnsToCall
    <3>2. CASE i = n + 1 /\ n = 0
      <4>1. bases = << >>
        BY <1>2, <3>2
      <4> QED  BY <1>9, <3>2, <4>1 DEF StackInv, ReturnsToCall
    <3>3. CASE i = n + 1 /\ n # 0
      <4>1. bases # << >> /\ i # 1
        BY <1>4, <3>3
      <4> QED  BY <1>9, <3>3, <4>1 DEF StackInv, ReturnsToCall
    <3> QED  BY <1>4, <3>1, <3>2, <3>3
  <2> QED  BY <1>1, <1>4, <2>1, <2>2, <2>3 DEF ReturnsToCall, IsCall
<1>14. ArgsPending'
  BY <1>1, StillNone
<1>15. FramesInOrder'
  <2>1. ASSUME NEW i \in DOMAIN bases
        PROVE  FrameBase < bases[i]
    <3>1. Top(bases) <= bases[i] /\ bases[i] \in 0 .. StackWords
      <4>1. bases[i] \in 0 .. StackWords /\ n \in DOMAIN bases /\ bases # << >>
            /\ bases[n] \in 0 .. StackWords /\ (i = n \/ i < n)
        BY <1>2, <1>4
      <4>2. i < n => bases[n] < bases[i]
        BY <4>1 DEF StackInv, FramesInOrder
      <4> QED  BY <4>1, <4>2 DEF Top
    <3>2. Top(bases) \in 0 .. StackWords
      BY FrameCells
    <3> QED  BY <1>2, <1>3, <3>1, <3>2
  <2>2. ASSUME NEW i \in DOMAIN bases', NEW j \in DOMAIN bases', i < j
        PROVE  bases'[j] < bases'[i]
    <3>1. i \in DOMAIN bases
      BY <1>4, <2>2
    <3>2. CASE j \in DOMAIN bases
      BY <1>4, <2>2, <3>1, <3>2 DEF StackInv, FramesInOrder
    <3>3. CASE j = n + 1
      BY <1>4, <2>1, <3>1, <3>3
    <3> QED  BY <1>4, <3>2, <3>3
  <2> QED  BY <2>2 DEF FramesInOrder
<1> QED
  BY <1>11, <1>12, <1>13, <1>14, <1>15 DEF StackInv

(* A return takes the last frame away, and $sp lands where the caller's own*)
(* words begin.                                                            *)
LEMMA ResumeKeeps == GenTypeOK /\ StackInv /\ ExecResume => StackInv'
<1> SUFFICES ASSUME GenTypeOK, StackInv, ExecResume PROVE StackInv'
  OBVIOUS
<1> DEFINE n == Len(bases)
<1>1. /\ sp' = ArgsPopped(SavedS0) /\ s0' = 0 /\ ra' = SavedRa
      /\ bases' = SubSeq(bases, 1, n - 1) /\ phase = "run" /\ resume /\ ~resume'
      /\ UNCHANGED <<phase, stack, tacs, vars_set, status>>
  BY DEF ExecResume, genVars
<1>2. /\ sp \in 0 .. StackWords /\ StackWords \in Nat /\ NumVars \in Nat
      /\ bases \in Seq(0 .. StackWords) /\ DOMAIN bases = 1 .. n /\ n \in Nat
      /\ s0 = 0 /\ bases # << >>
  BY <1>1, MachineAssumption, NumVarsNat DEF StackInv, StackTypes, ArgsPending
<1>3. n \in DOMAIN bases /\ n > 0 /\ Top(bases) = bases[n]
  BY <1>2 DEF Top
<1>4. sp = bases[n]
  BY <1>2, <1>3 DEF StackInv, StackShape
<1>5. SavedRa = SavedRaOf(n) /\ SavedS0 = SavedS0Of(n)
  BY <1>4 DEF SavedRa, SavedS0, SavedRaOf, SavedS0Of
<1>6. sp' = Under(n)
  BY <1>1, <1>3, <1>4, <1>5 DEF ArgsPopped, StackInv, StackShape, CallerTop
<1>7. /\ bases' \in Seq(0 .. StackWords) /\ DOMAIN bases' = 1 .. n - 1 /\ Len(bases') = n - 1
      /\ \A i \in DOMAIN bases' : i \in DOMAIN bases /\ bases'[i] = bases[i]
  BY <1>1, <1>2, <1>3
<1>8. NumVars' = NumVars
  BY <1>1 DEF NumVars
<1>9. \A i \in DOMAIN bases' : SavedRaOf(i)' = SavedRaOf(i) /\ SavedS0Of(i)' = SavedS0Of(i)
  BY <1>1, <1>7, <1>8 DEF SavedRaOf, SavedS0Of
<1>10. Top(bases)' = Under(n)
  <2>1. CASE n = 1
    BY <1>7, <2>1 DEF Top, Under
  <2>2. CASE n # 1
    <3>1. bases' # << >> /\ n - 1 \in DOMAIN bases'
      BY <1>2, <1>3, <1>7, <2>2
    <3> QED  BY <1>7, <2>2, <3>1 DEF Top, Under
  <2> QED  BY <2>1, <2>2
<1>11. Under(n) \in 0 .. StackWords
  <2>1. n # 1 => n - 1 \in DOMAIN bases /\ bases[n - 1] \in 0 .. StackWords
    BY <1>2, <1>3
  <2> QED  BY <1>2, <2>1 DEF Under
<1>12. StackTypes'
  <2>1. \A i \in DOMAIN bases' : SavedS0Of(i)' \in Nat
    BY <1>7, <1>9 DEF StackInv, StackTypes
  <2> QED
    BY <1>1, <1>6, <1>7, <1>11, <2>1 DEF StackInv, StackTypes
<1>13. StackShape'
  <2>1. ASSUME NEW i \in DOMAIN bases'
        PROVE  CallerTop(i)' = Under(i)'
    <3>1. CallerTop(i) = Under(i)
      BY <1>7 DEF StackInv, StackShape
    <3>2. CallerTop(i)' = CallerTop(i)
      BY <1>7, <1>8, <1>9 DEF CallerTop
    <3>3. i # 1 => i - 1 \in DOMAIN bases'
      BY <1>7, <1>2
    <3>4. Under(i)' = Under(i)
      BY <1>7, <3>3 DEF Under
    <3> QED  BY <3>1, <3>2, <3>4
  <2>2. sp' + s0' = Top(bases)'
    BY <1>1, <1>6, <1>10, <1>11
  <2> QED  BY <2>1, <2>2 DEF StackShape
<1>14. ReturnsToCall'
  <2>1. \A a : IsCall(a)' <=> IsCall(a)
    BY <1>1 DEF IsCall
  <2>2. \A i \in DOMAIN bases' : IF i = 1 THEN SavedRaOf(i)' = 0 ELSE IsCall(SavedRaOf(i)')
    BY <1>7, <1>9 DEF StackInv, ReturnsToCall
  <2>3. IF n = 1 THEN ra' = 0 /\ bases' = << >> ELSE IsCall(ra') /\ bases' # << >>
    <3>1. n = 1 => bases' = << >>
      BY <1>7
    <3>2. n # 1 => bases' # << >>
      BY <1>2, <1>3, <1>7
    <3>3. IF n = 1 THEN ra' = 0 ELSE IsCall(ra')
      BY <1>1, <1>3, <1>5 DEF StackInv, ReturnsToCall
    <3> QED  BY <3>1, <3>2, <3>3
  <2> QED  BY <1>7, <2>1, <2>2, <2>3 DEF ReturnsToCall, IsCall
<1>15. ArgsPending'
  BY <1>1, StillNone
<1>16. FramesInOrder'
  BY <1>7 DEF StackInv, FramesInOrder
<1> QED
  BY <1>12, <1>13, <1>14, <1>15, <1>16 DEF StackInv

LEMMA StackInvStep == GenTypeOK /\ StackInv /\ [Next]_vars => StackInv'
<1> SUFFICES ASSUME GenTypeOK, StackInv, [Next]_vars PROVE StackInv'
  OBVIOUS
<1>1. CASE UNCHANGED vars
  <2>1. /\ UNCHANGED <<sp, s0, ra, stack, bases, vars_set, tacs, status, phase, pc, resume>>
    BY <1>1 DEF vars, genVars, runVars
  <2>2. ArgsPending'
    BY <2>1 DEF StackInv, ArgsPending
  <2> QED  BY <2>1, <2>2, Untouched DEF StackInv, StackTypes
<1>2. CASE Next
  BY <1>2, CompileKeeps, StandingStillKeeps, ComputingKeeps, ArgKeeps, CallKeeps,
     ResumeKeeps, ReturnKeeps, LibraryKeeps DEF Next
<1> QED
  BY <1>1, <1>2

-------------------------------------------------------------------------------
(* The inductive invariant of the stack, for every program.                *)
THEOREM StackInvariant == Spec => []StackInv
<1> QED
  BY InitTyped, TypedStep, StackInvInit, StackInvStep, PTL DEF Spec

(* For every program: $sp, $s0 and the frames account for every word of the*)
(* stack in use.                                                           *)
THEOREM StackAlwaysShaped == Spec => []StackShape
<1>1. StackInv => StackShape
  BY DEF StackInv
<1> QED
  BY <1>1, StackInvariant, PTL

(* For every program: $ra, now or once popped, is a CALL or the start.     *)
THEOREM ReturnsAlwaysToCall == Spec => []ReturnsToCall
<1>1. StackInv => ReturnsToCall
  BY DEF StackInv
<1> QED
  BY <1>1, StackInvariant, PTL

(* For every program: no step writes into a suspended activation's frame.  *)
THEOREM FramesStayIntact == Spec => FramesIntact
<1> DEFINE Intact == \A a \in DOMAIN stack : a >= Top(bases) => stack'[a] = stack[a]
<1>1. GenTypeOK /\ StackInv /\ [Next]_vars => [Intact]_vars
  <2> SUFFICES ASSUME GenTypeOK, StackInv, Next PROVE Intact
    BY DEF vars
  <2>1. CASE UNCHANGED stack
    BY <2>1
  <2>2. CASE ExecArg
    <3>1. FramesKept
      BY <2>2, CellBelow DEF ExecArg, ArgCell, Forward, genVars
    <3> QED  BY <3>1 DEF FramesKept
  <2>3. CASE ExecRead \/ ExecWrite
    <3>1. FramesKept
      BY <2>3, CellBelow DEF ExecRead, ExecWrite, KeepRa, Forward, genVars
    <3> QED  BY <3>1 DEF FramesKept
  <2>4. CASE ExecCall
    <3>1. /\ sp \in 0 .. StackWords /\ s0 \in Nat /\ StackWords \in Nat
          /\ sp + s0 = Top(bases) /\ DOMAIN stack = 0 .. StackWords - 1
      BY MachineAssumption DEF StackInv, StackTypes, StackShape
    <3>2. ASSUME NEW a \in DOMAIN stack, a >= Top(bases)
          PROVE  a # sp - 1 /\ a # sp - 2 /\ ~(a < sp - 2)
      BY <3>1, <3>2
    <3> QED  BY <2>4, <3>2 DEF ExecCall, Pushed
  <2> QED
    BY <2>1, <2>2, <2>3, <2>4
       DEF Next, Compile, Link, ExecNothing, ExecAssign, ExecArith, ExecJump, ExecNoJump,
           ExecResume, ExecParam, ExecReturn, Fault, Stay, runVars, vars
<1> QED
  BY <1>1, AlwaysTyped, StackInvariant, PTL DEF Spec, FramesIntact

==============================================================================
