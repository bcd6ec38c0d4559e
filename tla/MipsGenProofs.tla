---------------------------- MODULE MipsGenProofs ----------------------------
(***************************************************************************)
(* What is proved of the code generator for every list of quadruples.      *)
(***************************************************************************)
EXTENDS MipsGen, FiniteSetTheorems, SequenceTheorems, TLAPS

-------------------------------------------------------------------------------
(* What one emitter does to the state, whatever it loads and stores.       *)

(* A load is a register of get_register and a variable: the assert has     *)
(* seen to it.                                                             *)
LEMMA LoadsTyped ==
  ASSUME NEW reads \in Seq(Opd), flag \in BOOLEAN,
         \A o \in Range(reads) : IsVariable(o)
  PROVE  GetRegisters(reads) \in Seq(Load) /\ Len(GetRegisters(reads)) = Len(reads)
<1>1. \A k \in 1 .. Len(reads) : reads[k] \in Opd /\ IsVariable(reads[k])
  BY DEF Range
<1>2. \A k \in 1 .. Len(reads) : reads[k].char_val \in Vars
  BY <1>1 DEF Opd, IsVariable
<1>3. \A k \in 1 .. Len(reads) :
         [reg |-> RegOf(IF k = 1 THEN ~flag ELSE SecondFlag(flag)),
          var |-> reads[k].char_val] \in Load
  BY <1>2 DEF Load, RegOf
<1>4. GetRegisters(reads) \in [1 .. Len(reads) -> Load]
  BY <1>3 DEF GetRegisters
<1> QED
  BY <1>4

LEMMA TakenForTyped ==
  ASSUME NEW writes \in Seq(Opd)
  PROVE  TakenFor(writes) \in Vars \cup {NoVar}
<1>1. CASE writes = << >>
  BY <1>1 DEF TakenFor
<1>2. CASE writes # << >>
  <2>1. writes[Len(writes)] \in Opd
    BY <1>2
  <2> QED
    BY <1>2, <2>1 DEF TakenFor, Opd
<1> QED
  BY <1>1, <1>2

LEMMA CurTyped ==
  ASSUME GenTypeOK, status = "emitting"
  PROVE  tac_code \in 1 .. Len(tacs) /\ Cur \in Instr
<1>1. tacs \in Seq(Instr)
  BY ProgramsAssumption DEF GenTypeOK
<1>2. tac_code \in 1 .. Len(tacs)
  BY <1>1 DEF GenTypeOK
<1> QED
  BY <1>1, <1>2 DEF Cur

(* Every emitter hands Emit at most two operands to load and at most two to*)
(* write, all of the current quadruple, and the name its block stores is   *)
(* among those it makes Emit put into vars_set.                            *)
NewBlock(reads, writes) == [tac |-> Cur, ld |-> GetRegisters(reads), t0 |-> TakenFor(writes)]
Emits(reads, writes, inserts) ==
  /\ Emit(reads, writes, inserts)
  /\ reads \in Seq(Opd) /\ Len(reads) <= 2
  /\ writes \in Seq(Opd)
  /\ inserts \subseteq Vars \cup {NoVar}
  /\ Stored(NewBlock(reads, writes)) \subseteq inserts \cup {o.char_val : o \in Range(writes)}

LEMMA EveryActionEmits ==
  ASSUME GenTypeOK, GenNext
  PROVE  /\ status = "emitting"
         /\ \E reads, writes, inserts : Emits(reads, writes, inserts)
<1>1. status = "emitting"
  BY DEF GenNext, EmitNone, EmitLabel, EmitAssign, EmitAddSub, EmitMulDiv, EmitAddrFetch,
         EmitDeref, EmitGoto, EmitIf, EmitReturn, EmitDec, EmitArg, EmitCall, EmitParam,
         EmitRead, EmitWrite, At
<1>2. Cur \in Instr
  BY <1>1, CurTyped
<1>3. Cur.dst \in Opd /\ Cur.a \in Opd /\ Cur.b \in Opd
  BY <1>2 DEF Instr
<1>4. \A o \in Opd : o.char_val \in Vars \cup {NoVar}
  BY DEF Opd
<1>5. /\ << >> \in Seq(Opd) /\ Len(<< >>) = 0
      /\ \A o \in Opd : <<o>> \in Seq(Opd) /\ Len(<<o>>) = 1
      /\ \A o, p \in Opd : <<o, p>> \in Seq(Opd) /\ Len(<<o, p>>) = 2
  OBVIOUS
<1>6. \A o \in Opd : o \in Range(<<o>>) /\ TakenFor(<<o>>) = o.char_val
  <2>1. ASSUME NEW o \in Opd
        PROVE  Len(<<o>>) = 1 /\ <<o>>[1] = o /\ 1 \in DOMAIN <<o>> /\ <<o>> # << >>
    OBVIOUS
  <2> QED  BY <2>1 DEF Range, TakenFor
<1>7. Loaded(Cur.a, Cur.b) \in Seq(Opd) /\ Len(Loaded(Cur.a, Cur.b)) <= 2
  BY <1>3, <1>5 DEF Loaded
<1>8. ASSUME NEW reads, NEW writes, NewBlock(reads, writes).tac.kind
               \notin Arith \cup {"ASSIGN", "ADDR", "FETCH", "CALL", "PARAM", "READ"}
      PROVE  Stored(NewBlock(reads, writes)) = {}
  BY <1>8 DEF Stored
<1>9. \A reads, writes : NewBlock(reads, writes).tac = Cur
                         /\ NewBlock(reads, writes).t0 = TakenFor(writes)
  BY DEF NewBlock
<1>10. ASSUME NEW reads, NEW writes, Cur.kind \in Arith \cup {"ASSIGN", "ADDR", "FETCH"}
       PROVE  Stored(NewBlock(reads, writes)) = {TakenFor(writes)}
  BY <1>9, <1>10 DEF Stored, Arith, AddSub, MulDiv
<1>11. ASSUME NEW reads, NEW writes, Cur.kind \in {"CALL", "PARAM", "READ"}
       PROVE  Stored(NewBlock(reads, writes)) = {Cur.dst.char_val}
  BY <1>9, <1>11 DEF Stored, Arith, AddSub, MulDiv
<1>a. CASE EmitNone \/ EmitLabel \/ EmitGoto \/ EmitDec \/ EmitArg \/ EmitReturn
  <2>1. Stored(NewBlock(<< >>, << >>)) = {}
    BY <1>a, <1>8, <1>9
       DEF EmitNone, EmitLabel, EmitGoto, EmitDec, EmitArg, EmitReturn, At, Arith, AddSub, MulDiv
  <2>2. Emits(<< >>, << >>, {})
    BY <1>a, <1>5, <2>1 DEF Emits, EmitNone, EmitLabel, EmitGoto, EmitDec, EmitArg, EmitReturn
  <2> QED  BY <1>1, <2>2
<1>b. CASE EmitAssign
  <2> DEFINE reads == IF IsConstant(Cur.a) THEN << >> ELSE <<Cur.a>>
  <2>1. Stored(NewBlock(reads, <<Cur.dst>>)) = {Cur.dst.char_val}
    BY <1>b, <1>3, <1>6, <1>10 DEF EmitAssign, At
  <2>2. reads \in Seq(Opd) /\ Len(reads) <= 2
    BY <1>3, <1>5
  <2>3. Emits(reads, <<Cur.dst>>, {})
    BY <1>b, <1>3, <1>5, <1>6, <2>1, <2>2 DEF Emits, EmitAssign
  <2> QED  BY <1>1, <2>3
<1>c. CASE EmitAddSub
  <2>1. Stored(NewBlock(Loaded(Cur.a, Cur.b), <<Cur.dst>>)) = {Cur.dst.char_val}
    BY <1>c, <1>3, <1>6, <1>10 DEF EmitAddSub, At, Arith
  <2>2. Emits(Loaded(Cur.a, Cur.b), <<Cur.dst>>, {})
    BY <1>c, <1>3, <1>5, <1>6, <1>7, <2>1 DEF Emits, EmitAddSub
  <2> QED  BY <1>1, <2>2
<1>d. CASE EmitMulDiv
  <2> DEFINE writes == <<Cur.dst>> \o ConstantsOf(Cur.a, Cur.b)
  <2>1. writes \in Seq(Opd) /\ writes # << >>
    BY <1>3, <1>5 DEF ConstantsOf
  <2>2. TakenFor(writes) \in {o.char_val : o \in Range(writes)}
    BY <2>1 DEF TakenFor, Range
  <2>3. Stored(NewBlock(Loaded(Cur.a, Cur.b), writes)) = {TakenFor(writes)}
    BY <1>d, <1>10 DEF EmitMulDiv, At, Arith
  <2>4. Emits(Loaded(Cur.a, Cur.b), writes, {})
    BY <1>d, <1>7, <2>1, <2>2, <2>3 DEF Emits, EmitMulDiv
  <2> QED  BY <1>1, <2>4
<1>e. CASE EmitAddrFetch
  <2>1. Stored(NewBlock(<<Cur.a>>, <<Cur.dst>>)) = {Cur.dst.char_val}
    BY <1>e, <1>3, <1>6, <1>10 DEF EmitAddrFetch, At
  <2>2. Emits(<<Cur.a>>, <<Cur.dst>>, {})
    BY <1>e, <1>3, <1>5, <1>6, <2>1 DEF Emits, EmitAddrFetch
  <2> QED  BY <1>1, <2>2
<1>f. CASE EmitDeref
  <2>1. Stored(NewBlock(<<Cur.a, Cur.b>>, << >>)) = {}
    BY <1>f, <1>8, <1>9 DEF EmitDeref, At, Arith, AddSub, MulDiv
  <2>2. Emits(<<Cur.a, Cur.b>>, << >>, {})
    BY <1>f, <1>3, <1>5, <2>1 DEF Emits, EmitDeref
  <2> QED  BY <1>1, <2>2
<1>g. CASE EmitIf
  <2>1. Stored(NewBlock(Loaded(Cur.a, Cur.b), << >>)) = {}
    BY <1>g, <1>8, <1>9 DEF EmitIf, At, Arith, AddSub, MulDiv, IfKinds
  <2>2. Emits(Loaded(Cur.a, Cur.b), << >>, {})
    BY <1>g, <1>5, <1>7, <2>1 DEF Emits, EmitIf
  <2> QED  BY <1>1, <2>2
<1>h. CASE EmitCall \/ EmitParam
  <2>1. Stored(NewBlock(<< >>, << >>)) = {Cur.dst.char_val}
    BY <1>h, <1>11 DEF EmitCall, EmitParam, At
  <2>2. Emits(<< >>, << >>, {Cur.dst.char_val})
    BY <1>h, <1>3, <1>4, <1>5, <2>1 DEF Emits, EmitCall, EmitParam, ResultNames
  <2> QED  BY <1>1, <2>2
<1>i. CASE EmitRead
  <2>1. Stored(NewBlock(<<Cur.dst>>, << >>)) = {Cur.dst.char_val}
    BY <1>i, <1>11 DEF EmitRead, At
  <2>2. Emits(<<Cur.dst>>, << >>, {Cur.dst.char_val})
    BY <1>i, <1>3, <1>4, <1>5, <2>1 DEF Emits, EmitRead
  <2> QED  BY <1>1, <2>2
<1>j. CASE EmitWrite
  <2>1. Stored(NewBlock(<< >>, <<Cur.a>>)) = {}
    BY <1>j, <1>8, <1>9 DEF EmitWrite, At, Arith, AddSub, MulDiv
  <2>2. Emits(<< >>, <<Cur.a>>, {})
    BY <1>j, <1>3, <1>5, <2>1 DEF Emits, EmitWrite
  <2> QED  BY <1>1, <2>2
<1> QED
  BY <1>a, <1>b, <1>c, <1>d, <1>e, <1>f, <1>g, <1>h, <1>i, <1>j DEF GenNext

-------------------------------------------------------------------------------
(* The type invariant.                                                     *)
LEMMA GenTypeInit == GenInit => GenTypeOK
<1> SUFFICES ASSUME GenInit PROVE GenTypeOK
  OBVIOUS
<1>1. tacs \in Seq(Instr) /\ Len(tacs) > 0
  BY ProgramsAssumption DEF GenInit
<1>2. asm \in Seq(Block) /\ Len(asm) = tac_code - 1 /\ DOMAIN asm = {}
  BY DEF GenInit
<1>3. tac_code \in 1 .. Len(tacs) + 1 /\ tac_code <= Len(tacs)
  BY <1>1 DEF GenInit
<1> QED
  BY <1>1, <1>2, <1>3 DEF GenInit, GenTypeOK

LEMMA GenTypeStep == GenTypeOK /\ [GenNext]_genVars => GenTypeOK'
<1> SUFFICES ASSUME GenTypeOK, [GenNext]_genVars PROVE GenTypeOK'
  OBVIOUS
<1>1. CASE UNCHANGED genVars
  BY <1>1 DEF GenTypeOK, genVars
<1>2. CASE GenNext
  <2>1. status = "emitting"
    BY <1>2, EveryActionEmits
  <2>2. PICK reads, writes, inserts : Emits(reads, writes, inserts)
    BY <1>2, EveryActionEmits
  <2>3. tacs \in Seq(Instr) /\ tac_code \in 1 .. Len(tacs) /\ Cur \in Instr
    BY <2>1, CurTyped, ProgramsAssumption DEF GenTypeOK
  <2>4. TakenFor(writes) \in Vars \cup {NoVar}
    BY <2>2, TakenForTyped DEF Emits
  <2>5. CASE ~\A o \in Range(reads) \cup Range(writes) : IsVariable(o)
    BY <2>1, <2>2, <2>5 DEF Emits, Emit, GenTypeOK
  <2>6. CASE \A o \in Range(reads) \cup Range(writes) : IsVariable(o)
    <3>1. flag' \in BOOLEAN
      BY <2>2, <2>6 DEF Emits, Emit, FlagAfter, GenTypeOK
    <3>2. t0_var' \in Vars \cup {NoVar}
      BY <2>2, <2>4, <2>6 DEF Emits, Emit, GenTypeOK
    <3>3. \A o \in Range(writes) : o.char_val \in Vars \cup {NoVar}
      BY <2>2 DEF Emits, Range, Opd
    <3>4. vars_set' \subseteq Vars \cup {NoVar}
      <4>1. {o.char_val : o \in Range(writes)} \subseteq Vars \cup {NoVar}
        BY <3>3
      <4>2. inserts \subseteq Vars \cup {NoVar} /\ vars_set \subseteq Vars \cup {NoVar}
        BY <2>2 DEF Emits, GenTypeOK
      <4>3. vars_set' = vars_set \cup inserts \cup {o.char_val : o \in Range(writes)}
        BY <2>2, <2>6 DEF Emits, Emit
      <4> QED  BY <4>1, <4>2, <4>3
    <3>5. NewBlock(reads, writes) \in Block
      BY <2>2, <2>3, <2>4, <2>6, LoadsTyped DEF NewBlock, Block, Emits, GenTypeOK
    <3>6. asm' = Append(asm, NewBlock(reads, writes))
      BY <2>2, <2>6 DEF Emits, Emit, NewBlock
    <3>7. asm' \in Seq(Block) /\ Len(asm') = Len(asm) + 1
      BY <3>5, <3>6 DEF GenTypeOK
    <3>8. tac_code' = tac_code + 1 /\ tacs' = tacs
      BY <2>2, <2>6 DEF Emits, Emit, NextNode
    <3>9. status' = IF tac_code = Len(tacs) THEN "generated" ELSE "emitting"
      BY <2>2, <2>6 DEF Emits, Emit
    <3>10. ASSUME NEW i \in DOMAIN asm'
           PROVE  asm'[i].tac = tacs'[i]
      <4>1. CASE i \in DOMAIN asm
        BY <3>6, <3>8, <4>1 DEF GenTypeOK
      <4>2. CASE i \notin DOMAIN asm
        <5>1. i = tac_code /\ asm'[i] = NewBlock(reads, writes)
          BY <2>3, <3>6, <3>7, <3>10, <4>2 DEF GenTypeOK
        <5> QED  BY <3>8, <5>1 DEF NewBlock, Cur
      <4> QED  BY <4>1, <4>2
    <3> QED
      BY <2>3, <3>1, <3>2, <3>4, <3>7, <3>8, <3>9, <3>10 DEF GenTypeOK
  <2> QED
    BY <2>5, <2>6
<1> QED
  BY <1>1, <1>2

(* For every list of quadruples, the generator's state keeps its types.    *)
THEOREM GenTypeCorrect == GenSpec => []GenTypeOK
<1> QED
  BY GenTypeInit, GenTypeStep, PTL DEF GenSpec

-------------------------------------------------------------------------------
(* The registers of a block: the flag has flipped between two calls.       *)
LEMMA TwoLoadsApart ==
  ASSUME NEW reads \in Seq(Opd), flag \in BOOLEAN, Len(reads) = 2
  PROVE  GetRegisters(reads)[1].reg # GetRegisters(reads)[2].reg
<1>1. DOMAIN reads = 1 .. 2
  OBVIOUS
<1>2. /\ GetRegisters(reads)[1].reg = RegOf(~flag)
      /\ GetRegisters(reads)[2].reg = RegOf(SecondFlag(flag))
  BY <1>1 DEF GetRegisters
<1> QED
  BY <1>2 DEF RegOf, SecondFlag

LEMMA ApartStep == GenTypeOK /\ OperandsApart /\ [GenNext]_genVars => OperandsApart'
<1> SUFFICES ASSUME GenTypeOK, OperandsApart, [GenNext]_genVars PROVE OperandsApart'
  OBVIOUS
<1>1. CASE UNCHANGED asm
  BY <1>1 DEF OperandsApart
<1>2. CASE GenNext /\ asm' # asm
  <2>1. PICK reads, writes, inserts : Emits(reads, writes, inserts)
    BY <1>2, EveryActionEmits
  <2>2. \A o \in Range(reads) \cup Range(writes) : IsVariable(o)
    BY <1>2, <2>1 DEF Emits, Emit
  <2>3. asm' = Append(asm, NewBlock(reads, writes))
    BY <2>1, <2>2 DEF Emits, Emit, NewBlock
  <2>4. Len(GetRegisters(reads)) = Len(reads)
    BY <2>1, <2>2, LoadsTyped DEF Emits, GenTypeOK
  <2>5. Len(reads) = 2 => GetRegisters(reads)[1].reg # GetRegisters(reads)[2].reg
    BY <2>1, TwoLoadsApart DEF Emits, GenTypeOK
  <2>6. NewBlock(reads, writes).ld = GetRegisters(reads)
    BY DEF NewBlock
  <2>7. ASSUME NEW i \in DOMAIN asm', Len(asm'[i].ld) = 2
        PROVE  asm'[i].ld[1].reg # asm'[i].ld[2].reg
    <3>1. asm \in Seq(Block)
      BY DEF GenTypeOK
    <3>2. CASE i \in DOMAIN asm
      BY <2>3, <2>7, <3>1, <3>2 DEF OperandsApart
    <3>3. CASE i \notin DOMAIN asm
      <4>1. asm'[i] = NewBlock(reads, writes)
        BY <2>3, <2>7, <3>1, <3>3
      <4> QED  BY <2>4, <2>5, <2>6, <2>7, <4>1
    <3> QED  BY <3>2, <3>3
  <2> QED
    BY <2>7 DEF OperandsApart
<1> QED
  BY <1>1, <1>2 DEF genVars

(* For every list of quadruples, the two operands of an instruction are in *)
(* different registers.                                                    *)
THEOREM OperandsStayApart == GenSpec => []OperandsApart
<1>1. GenInit => OperandsApart
  BY DEF GenInit, OperandsApart
<1> QED
  BY <1>1, GenTypeCorrect, ApartStep, PTL DEF GenSpec

-------------------------------------------------------------------------------
(* Every emitter that stores a variable has it in vars_set, and vars_set   *)
(* only grows.                                                             *)
LEMMA AllocatedStep == GenTypeOK /\ StoredAllocated /\ [GenNext]_genVars => StoredAllocated'
<1> SUFFICES ASSUME GenTypeOK, StoredAllocated, [GenNext]_genVars PROVE StoredAllocated'
  OBVIOUS
<1>1. CASE UNCHANGED <<asm, vars_set>>
  BY <1>1 DEF StoredAllocated
<1>2. CASE GenNext /\ ~UNCHANGED <<asm, vars_set>>
  <2>1. PICK reads, writes, inserts : Emits(reads, writes, inserts)
    BY <1>2, EveryActionEmits
  <2>2. \A o \in Range(reads) \cup Range(writes) : IsVariable(o)
    BY <1>2, <2>1 DEF Emits, Emit
  <2>3. asm' = Append(asm, NewBlock(reads, writes))
    BY <2>1, <2>2 DEF Emits, Emit, NewBlock
  <2>4. vars_set' = vars_set \cup inserts \cup {o.char_val : o \in Range(writes)}
    BY <2>1, <2>2 DEF Emits, Emit
  <2>5. Stored(NewBlock(reads, writes)) \subseteq vars_set'
    BY <2>1, <2>4 DEF Emits
  <2>6. ASSUME NEW i \in DOMAIN asm'
        PROVE  Stored(asm'[i]) \subseteq vars_set'
    <3>1. asm \in Seq(Block)
      BY DEF GenTypeOK
    <3>2. CASE i \in DOMAIN asm
      <4>1. asm'[i] = asm[i]
        BY <2>3, <3>1, <3>2
      <4>2. Stored(asm[i]) \subseteq vars_set
        BY <3>2 DEF StoredAllocated
      <4> QED  BY <2>4, <4>1, <4>2
    <3>3. CASE i \notin DOMAIN asm
      <4>1. asm'[i] = NewBlock(reads, writes)
        BY <2>3, <2>6, <3>1, <3>3
      <4> QED  BY <2>5, <4>1
    <3> QED  BY <3>2, <3>3
  <2> QED
    BY <2>6 DEF StoredAllocated
<1> QED
  BY <1>1, <1>2 DEF genVars

(* For every list of quadruples, what the printed code stores gets its word*)
(* of .data and its slot of pushvars.                                      *)
THEOREM StoredIsAllocated == GenSpec => []StoredAllocated
<1>1. GenInit => StoredAllocated
  BY DEF GenInit, StoredAllocated
<1> QED
  BY <1>1, GenTypeCorrect, AllocatedStep, PTL DEF GenSpec

-------------------------------------------------------------------------------
(* The asserts of get_register and get_register_w: the walk stops at the   *)
(* first quadruple whose operands do not fit, and nowhere else.            *)
AbortsAtTheFirst ==
  /\ \A i \in 1 .. tac_code - 1 : OperandsFit(tacs[i])
  /\ status = "aborted" => tac_code \in DOMAIN tacs /\ ~OperandsFit(tacs[tac_code])

LEMMA RangesOfTuples ==
  /\ Range(<< >>) = {}
  /\ \A o : Range(<<o>>) = {o}
  /\ \A o, u : Range(<<o, u>>) = {o, u}
<1>1. Range(<< >>) = {}
  <2>1. DOMAIN << >> = {}
    OBVIOUS
  <2> QED  BY <2>1 DEF Range
<1>2. ASSUME NEW o PROVE Range(<<o>>) = {o}
  <2>1. DOMAIN <<o>> = {1} /\ <<o>>[1] = o
    OBVIOUS
  <2> QED  BY <2>1 DEF Range
<1>3. ASSUME NEW o, NEW u PROVE Range(<<o, u>>) = {o, u}
  <2>1. DOMAIN <<o, u>> = {1, 2} /\ <<o, u>>[1] = o /\ <<o, u>>[2] = u
    OBVIOUS
  <2> QED  BY <2>1 DEF Range
<1> QED
  BY <1>1, <1>2, <1>3

LEMMA RangeOfLoaded ==
  ASSUME NEW c1, NEW c2
  PROVE  (\A o \in Range(Loaded(c1, c2)) : IsVariable(o))
           <=> Operand(c1) /\ Operand(c2) /\ (IsVariable(c1) \/ IsVariable(c2))
<1>1. \A o : ~(IsVariable(o) /\ IsConstant(o))
  BY DEF IsVariable, IsConstant
<1>2. CASE IsConstant(c1)
  <2>1. Range(Loaded(c1, c2)) = {c2}
    BY <1>2, RangesOfTuples DEF Loaded
  <2> QED  BY <1>1, <1>2, <2>1 DEF Operand
<1>3. CASE ~IsConstant(c1) /\ IsConstant(c2)
  <2>1. Range(Loaded(c1, c2)) = {c1}
    BY <1>3, RangesOfTuples DEF Loaded
  <2> QED  BY <1>1, <1>3, <2>1 DEF Operand
<1>4. CASE ~IsConstant(c1) /\ ~IsConstant(c2)
  <2>1. Range(Loaded(c1, c2)) = {c1, c2}
    BY <1>4, RangesOfTuples DEF Loaded
  <2> QED  BY <1>1, <1>4, <2>1 DEF Operand
<1> QED
  BY <1>2, <1>3, <1>4

(* The operands an emitter of Mul and Div hands to the two getters.        *)
LEMMA RangeOfMulDiv ==
  ASSUME NEW d \in Opd, NEW c1 \in Opd, NEW c2 \in Opd
  PROVE  (\A o \in Range(Loaded(c1, c2)) \cup Range(<<d>> \o ConstantsOf(c1, c2)) : IsVariable(o))
           <=> IsVariable(d) /\ IsVariable(c1) /\ IsVariable(c2)
<1> DEFINE writes == <<d>> \o ConstantsOf(c1, c2)
<1>1. \A o : ~(IsVariable(o) /\ IsConstant(o))
  BY DEF IsVariable, IsConstant
<1>2. CASE IsConstant(c1) \/ IsConstant(c2)
  <2>1. PICK k \in {c1, c2} : IsConstant(k) /\ ConstantsOf(c1, c2) = <<k>>
    BY <1>2 DEF ConstantsOf
  <2>2. k \in Range(writes)
    <3>1. <<d>> \in Seq(Opd) /\ <<k>> \in Seq(Opd) /\ Len(<<d>>) = 1 /\ Len(<<k>>) = 1
          /\ <<k>>[1] = k
      BY <2>1
    <3>2. 2 \in DOMAIN writes /\ writes[2] = k
      BY <2>1, <3>1
    <3> HIDE DEF writes
    <3> QED  BY <3>2 DEF Range
  <2> QED  BY <1>1, <1>2, <2>1, <2>2
<1>3. CASE ~IsConstant(c1) /\ ~IsConstant(c2)
  <2>1. ConstantsOf(c1, c2) = << >>
    BY <1>3 DEF ConstantsOf
  <2>2. writes = <<d>>
    BY <2>1
  <2>3. Range(writes) = {d} /\ Range(Loaded(c1, c2)) = {c1, c2}
    <3>1. Loaded(c1, c2) = <<c1, c2>>
      BY <1>3 DEF Loaded
    <3> HIDE DEF writes
    <3> QED  BY <2>2, <3>1, RangesOfTuples
  <2> HIDE DEF writes
  <2>4. (\A o \in Range(Loaded(c1, c2)) \cup Range(writes) : IsVariable(o))
          <=> IsVariable(d) /\ IsVariable(c1) /\ IsVariable(c2)
    BY <2>3
  <2> QED  BY <2>4 DEF writes
<1> QED
  BY <1>2, <1>3

(* Each emitter's getters accept exactly the operands that fit.            *)
Accepts(reads, writes) == \A o \in Range(reads) \cup Range(writes) : IsVariable(o)

LEMMA EmittersAssert ==
  ASSUME GenTypeOK, GenNext
  PROVE  \E reads, writes, inserts : /\ Emit(reads, writes, inserts)
                                     /\ Accepts(reads, writes) <=> OperandsFit(Cur)
<1>1. status = "emitting"
  BY EveryActionEmits
<1>2. Cur.dst \in Opd /\ Cur.a \in Opd /\ Cur.b \in Opd
  BY <1>1, CurTyped DEF Instr
<1>3. \A o : ~(IsVariable(o) /\ IsConstant(o))
  BY DEF IsVariable, IsConstant
<1>a. CASE \/ EmitNone \/ EmitLabel \/ EmitGoto \/ EmitDec
           \/ EmitArg \/ EmitReturn \/ EmitCall \/ EmitParam
  <2>1. OperandsFit(Cur)
    BY <1>a DEF EmitNone, EmitLabel, EmitGoto, EmitDec, EmitArg, EmitReturn,
                EmitCall, EmitParam, At, OperandsFit,
                Arith, AddSub, MulDiv, IfKinds
  <2>2. Accepts(<< >>, << >>)
    BY RangesOfTuples DEF Accepts
  <2> QED  BY <1>a, <2>1, <2>2 DEF EmitNone, EmitLabel, EmitGoto, EmitDec, EmitArg,
                                     EmitReturn, EmitCall, EmitParam
<1>b. CASE EmitAssign
  <2> DEFINE reads == IF IsConstant(Cur.a) THEN << >> ELSE <<Cur.a>>
  <2>1. OperandsFit(Cur) <=> IsVariable(Cur.dst) /\ Operand(Cur.a)
    BY <1>b DEF EmitAssign, At, OperandsFit, Arith, AddSub, MulDiv, IfKinds
  <2>2. Range(reads) = IF IsConstant(Cur.a) THEN {} ELSE {Cur.a}
    BY RangesOfTuples
  <2>3. Accepts(reads, <<Cur.dst>>) <=> IsVariable(Cur.dst) /\ Operand(Cur.a)
    BY <1>3, <2>2, RangesOfTuples DEF Accepts, Operand
  <2> QED  BY <1>b, <2>1, <2>3 DEF EmitAssign
<1>c. CASE EmitAddSub
  <2>1. OperandsFit(Cur) <=> /\ IsVariable(Cur.dst) /\ Operand(Cur.a) /\ Operand(Cur.b)
                             /\ IsVariable(Cur.a) \/ IsVariable(Cur.b)
    BY <1>c DEF EmitAddSub, At, OperandsFit, Arith, AddSub, MulDiv, IfKinds
  <2>2. Accepts(Loaded(Cur.a, Cur.b), <<Cur.dst>>)
          <=> IsVariable(Cur.dst) /\ \A o \in Range(Loaded(Cur.a, Cur.b)) : IsVariable(o)
    BY RangesOfTuples DEF Accepts
  <2> QED  BY <1>c, <2>1, <2>2, RangeOfLoaded DEF EmitAddSub
<1>d. CASE EmitMulDiv
  <2>1. OperandsFit(Cur) <=> IsVariable(Cur.dst) /\ IsVariable(Cur.a) /\ IsVariable(Cur.b)
    BY <1>d DEF EmitMulDiv, At, OperandsFit, Arith, AddSub, MulDiv, IfKinds
  <2>2. Accepts(Loaded(Cur.a, Cur.b), <<Cur.dst>> \o ConstantsOf(Cur.a, Cur.b))
          <=> IsVariable(Cur.dst) /\ IsVariable(Cur.a) /\ IsVariable(Cur.b)
    BY <1>2, RangeOfMulDiv DEF Accepts
  <2> QED  BY <1>d, <2>1, <2>2 DEF EmitMulDiv
<1>e. CASE EmitAddrFetch
  <2>1. OperandsFit(Cur) <=> IsVariable(Cur.dst) /\ IsVariable(Cur.a)
    BY <1>e DEF EmitAddrFetch, At, OperandsFit, Arith, AddSub, MulDiv, IfKinds
  <2>2. Accepts(<<Cur.a>>, <<Cur.dst>>) <=> IsVariable(Cur.dst) /\ IsVariable(Cur.a)
    BY RangesOfTuples DEF Accepts
  <2> QED  BY <1>e, <2>1, <2>2 DEF EmitAddrFetch
<1>f. CASE EmitDeref
  <2>1. OperandsFit(Cur) <=> IsVariable(Cur.a) /\ IsVariable(Cur.b)
    BY <1>f DEF EmitDeref, At, OperandsFit, Arith, AddSub, MulDiv, IfKinds
  <2>2. Accepts(<<Cur.a, Cur.b>>, << >>) <=> IsVariable(Cur.a) /\ IsVariable(Cur.b)
    BY RangesOfTuples DEF Accepts
  <2> QED  BY <1>f, <2>1, <2>2 DEF EmitDeref
<1>g. CASE EmitIf
  <2>1. OperandsFit(Cur) <=> /\ Operand(Cur.a) /\ Operand(Cur.b)
                             /\ IsVariable(Cur.a) \/ IsVariable(Cur.b)
    BY <1>g DEF EmitIf, At, OperandsFit, Arith, AddSub, MulDiv, IfKinds
  <2>2. Accepts(Loaded(Cur.a, Cur.b), << >>)
          <=> \A o \in Range(Loaded(Cur.a, Cur.b)) : IsVariable(o)
    BY RangesOfTuples DEF Accepts
  <2> QED  BY <1>g, <2>1, <2>2, RangeOfLoaded DEF EmitIf
<1>h. CASE EmitRead
  <2>1. OperandsFit(Cur) <=> IsVariable(Cur.dst)
    BY <1>h DEF EmitRead, At, OperandsFit, Arith, AddSub, MulDiv, IfKinds
  <2>2. Accepts(<<Cur.dst>>, << >>) <=> IsVariable(Cur.dst)
    BY RangesOfTuples DEF Accepts
  <2> QED  BY <1>h, <2>1, <2>2 DEF EmitRead
<1>i. CASE EmitWrite
  <2>1. OperandsFit(Cur) <=> IsVariable(Cur.a)
    BY <1>i DEF EmitWrite, At, OperandsFit, Arith, AddSub, MulDiv, IfKinds
  <2>2. Accepts(<< >>, <<Cur.a>>) <=> IsVariable(Cur.a)
    BY RangesOfTuples DEF Accepts
  <2> QED  BY <1>i, <2>1, <2>2 DEF EmitWrite
<1> QED
  BY <1>a, <1>b, <1>c, <1>d, <1>e, <1>f, <1>g, <1>h, <1>i DEF GenNext

LEMMA AbortsStep == GenTypeOK /\ AbortsAtTheFirst /\ [GenNext]_genVars => AbortsAtTheFirst'
<1> SUFFICES ASSUME GenTypeOK, AbortsAtTheFirst, [GenNext]_genVars PROVE AbortsAtTheFirst'
  OBVIOUS
<1>1. CASE UNCHANGED genVars
  BY <1>1 DEF genVars, AbortsAtTheFirst
<1>2. CASE GenNext
  <2>1. status = "emitting" /\ tac_code \in 1 .. Len(tacs)
    BY <1>2, EveryActionEmits, CurTyped
  <2>2. tacs \in Seq(Instr)
    BY ProgramsAssumption DEF GenTypeOK
  <2>3. PICK reads, writes, inserts : /\ Emit(reads, writes, inserts)
                                      /\ Accepts(reads, writes) <=> OperandsFit(Cur)
    BY <1>2, EmittersAssert
  <2>4. CASE OperandsFit(Cur)
    <3>1. tacs' = tacs /\ tac_code' = tac_code + 1 /\ status' # "aborted"
      BY <2>3, <2>4 DEF Emit, Accepts, NextNode
    <3> QED  BY <2>1, <2>4, <3>1 DEF AbortsAtTheFirst, Cur
  <2>5. CASE ~OperandsFit(Cur)
    <3>1. tacs' = tacs /\ tac_code' = tac_code
      BY <2>3, <2>5 DEF Emit, Accepts
    <3> QED  BY <2>1, <2>2, <2>5, <3>1 DEF AbortsAtTheFirst, Cur
  <2> QED  BY <2>4, <2>5
<1> QED
  BY <1>1, <1>2

(* For every list of quadruples, the generator's asserts let through the   *)
(* ones whose operands fit, and stop it at the first other one.            *)
THEOREM StopsAtTheFirst == GenSpec => []AbortsAtTheFirst
<1>1. GenInit => AbortsAtTheFirst
  BY DEF GenInit, AbortsAtTheFirst
<1> QED
  BY <1>1, GenTypeCorrect, AbortsStep, PTL DEF GenSpec

(* And so no assert of the generator fails on a list of quadruples whose   *)
(* operands all fit.                                                       *)
THEOREM FitNeverAborts ==
  GenSpec /\ (\A i \in DOMAIN tacs : OperandsFit(tacs[i])) => []NoAssertFails
<1> DEFINE Fit == \A i \in DOMAIN tacs : OperandsFit(tacs[i])
<1>1. GenTypeOK /\ Fit /\ [GenNext]_genVars => Fit'
  <2> SUFFICES ASSUME GenTypeOK, Fit, [GenNext]_genVars PROVE Fit'
    OBVIOUS
  <2>1. tacs' = tacs
    <3>1. CASE GenNext
      <4>1. PICK reads, writes, inserts : Emits(reads, writes, inserts)
        BY <3>1, EveryActionEmits
      <4> QED  BY <4>1 DEF Emits, Emit
    <3>2. CASE UNCHANGED genVars
      BY <3>2 DEF genVars
    <3> QED  BY <3>1, <3>2
  <2> QED  BY <2>1
<1>2. Fit /\ AbortsAtTheFirst => NoAssertFails
  BY DEF AbortsAtTheFirst, NoAssertFails
<1> HIDE DEF Fit
<1>3. GenSpec /\ Fit => []NoAssertFails
  BY <1>1, <1>2, GenTypeCorrect, StopsAtTheFirst, PTL DEF GenSpec
<1> QED
  BY <1>3 DEF Fit

==============================================================================
