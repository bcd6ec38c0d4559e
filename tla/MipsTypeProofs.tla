---------------------------- MODULE MipsTypeProofs ----------------------------
(***************************************************************************)
(* The type invariant of the running program, and what it needs: that the  *)
(* blocks load what their quadruples read, and that the words pushvars     *)
(* pushes are those of .data, one in each slot.                            *)
(***************************************************************************)
EXTENDS MipsRunProofs

-------------------------------------------------------------------------------
(* The slots of a set of names ordered by Rank: each name has one of its   *)
(* own among 0 .. Cardinality - 1, and none of them is empty.              *)
Before(S, v) == {u \in S : Rank[u] < Rank[v]}

LEMMA BeforeIsBijection ==
  ASSUME NEW S, S \subseteq Vars
  PROVE  /\ IsFiniteSet(S) /\ Cardinality(S) \in Nat
         /\ \A v \in S : Cardinality(Before(S, v)) \in 0 .. Cardinality(S) - 1
         /\ \A u, v \in S : Cardinality(Before(S, u)) = Cardinality(Before(S, v)) => u = v
         /\ \A n \in 0 .. Cardinality(S) - 1 : \E v \in S : Cardinality(Before(S, v)) = n
<1> DEFINE slot == [v \in S |-> Cardinality(Before(S, v))]
           Slots == 0 .. Cardinality(S) - 1
<1>1. IsFiniteSet(S) /\ Cardinality(S) \in Nat
  BY MachineAssumption, FS_Subset, FS_CardinalityType
<1>2. \A v \in S : Rank[v] \in Nat
  BY MachineAssumption
<1>3. ASSUME NEW v \in S
      PROVE  Cardinality(Before(S, v)) \in Slots /\ IsFiniteSet(Before(S, v))
  <2>1. Before(S, v) \subseteq S /\ v \notin Before(S, v)
    BY <1>2 DEF Before
  <2>2. /\ IsFiniteSet(Before(S, v)) /\ Cardinality(Before(S, v)) <= Cardinality(S)
        /\ Cardinality(Before(S, v)) = Cardinality(S) => Before(S, v) = S
    BY <1>1, <2>1, FS_Subset
  <2>3. Cardinality(Before(S, v)) \in Nat
    BY <2>2, FS_CardinalityType
  <2> QED  BY <1>1, <2>1, <2>2, <2>3
<1>4. ASSUME NEW u \in S, NEW v \in S, Rank[u] < Rank[v]
      PROVE  Cardinality(Before(S, u)) # Cardinality(Before(S, v))
  <2>1. Before(S, u) \subseteq Before(S, v)
    BY <1>2, <1>4 DEF Before
  <2>2. u \in Before(S, v) /\ u \notin Before(S, u)
    BY <1>2, <1>4 DEF Before
  <2> QED  BY <1>3, <2>1, <2>2, FS_Subset
<1>5. ASSUME NEW u \in S, NEW v \in S, Cardinality(Before(S, u)) = Cardinality(Before(S, v))
      PROVE  u = v
  <2>1. ~(Rank[u] < Rank[v]) /\ ~(Rank[v] < Rank[u])
    BY <1>4, <1>5
  <2>2. Rank[u] = Rank[v]
    BY <1>2, <2>1
  <2> QED  BY <2>2, MachineAssumption
<1>6. IsFiniteSet(Slots) /\ Cardinality(Slots) = Cardinality(S)
  <2>1. IsFiniteSet(0 .. Cardinality(S) - 1)
        /\ Cardinality(0 .. Cardinality(S) - 1)
             = IF 0 > Cardinality(S) - 1 THEN 0 ELSE (Cardinality(S) - 1) - 0 + 1
    BY SMTT(60), <1>1, FS_Interval
  <2> QED  BY <1>1, <2>1
<1>7. slot \in Injection(S, Slots)
  <2>1. slot \in [S -> Slots]
    BY <1>3
  <2>2. \A u, v \in S : slot[u] = slot[v] => u = v
    BY <1>5
  <2> QED  BY <2>1, <2>2 DEF Injection, IsInjective
<1>8. slot \in Surjection(S, Slots)
  BY <1>6, <1>7, FS_Injection
<1>9. \A n \in Slots : \E v \in S : slot[v] = n
  BY <1>8 DEF Surjection
<1> QED
  BY <1>1, <1>3, <1>5, <1>9

LEMMA SlotsFilled ==
  ASSUME vars_set \subseteq Vars
  PROVE  /\ NumVars \in Nat
         /\ \A v \in vars_set : Slot(v) \in 0 .. NumVars - 1
         /\ \A u, v \in vars_set : Slot(u) = Slot(v) => u = v
         /\ \A n \in 0 .. NumVars - 1 : \E v \in vars_set : Slot(v) = n
<1>1. \A v : Slot(v) = Cardinality(Before(vars_set, v))
  BY DEF Slot, Before
<1> QED
  BY <1>1, BeforeIsBijection DEF NumVars

-------------------------------------------------------------------------------
(* What an emitter hands to the getters, by the kind of its quadruple, and *)
(* what a block therefore has in it.                                       *)
ReadsOf(c) == CASE c.kind = "ASSIGN" -> IF IsConstant(c.a) THEN << >> ELSE <<c.a>>
                [] c.kind \in Arith \cup IfKinds -> Loaded(c.a, c.b)
                [] c.kind \in {"ADDR", "FETCH"} -> <<c.a>>
                [] c.kind = "DEREF" -> <<c.a, c.b>>
                [] c.kind = "READ" -> <<c.dst>>
                [] OTHER -> << >>
WritesOf(c) == CASE c.kind \in AddSub \cup {"ASSIGN", "ADDR", "FETCH"} -> <<c.dst>>
                 [] c.kind \in MulDiv -> <<c.dst>> \o ConstantsOf(c.a, c.b)
                 [] c.kind = "WRITE" -> <<c.a>>
                 [] OTHER -> << >>
InsertsOf(c) == IF c.kind \in {"CALL", "PARAM", "READ"} THEN {c.dst.char_val} ELSE {}

Faithful(c, b) ==
  /\ b.t0 = TakenFor(WritesOf(c))
  /\ DOMAIN b.ld = DOMAIN ReadsOf(c)
  /\ \A k \in DOMAIN b.ld : b.ld[k].var = ReadsOf(c)[k].char_val
  /\ \A o \in Range(ReadsOf(c)) \cup Range(WritesOf(c)) : IsVariable(o)
BlocksFaithful == \A i \in DOMAIN asm : Faithful(tacs[i], asm[i])
NamesOnly == vars_set \subseteq Vars

LEMMA EmitsOwn ==
  ASSUME GenNext
  PROVE  Emit(ReadsOf(Cur), WritesOf(Cur), InsertsOf(Cur))
<1>a. CASE EmitNone \/ EmitLabel \/ EmitGoto \/ EmitDec \/ EmitArg \/ EmitReturn
  <2>1. ReadsOf(Cur) = << >> /\ WritesOf(Cur) = << >>
        /\ InsertsOf(Cur) = {}
    BY <1>a DEF InsertsOf, EmitNone, EmitLabel, EmitGoto, EmitDec, EmitArg, EmitReturn, At,
                ReadsOf, WritesOf, Arith, AddSub,
                MulDiv, IfKinds
  <2> QED  BY <1>a, <2>1 DEF EmitNone, EmitLabel, EmitGoto, EmitDec, EmitArg, EmitReturn
<1>b. CASE EmitAssign
  <2>1. ReadsOf(Cur) = (IF IsConstant(Cur.a) THEN << >> ELSE <<Cur.a>>)
        /\ WritesOf(Cur) = <<Cur.dst>>
        /\ InsertsOf(Cur) = {}
    BY <1>b DEF InsertsOf, EmitAssign, At, ReadsOf, WritesOf, Arith, AddSub, MulDiv, IfKinds
  <2> QED  BY <1>b, <2>1 DEF EmitAssign
<1>c. CASE EmitAddSub
  <2>1. ReadsOf(Cur) = Loaded(Cur.a, Cur.b) /\ WritesOf(Cur) = <<Cur.dst>>
        /\ InsertsOf(Cur) = {}
    BY <1>c DEF InsertsOf, EmitAddSub, At, ReadsOf, WritesOf, Arith, AddSub, MulDiv, IfKinds
  <2> QED  BY <1>c, <2>1 DEF EmitAddSub
<1>d. CASE EmitMulDiv
  <2>1. ReadsOf(Cur) = Loaded(Cur.a, Cur.b)
        /\ WritesOf(Cur) = <<Cur.dst>> \o ConstantsOf(Cur.a, Cur.b)
        /\ InsertsOf(Cur) = {}
    BY <1>d DEF InsertsOf, EmitMulDiv, At, ReadsOf, WritesOf, Arith, AddSub, MulDiv, IfKinds
  <2> QED  BY <1>d, <2>1 DEF EmitMulDiv
<1>e. CASE EmitAddrFetch
  <2>1. ReadsOf(Cur) = <<Cur.a>> /\ WritesOf(Cur) = <<Cur.dst>>
        /\ InsertsOf(Cur) = {}
    BY <1>e DEF InsertsOf, EmitAddrFetch, At, ReadsOf, WritesOf, Arith, AddSub, MulDiv, IfKinds
  <2> QED  BY <1>e, <2>1 DEF EmitAddrFetch
<1>f. CASE EmitDeref
  <2>1. ReadsOf(Cur) = <<Cur.a, Cur.b>> /\ WritesOf(Cur) = << >>
        /\ InsertsOf(Cur) = {}
    BY <1>f DEF InsertsOf, EmitDeref, At, ReadsOf, WritesOf, Arith, AddSub, MulDiv, IfKinds
  <2> QED  BY <1>f, <2>1 DEF EmitDeref
<1>g. CASE EmitIf
  <2>1. ReadsOf(Cur) = Loaded(Cur.a, Cur.b) /\ WritesOf(Cur) = << >>
        /\ InsertsOf(Cur) = {}
    BY <1>g DEF InsertsOf, EmitIf, At, ReadsOf, WritesOf, Arith, AddSub, MulDiv, IfKinds
  <2> QED  BY <1>g, <2>1 DEF EmitIf
<1>h. CASE EmitCall \/ EmitParam
  <2>1. ReadsOf(Cur) = << >> /\ WritesOf(Cur) = << >>
        /\ InsertsOf(Cur) = {Cur.dst.char_val}
    BY <1>h DEF InsertsOf, EmitCall, EmitParam, At, ReadsOf, WritesOf, Arith, AddSub, MulDiv, IfKinds
  <2> QED  BY <1>h, <2>1 DEF EmitCall, EmitParam, ResultNames
<1>i. CASE EmitRead
  <2>1. ReadsOf(Cur) = <<Cur.dst>> /\ WritesOf(Cur) = << >>
        /\ InsertsOf(Cur) = {Cur.dst.char_val}
    BY <1>i DEF InsertsOf, EmitRead, At, ReadsOf, WritesOf, Arith, AddSub, MulDiv, IfKinds
  <2> QED  BY <1>i, <2>1 DEF EmitRead
<1>j. CASE EmitWrite
  <2>1. ReadsOf(Cur) = << >> /\ WritesOf(Cur) = <<Cur.a>>
        /\ InsertsOf(Cur) = {}
    BY <1>j DEF InsertsOf, EmitWrite, At, ReadsOf, WritesOf, Arith, AddSub, MulDiv, IfKinds
  <2> QED  BY <1>j, <2>1 DEF EmitWrite
<1> QED
  BY <1>a, <1>b, <1>c, <1>d, <1>e, <1>f, <1>g, <1>h, <1>i, <1>j DEF GenNext

LEMMA OwnTyped ==
  ASSUME NEW c \in Instr
  PROVE  ReadsOf(c) \in Seq(Opd) /\ Len(ReadsOf(c)) \in 0 .. 2 /\ WritesOf(c) \in Seq(Opd)
<1>1. c.dst \in Opd /\ c.a \in Opd /\ c.b \in Opd
  BY DEF Instr
<1>2. /\ << >> \in Seq(Opd) /\ Len(<< >>) = 0
      /\ \A o \in Opd : <<o>> \in Seq(Opd) /\ Len(<<o>>) = 1
      /\ \A o, p \in Opd : <<o, p>> \in Seq(Opd) /\ Len(<<o, p>>) = 2
  OBVIOUS
<1>3. ReadsOf(c) \in Seq(Opd) /\ Len(ReadsOf(c)) \in 0 .. 2
  BY <1>1, <1>2 DEF ReadsOf, Loaded
<1>4. <<c.dst>> \o ConstantsOf(c.a, c.b) \in Seq(Opd)
  BY <1>1, <1>2 DEF ConstantsOf
<1>5. WritesOf(c) \in Seq(Opd)
  BY <1>1, <1>2, <1>4 DEF WritesOf
<1> QED
  BY <1>3, <1>5

LEMMA FaithfulStep ==
  GenTypeOK /\ BlocksFaithful /\ NamesOnly /\ [GenNext]_genVars => BlocksFaithful' /\ NamesOnly'
<1> SUFFICES ASSUME GenTypeOK, BlocksFaithful, NamesOnly, [GenNext]_genVars
             PROVE  BlocksFaithful' /\ NamesOnly'
  OBVIOUS
<1>1. CASE UNCHANGED <<tacs, asm, vars_set>>
  BY <1>1 DEF BlocksFaithful, NamesOnly
<1>2. CASE GenNext /\ ~UNCHANGED <<tacs, asm, vars_set>>
  <2> DEFINE reads == ReadsOf(Cur)
             writes == WritesOf(Cur)
             inserts == InsertsOf(Cur)
  <2>1. Emit(reads, writes, inserts)
    BY <1>2, EmitsOwn
  <2>2. \A o \in Range(reads) \cup Range(writes) : IsVariable(o)
    BY <1>2, <2>1 DEF Emit
  <2>3. /\ asm' = Append(asm, NewBlock(reads, writes)) /\ tacs' = tacs
        /\ vars_set' = vars_set \cup inserts \cup {o.char_val : o \in Range(writes)}
    BY <2>1, <2>2 DEF Emit, NewBlock
  <2>4. /\ tac_code \in 1 .. Len(tacs) /\ Cur \in Instr /\ asm \in Seq(Block)
        /\ Len(asm) = tac_code - 1 /\ tacs \in Programs /\ tacs \in Seq(Instr)
    BY <1>2, EveryActionEmits, CurTyped, ProgramsAssumption DEF GenTypeOK
  <2>5. reads \in Seq(Opd) /\ writes \in Seq(Opd)
    BY <2>4, OwnTyped
  <2>6. NamesOnly'
    <3>1. \A o \in Range(writes) : o.char_val \in Vars
      BY <2>2, <2>5 DEF Range, Opd, IsVariable
    <3>2. ASSUME Cur.kind \in {"CALL", "PARAM", "READ"}
          PROVE  Cur.dst.char_val \in Vars
      <4>1. IsVariable(tacs[tac_code].dst) /\ tacs[tac_code].dst \in Opd
        BY <2>4, <3>2, PlacesNamed DEF Cur, Instr
      <4> QED  BY <4>1 DEF Cur, Opd, IsVariable
    <3>3. inserts \subseteq Vars
      BY <3>2 DEF InsertsOf
    <3>4. {o.char_val : o \in Range(writes)} \subseteq Vars
      BY <3>1
    <3> QED  BY <2>3, <3>3, <3>4 DEF NamesOnly
  <2>7. Faithful(Cur, NewBlock(reads, writes))
    <3>1. /\ NewBlock(reads, writes).t0 = TakenFor(writes)
          /\ NewBlock(reads, writes).ld = GetRegisters(reads)
      BY DEF NewBlock
    <3>2. /\ DOMAIN GetRegisters(reads) = DOMAIN reads
          /\ \A k \in DOMAIN reads : GetRegisters(reads)[k].var = reads[k].char_val
      BY DEF GetRegisters
    <3> QED  BY <2>2, <3>1, <3>2 DEF Faithful
  <2>8. ASSUME NEW i \in DOMAIN asm'
        PROVE  Faithful(tacs'[i], asm'[i])
    <3>1. CASE i \in DOMAIN asm
      BY <2>3, <2>4, <3>1 DEF BlocksFaithful
    <3>2. CASE i \notin DOMAIN asm
      <4>1. i = tac_code /\ asm'[i] = NewBlock(reads, writes)
        BY <2>3, <2>4, <2>8, <3>2
      <4> QED  BY <2>3, <2>7, <4>1 DEF Cur
    <3> QED  BY <3>1, <3>2
  <2>9. BlocksFaithful'
    BY <2>8 DEF BlocksFaithful
  <2> QED  BY <2>6, <2>9
<1> QED
  BY <1>1, <1>2 DEF genVars

-------------------------------------------------------------------------------
(* The running machine's own types, and that nothing runs that does not    *)
(* link.                                                                   *)
MachineTyped ==
  /\ phase \in {"compile", "run", "halted", "unresolved", "foreign", "fault"}
  /\ resume \in BOOLEAN
  /\ t \in [TRegs -> Int] /\ t4 \in Int /\ v0 \in Int
  /\ mem \in [Vars -> Int]
  /\ stack \in [0 .. StackWords - 1 -> Int]
  /\ out \in Seq(Int)
Linked == phase = "run" => Resolves

TypeInv == /\ GenTypeOK /\ OperandsApart /\ BlocksFaithful /\ NamesOnly
           /\ StackInv /\ MachineTyped /\ Linked

(* The rest of TypeOK is about $sp, $s0, $ra and the frames.               *)
LEMMA TypeInvTypes == TypeInv => TypeOK
<1> SUFFICES ASSUME TypeInv PROVE TypeOK
  OBVIOUS
<1>1. /\ sp \in 0 .. StackWords /\ s0 \in Nat /\ StackWords \in Nat
      /\ bases \in Seq(0 .. StackWords) /\ sp + s0 = Top(bases)
  BY MachineAssumption DEF TypeInv, StackInv, StackTypes, StackShape
<1>2. Top(bases) \in 0 .. StackWords
  BY <1>1 DEF Top
<1>3. s0 \in 0 .. StackWords
  BY <1>1, <1>2
<1>4. ra \in 0 .. Len(tacs)
  <2>1. tacs \in Seq(Instr)
    BY ProgramsAssumption DEF TypeInv, GenTypeOK
  <2>2. ra = 0 \/ ra \in DOMAIN tacs
    BY DEF TypeInv, StackInv, ReturnsToCall, IsCall
  <2> QED  BY <2>1, <2>2
<1> QED
  BY <1>1, <1>3, <1>4 DEF TypeInv, MachineTyped, TypeOK, StackInv, StackTypes

LEMMA RunningBlock ==
  ASSUME TypeInv, phase = "run", pc \in DOMAIN asm
  PROVE  /\ q \in Instr /\ blk.ld \in Seq(Load) /\ Faithful(q, blk)
         /\ ReadsOf(q) \in Seq(Opd) /\ Len(blk.ld) = Len(ReadsOf(q)) /\ Len(blk.ld) \in 0 .. 2
         /\ Len(blk.ld) = 2 => blk.ld[1].reg # blk.ld[2].reg
         /\ q.kind \in {"ARG", "RETURN"} => IsConstant(q.a) \/ q.a.char_val \in Vars
<1>1. /\ pc \in DOMAIN tacs /\ q = tacs[pc] /\ tacs \in Seq(Instr) /\ asm \in Seq(Block)
  BY BlockAtPc, ProgramsAssumption DEF TypeInv, GenTypeOK
<1>2. q \in Instr /\ blk.ld \in Seq(Load)
  <2>1. blk \in Block
    BY <1>1 DEF blk
  <2>2. q \in Instr
    BY <1>1
  <2> QED  BY <2>1, <2>2 DEF Block
<1>3. Faithful(q, blk)
  BY <1>1 DEF TypeInv, BlocksFaithful, blk
<1>4. ReadsOf(q) \in Seq(Opd) /\ Len(ReadsOf(q)) \in 0 .. 2
  BY <1>2, OwnTyped
<1>5. Len(blk.ld) = Len(ReadsOf(q))
  BY <1>2, <1>3, <1>4 DEF Faithful
<1>6. Len(blk.ld) = 2 => blk.ld[1].reg # blk.ld[2].reg
  BY DEF TypeInv, OperandsApart, blk
<1>7. q.kind \in {"ARG", "RETURN"} => IsConstant(q.a) \/ q.a.char_val \in Vars
  <2>1. Names(blk) \subseteq vars_set
    BY DEF TypeInv, Linked, Resolves, Words, blk
  <2>2. ByName(q) \subseteq Vars
    BY <2>1 DEF TypeInv, NamesOnly, Names, q
  <2> QED  BY <2>2 DEF ByName
<1> QED
  BY <1>2, <1>3, <1>4, <1>5, <1>6, <1>7

(* What the loads of a block leave in the registers.                       *)
LEMMA LoadedValues ==
  ASSUME TypeInv, phase = "run", pc \in DOMAIN asm
  PROVE  /\ AfterLoads \in [TRegs -> Int]
         /\ \A k \in DOMAIN blk.ld : /\ blk.ld[k].reg \in TRegs /\ blk.ld[k].var \in Vars
                                     /\ AfterLoads[blk.ld[k].reg] = mem[blk.ld[k].var]
<1> DEFINE ks(r) == {k \in DOMAIN blk.ld : blk.ld[k].reg = r}
           last(r) == CHOOSE k \in ks(r) : \A j \in ks(r) : j <= k
<1>1. /\ blk.ld \in Seq(Load) /\ DOMAIN blk.ld = 1 .. Len(blk.ld) /\ Len(blk.ld) \in 0 .. 2
      /\ Len(blk.ld) = 2 => blk.ld[1].reg # blk.ld[2].reg
  BY RunningBlock
<1>2. \A k \in DOMAIN blk.ld : blk.ld[k].reg \in {"t1", "t2"} /\ blk.ld[k].var \in Vars
  <2>1. \A k \in DOMAIN blk.ld : blk.ld[k] \in Load
    BY <1>1
  <2> QED  BY <2>1 DEF Load
<1>3. ASSUME NEW k \in DOMAIN blk.ld
      PROVE  ks(blk.ld[k].reg) = {k}
  <2>1. \A j \in DOMAIN blk.ld : j # k => blk.ld[j].reg # blk.ld[k].reg
    BY <1>1
  <2> QED  BY <2>1
<1>4. ASSUME NEW k \in DOMAIN blk.ld
      PROVE  last(blk.ld[k].reg) = k
  BY <1>1, <1>3
<1>5. ASSUME NEW k \in DOMAIN blk.ld
      PROVE  AfterLoads[blk.ld[k].reg] = mem[blk.ld[k].var]
  <2>1. ks(blk.ld[k].reg) # {} /\ blk.ld[k].reg \in TRegs
    BY <1>2, <1>3 DEF TRegs
  <2>2. AfterLoads[blk.ld[k].reg] = mem[blk.ld[last(blk.ld[k].reg)].var]
    BY <2>1 DEF AfterLoads
  <2> QED  BY <1>4, <2>2
<1>6. ASSUME NEW r \in TRegs
      PROVE  AfterLoads[r] \in Int
  <2>1. CASE ks(r) = {}
    BY <2>1 DEF AfterLoads, TypeInv, MachineTyped
  <2>2. CASE ks(r) # {}
    <3>1. PICK k \in DOMAIN blk.ld : blk.ld[k].reg = r
      BY <2>2
    <3> QED  BY <1>2, <1>5, <3>1 DEF TypeInv, MachineTyped
  <2> QED  BY <2>1, <2>2
<1> QED
  BY <1>2, <1>5, <1>6 DEF AfterLoads, TRegs

(* The operands of a quadruple are, in the registers, what its names and   *)
(* constants say.                                                          *)
LEMMA OperandValues ==
  ASSUME TypeInv, phase = "run", pc \in DOMAIN asm, q.kind \in Arith \cup IfKinds \cup {"ASSIGN"}
  PROVE  /\ Operand1 = ByNameValue(q.a) /\ Operand1 \in Int
         /\ q.kind # "ASSIGN" => Operand2 = ByNameValue(q.b) /\ Operand2 \in Int
<1>1. /\ q \in Instr /\ blk.ld \in Seq(Load) /\ Faithful(q, blk)
      /\ ReadsOf(q) \in Seq(Opd) /\ Len(blk.ld) = Len(ReadsOf(q))
  BY RunningBlock
<1>2. q.a \in Opd /\ q.b \in Opd
  BY <1>1 DEF Instr
<1>3. \A o \in Opd : /\ o.int_val \in Int
                     /\ IsVariable(o) => o.char_val \in Vars /\ ~IsConstant(o)
  BY DEF Opd, IsVariable, IsConstant
<1>4. \A v \in Vars : mem[v] \in Int
  BY DEF TypeInv, MachineTyped
<1>5. \A k \in DOMAIN blk.ld : AfterLoads[blk.ld[k].reg] = mem[ReadsOf(q)[k].char_val]
  BY <1>1, LoadedValues DEF Faithful
<1>6. \A k \in DOMAIN ReadsOf(q) : IsVariable(ReadsOf(q)[k])
  BY <1>1 DEF Faithful, Range
<1>7. \A x, y : /\ Len(<<x>>) = 1 /\ <<x>>[1] = x /\ DOMAIN <<x>> = {1}
               /\ Len(<<x, y>>) = 2 /\ <<x, y>>[1] = x /\ <<x, y>>[2] = y
               /\ DOMAIN <<x, y>> = {1, 2}
  OBVIOUS
<1>8. DOMAIN blk.ld = DOMAIN ReadsOf(q)
  BY <1>1 DEF Faithful
<1>a. CASE q.kind = "ASSIGN"
  <2>1. ReadsOf(q) = IF IsConstant(q.a) THEN << >> ELSE <<q.a>>
    BY <1>a DEF ReadsOf, Arith, AddSub, MulDiv, IfKinds
  <2>2. CASE IsConstant(q.a)
    BY <1>2, <1>3, <1>a, <2>2 DEF Operand1, ByNameValue
  <2>3. CASE ~IsConstant(q.a)
    <3>1. ReadsOf(q) = <<q.a>> /\ IsVariable(q.a) /\ AfterLoads[blk.ld[1].reg] = mem[q.a.char_val]
      BY <1>5, <1>6, <1>7, <1>8, <2>1, <2>3
    <3> QED  BY <1>2, <1>3, <1>4, <1>a, <2>3, <3>1 DEF Operand1, ByNameValue
  <2> QED  BY <2>2, <2>3
<1>b. CASE q.kind \in Arith \cup IfKinds
  <2>0. q.kind # "ASSIGN" /\ ReadsOf(q) = Loaded(q.a, q.b)
    BY <1>b DEF ReadsOf, Arith, AddSub, MulDiv, IfKinds
  <2>1. CASE IsConstant(q.a)
    <3>1. ReadsOf(q) = <<q.b>> /\ Len(blk.ld) = 1
      BY <1>1, <1>7, <2>0, <2>1 DEF Loaded
    <3>2. IsVariable(q.b) /\ AfterLoads[blk.ld[1].reg] = mem[q.b.char_val]
      BY <1>5, <1>6, <1>7, <1>8, <3>1
    <3>3. ~IsConstant(q.b) /\ q.b.char_val \in Vars /\ q.a.int_val \in Int
      BY <1>2, <1>3, <3>2
    <3>4. Operand1 = ByNameValue(q.a) /\ Operand1 \in Int
      BY <2>1, <3>3 DEF Operand1, ByNameValue
    <3>5. Operand2 = ByNameValue(q.b) /\ Operand2 \in Int
      BY <1>4, <3>1, <3>2, <3>3 DEF Operand2, ByNameValue
    <3> QED  BY <3>4, <3>5
  <2>2. CASE ~IsConstant(q.a) /\ IsConstant(q.b)
    <3>1. ReadsOf(q) = <<q.a>>
      BY <2>0, <2>2 DEF Loaded
    <3>2. IsVariable(q.a) /\ AfterLoads[blk.ld[1].reg] = mem[q.a.char_val]
      BY <1>5, <1>6, <1>7, <1>8, <3>1
    <3>3. q.a.char_val \in Vars /\ q.b.int_val \in Int
      BY <1>2, <1>3, <3>2
    <3>4. Operand1 = ByNameValue(q.a) /\ Operand1 \in Int
      BY <1>4, <2>2, <3>2, <3>3 DEF Operand1, ByNameValue
    <3>5. Operand2 = ByNameValue(q.b) /\ Operand2 \in Int
      BY <2>2, <3>3 DEF Operand2, ByNameValue
    <3> QED  BY <3>4, <3>5
  <2>3. CASE ~IsConstant(q.a) /\ ~IsConstant(q.b)
    <3>1. ReadsOf(q) = <<q.a, q.b>> /\ Len(blk.ld) = 2
      BY <1>1, <1>7, <2>0, <2>3 DEF Loaded
    <3>2. /\ IsVariable(q.a) /\ AfterLoads[blk.ld[1].reg] = mem[q.a.char_val]
          /\ IsVariable(q.b) /\ AfterLoads[blk.ld[2].reg] = mem[q.b.char_val]
      BY <1>5, <1>6, <1>7, <1>8, <3>1
    <3>3. q.a.char_val \in Vars /\ q.b.char_val \in Vars
      BY <1>2, <1>3, <3>2
    <3>4. Operand1 = ByNameValue(q.a) /\ Operand1 \in Int
      BY <1>4, <2>3, <3>2, <3>3 DEF Operand1, ByNameValue
    <3>5. Operand2 = ByNameValue(q.b) /\ Operand2 \in Int
      BY <1>4, <2>3, <3>1, <3>2, <3>3 DEF Operand2, ByNameValue
    <3> QED  BY <3>4, <3>5
  <2> QED  BY <2>1, <2>2, <2>3
<1> QED
  BY <1>a, <1>b

-------------------------------------------------------------------------------
(* One lemma per kind of step.                                             *)
LEMMA ResultsAreInts ==
  ASSUME NEW k, NEW m \in Int, NEW n \in Int
  PROVE  Results(k, m, n) \subseteq Int
<1>1. \A i \in Int : AbsVal(i) \in Nat /\ (i # 0 => AbsVal(i) > 0)
  BY DEF AbsVal
<1>2. n # 0 => AbsVal(m) \div AbsVal(n) \in Int
  <2> HAVE n # 0
  <2>1. AbsVal(m) \in Int /\ AbsVal(n) \in Nat \ {0}
    BY <1>1
  <2> QED  BY <2>1
<1>3. n # 0 => Quot(m, n) \in Int
  BY <1>2 DEF Quot
<1>4. m + n \in Int /\ m - n \in Int /\ m * n \in Int
  OBVIOUS
<1> QED
  BY <1>3, <1>4, LeftoversAssumption DEF Results

LEMMA CompileTyped ==
  TypeInv /\ Compile => MachineTyped' /\ Linked'
<1> SUFFICES ASSUME TypeInv, Compile PROVE MachineTyped' /\ Linked'
  OBVIOUS
<1>1. status = "emitting" /\ UNCHANGED runVars
  BY EveryActionEmits DEF Compile, TypeInv
<1>2. phase = "compile"
  BY <1>1 DEF TypeInv, StackInv, StackTypes
<1> QED
  BY <1>1, <1>2 DEF TypeInv, MachineTyped, Linked, runVars

(* What keeps the generator's state keeps what links.                      *)
LEMMA ResolvesKept == UNCHANGED genVars => (Resolves' <=> Resolves)
BY DEF genVars, Resolves, Names, Words, Targets, Callees, Labels, Entries, Stored, ByName,
       PlacesResolve

LEMMA StandingStillTyped ==
  TypeInv /\ (Link \/ Fault \/ Stay \/ ExecNothing \/ UNCHANGED vars) => MachineTyped' /\ Linked'
<1> SUFFICES ASSUME TypeInv, Link \/ Fault \/ Stay \/ ExecNothing \/ UNCHANGED vars
             PROVE  MachineTyped' /\ Linked'
  OBVIOUS
<1>1. /\ UNCHANGED <<resume, t, t4, v0, mem, stack, out, genVars>>
      /\ phase' = phase \/ phase' \in {"run", "unresolved", "foreign", "fault"}
      /\ phase' = "run" => Resolves
  BY DEF TypeInv, Linked, Link, Fault, Stay, ExecNothing, Forward, vars, runVars, genVars
<1> QED
  BY <1>1, ResolvesKept DEF TypeInv, MachineTyped, Linked

(* The quadruples that compute: registers and words of .data.              *)
LEMMA ComputingTyped ==
  TypeInv /\ (ExecAssign \/ ExecArith \/ ExecJump \/ ExecNoJump) => MachineTyped' /\ Linked'
<1> SUFFICES ASSUME TypeInv, ExecAssign \/ ExecArith \/ ExecJump \/ ExecNoJump
             PROVE  MachineTyped' /\ Linked'
  OBVIOUS
<1>1. /\ phase = "run" /\ pc \in DOMAIN asm
      /\ UNCHANGED <<phase, resume, t4, v0, stack, out, genVars>>
  BY DEF ExecAssign, ExecArith, ExecJump, ExecNoJump, Forward, Runs, InCode, genVars
<1>2. AfterLoads \in [TRegs -> Int]
  BY <1>1, LoadedValues
<1>3. ASSUME NEW n \in Int, NEW regs \in [TRegs -> Int], StoreT0(n, regs)
      PROVE  t' \in [TRegs -> Int] /\ mem' \in [Vars -> Int]
  BY <1>3 DEF StoreT0, TypeInv, MachineTyped
<1>4. t' \in [TRegs -> Int] /\ mem' \in [Vars -> Int]
  <2>1. CASE ExecAssign
    <3>1. Operand1 \in Int
      BY <1>1, <2>1, OperandValues DEF ExecAssign, Runs
    <3> QED  BY <1>2, <1>3, <2>1, <3>1 DEF ExecAssign
  <2>2. CASE ExecArith
    <3>1. q.kind \in Arith /\ Arith \subseteq {"ADD", "SUB", "MUL", "DIV"}
      BY <2>2 DEF ExecArith, Runs, Arith, AddSub, MulDiv
    <3>2. Operand1 \in Int /\ Operand2 \in Int
      BY <1>1, <3>1, OperandValues
    <3>3. PICK n \in Results(q.kind, Operand1, Operand2) : StoreT0(n, Negated(AfterLoads))
      BY <2>2 DEF ExecArith
    <3>4. n \in Int
      BY <3>2, <3>3, ResultsAreInts
    <3>5. Negated(AfterLoads) \in [TRegs -> Int]
      <4>1. CASE ~(q.kind = "SUB" /\ IsConstant(q.a))
        BY <1>2, <4>1 DEF Negated
      <4>2. CASE q.kind = "SUB" /\ IsConstant(q.a)
        <5> DEFINE r == blk.ld[1].reg
        <5>1. Negated(AfterLoads) = [AfterLoads EXCEPT ![r] = -AfterLoads[r]]
          BY <4>2 DEF Negated
        <5>2. \A x \in TRegs : Negated(AfterLoads)[x] \in Int
          <6> TAKE x \in TRegs
          <6>1. Negated(AfterLoads)[x] = IF x = r THEN -AfterLoads[r] ELSE AfterLoads[x]
            BY <1>2, <5>1
          <6>2. AfterLoads[x] \in Int
            BY <1>2
          <6> QED  BY <6>1, <6>2
        <5> QED  BY <1>2, <5>1, <5>2
      <4> QED  BY <4>1, <4>2
    <3> QED  BY <1>3, <3>3, <3>4, <3>5
  <2>3. CASE ExecJump \/ ExecNoJump
    BY <1>2, <2>3 DEF ExecJump, ExecNoJump, TypeInv, MachineTyped
  <2> QED  BY <2>1, <2>2, <2>3
<1> QED
  BY <1>1, <1>4, ResolvesKept DEF TypeInv, MachineTyped, Linked

LEMMA ByNameTyped ==
  ASSUME TypeInv, phase = "run", pc \in DOMAIN asm, q.kind \in {"ARG", "RETURN"}
  PROVE  ByNameValue(q.a) \in Int
<1>1. q.a \in Opd /\ (IsConstant(q.a) \/ q.a.char_val \in Vars)
  BY RunningBlock DEF Instr
<1> QED
  BY <1>1 DEF ByNameValue, Opd, TypeInv, MachineTyped

LEMMA PassingTyped ==
  TypeInv /\ (ExecArg \/ ExecParam \/ ExecReturn) => MachineTyped' /\ Linked'
<1> SUFFICES ASSUME TypeInv, ExecArg \/ ExecParam \/ ExecReturn
             PROVE  MachineTyped' /\ Linked'
  OBVIOUS
<1>1. /\ phase = "run" /\ pc \in DOMAIN asm
      /\ UNCHANGED <<t, out, genVars>>
      /\ phase' \in {"run", "halted"} /\ resume' \in BOOLEAN
  BY DEF ExecArg, ExecParam, ExecReturn, Forward, Runs, InCode, TypeInv, MachineTyped, genVars
<1>2. t4' \in Int /\ v0' \in Int /\ mem' \in [Vars -> Int]
      /\ stack' \in [0 .. StackWords - 1 -> Int]
  <2>1. CASE ExecArg
    <3>1. ByNameValue(q.a) \in Int
      BY <1>1, <2>1, ByNameTyped DEF ExecArg, Runs
    <3> QED  BY <2>1, <3>1 DEF ExecArg, TypeInv, MachineTyped
  <2>2. CASE ExecParam
    <3>1. stack[t4] \in Int
      BY <2>2 DEF ExecParam, TypeInv, MachineTyped
    <3>2. /\ mem' = [mem EXCEPT ![q.dst.char_val] = stack[t4]]
          /\ t4' = t4 + 1 /\ UNCHANGED <<v0, stack>>
      BY <2>2 DEF ExecParam
    <3>3. mem \in [Vars -> Int] /\ t4 \in Int /\ v0 \in Int
          /\ stack \in [0 .. StackWords - 1 -> Int]
      BY DEF TypeInv, MachineTyped
    <3>4. mem' \in [Vars -> Int]
      <4> DEFINE x == q.dst.char_val
                 n == stack[t4]
      <4>1. n \in Int /\ mem' = [mem EXCEPT ![x] = n]
        BY <3>1, <3>2
      <4> HIDE DEF x, n
      <4> QED  BY <3>3, <4>1
    <3> QED  BY <3>2, <3>3, <3>4
  <2>3. CASE ExecReturn
    <3>1. ByNameValue(q.a) \in Int
      BY <1>1, <2>3, ByNameTyped DEF ExecReturn, Runs
    <3>2. v0' = ByNameValue(q.a) /\ UNCHANGED <<t4, mem, stack>>
      BY <2>3 DEF ExecReturn
    <3> QED  BY <3>1, <3>2 DEF TypeInv, MachineTyped
  <2> QED  BY <2>1, <2>2, <2>3
<1> QED
  BY <1>1, <1>2, ResolvesKept DEF TypeInv, MachineTyped, Linked

LEMMA LibraryTyped ==
  TypeInv /\ (ExecRead \/ ExecWrite) => MachineTyped' /\ Linked'
<1> SUFFICES ASSUME TypeInv, ExecRead \/ ExecWrite PROVE MachineTyped' /\ Linked'
  OBVIOUS
<1>1. /\ phase = "run" /\ pc \in DOMAIN asm
      /\ UNCHANGED <<phase, resume, t4, genVars>>
      /\ stack' = [stack EXCEPT ![sp - 1] = ra]
  BY DEF ExecRead, ExecWrite, KeepRa, Forward, Runs, InCode, genVars
<1>2. ra \in Int
  BY TypeInvTypes DEF TypeOK
<1>3. stack' \in [0 .. StackWords - 1 -> Int]
  BY <1>1, <1>2 DEF TypeInv, MachineTyped
<1>4. /\ v0' \in Int /\ t' \in [TRegs -> Int] /\ mem' \in [Vars -> Int] /\ out' \in Seq(Int)
  <2>1. CASE ExecRead
    <3>1. PICK n \in Inputs : /\ v0' = n
                              /\ t' = [AfterLoads EXCEPT ![blk.ld[1].reg] = n]
                              /\ mem' = [mem EXCEPT ![q.dst.char_val] = n]
      BY <2>1 DEF ExecRead
    <3>2. n \in Int /\ AfterLoads \in [TRegs -> Int] /\ out' = out
      BY <1>1, <2>1, MachineAssumption, LoadedValues DEF ExecRead
    <3> QED  BY <3>1, <3>2 DEF TypeInv, MachineTyped
  <2>2. CASE ExecWrite
    <3>1. t["t0"] \in Int
      BY DEF TypeInv, MachineTyped, TRegs
    <3> QED  BY <2>2, <3>1 DEF ExecWrite, TypeInv, MachineTyped
  <2> QED  BY <2>1, <2>2
<1> QED
  BY <1>1, <1>3, <1>4, ResolvesKept DEF TypeInv, MachineTyped, Linked

(* Every word pushed is $s0, $ra or the variable of its slot.              *)
LEMMA CallTyped == TypeInv /\ ExecCall => MachineTyped' /\ Linked'
<1> SUFFICES ASSUME TypeInv, ExecCall PROVE MachineTyped' /\ Linked'
  OBVIOUS
<1>1. /\ t4' = sp /\ stack' = Pushed(FrameBase) /\ FrameBase = sp - 2 - NumVars
      /\ UNCHANGED <<phase, resume, t, v0, mem, out, genVars>>
  BY DEF ExecCall, FrameBase, genVars
<1>2. sp \in Int /\ s0 \in Int /\ ra \in Int /\ StackWords \in Nat
  BY TypeInvTypes, MachineAssumption DEF TypeOK
<1>3. vars_set \subseteq Vars /\ NumVars \in Nat
  BY SlotsFilled DEF TypeInv, NamesOnly
<1>4. ASSUME NEW a \in DOMAIN stack
      PROVE  Pushed(FrameBase)[a] \in Int
  <2>1. a \in Int /\ stack[a] \in Int
    BY <1>2 DEF TypeInv, MachineTyped
  <2>2. CASE a >= FrameBase /\ a < sp - 2
    <3> DEFINE v == CHOOSE v \in vars_set : Slot(v) = a - FrameBase
    <3>1. a - FrameBase \in 0 .. NumVars - 1
      BY <1>1, <1>2, <1>3, <2>1, <2>2
    <3>2. \E u \in vars_set : Slot(u) = a - FrameBase
      BY <1>3, <3>1, SlotsFilled
    <3>3. v \in vars_set
      BY <3>2
    <3>4. mem[v] \in Int
      BY <1>3, <3>3 DEF TypeInv, MachineTyped
    <3>5. a # sp - 1 /\ a # sp - 2
      BY <1>2, <2>1, <2>2
    <3> HIDE DEF v
    <3>6. Pushed(FrameBase)[a] = mem[v]
      BY <2>2, <3>5 DEF Pushed, v
    <3> QED  BY <3>4, <3>6
  <2>3. CASE ~(a >= FrameBase /\ a < sp - 2)
    BY <1>2, <2>1, <2>3 DEF Pushed
  <2> QED  BY <2>2, <2>3
<1>5. stack' \in [0 .. StackWords - 1 -> Int]
  <2>1. DOMAIN stack = 0 .. StackWords - 1
    BY DEF TypeInv, MachineTyped
  <2>2. stack' = [a \in DOMAIN stack |-> Pushed(FrameBase)[a]]
    BY <1>1 DEF Pushed
  <2> QED  BY <1>4, <2>1, <2>2
<1> QED
  BY <1>1, <1>2, <1>5, ResolvesKept DEF TypeInv, MachineTyped, Linked

(* Every word popped lies in the last frame.                               *)
LEMMA ResumeTyped == TypeInv /\ ExecResume => MachineTyped' /\ Linked'
<1> SUFFICES ASSUME TypeInv, ExecResume PROVE MachineTyped' /\ Linked'
  OBVIOUS
<1> DEFINE n == Len(bases)
<1>1. /\ resume' = FALSE /\ resume /\ mem' = [Popped EXCEPT ![q.dst.char_val] = v0]
      /\ UNCHANGED <<phase, t, t4, v0, stack, out, genVars>>
  BY DEF ExecResume, genVars
<1>2. /\ sp \in 0 .. StackWords /\ StackWords \in Nat /\ bases \in Seq(0 .. StackWords)
      /\ s0 = 0 /\ bases # << >> /\ sp + s0 = Top(bases)
  BY <1>1, MachineAssumption DEF TypeInv, StackInv, StackTypes, StackShape, ArgsPending
<1>3. n \in DOMAIN bases /\ sp = bases[n]
  BY <1>2 DEF Top
<1>4. sp + NumVars \in DOMAIN stack
  BY <1>3, FrameCells DEF TypeInv
<1>5. /\ vars_set \subseteq Vars /\ NumVars \in Nat
      /\ \A v \in vars_set : Slot(v) \in 0 .. NumVars - 1
  BY SlotsFilled DEF TypeInv, NamesOnly
<1>6. ASSUME NEW v \in Vars
      PROVE  (IF v \in vars_set THEN stack[sp + Slot(v)] ELSE mem[v]) \in Int
  <2>1. CASE v \in vars_set
    <3>1. Slot(v) \in 0 .. NumVars - 1 /\ sp + NumVars \in 0 .. StackWords - 1
      BY <1>4, <1>5, <2>1 DEF TypeInv, MachineTyped
    <3>2. sp + Slot(v) \in 0 .. StackWords - 1
      BY <1>2, <1>5, <3>1
    <3> QED  BY <2>1, <3>2 DEF TypeInv, MachineTyped
  <2>2. CASE v \notin vars_set
    BY <2>2 DEF TypeInv, MachineTyped
  <2> QED  BY <2>1, <2>2
<1>7. Popped \in [Vars -> Int]
  BY <1>6 DEF Popped
<1>8. mem' \in [Vars -> Int]
  BY <1>1, <1>7 DEF TypeInv, MachineTyped
<1> QED
  BY <1>1, <1>8, ResolvesKept DEF TypeInv, MachineTyped, Linked

-------------------------------------------------------------------------------
LEMMA TypeInvInit == Init => TypeInv
<1> SUFFICES ASSUME Init PROVE TypeInv
  OBVIOUS
<1>1. GenTypeOK /\ StackInv
  BY InitTyped, StackInvInit
<1>2. OperandsApart /\ BlocksFaithful /\ NamesOnly
  BY DEF Init, GenInit, OperandsApart, BlocksFaithful, NamesOnly
<1>3. << >> \in Seq(Int) /\ -1 \in Int /\ 0 \in Int
  OBVIOUS
<1>4. MachineTyped
  BY <1>3 DEF Init, MachineTyped
<1>5. Linked
  BY DEF Init, Linked
<1> QED
  BY <1>1, <1>2, <1>4, <1>5 DEF TypeInv

LEMMA TypeInvStep == TypeInv /\ [Next]_vars => TypeInv'
<1> SUFFICES ASSUME TypeInv, [Next]_vars PROVE TypeInv'
  OBVIOUS
<1>1. [GenNext]_genVars
  BY NextCompiles
<1>2. GenTypeOK' /\ OperandsApart' /\ BlocksFaithful' /\ NamesOnly'
  BY <1>1, GenTypeStep, ApartStep, FaithfulStep DEF TypeInv
<1>3. StackInv'
  BY StackInvStep DEF TypeInv
<1>4. MachineTyped' /\ Linked'
  BY CompileTyped, StandingStillTyped, ComputingTyped, PassingTyped, LibraryTyped,
     CallTyped, ResumeTyped DEF Next
<1> QED
  BY <1>2, <1>3, <1>4 DEF TypeInv

(* For every program: registers and memory keep their types, pc, $ra and   *)
(* $sp their bounds.                                                       *)
THEOREM TypeCorrect == Spec => []TypeOK
<1> QED
  BY TypeInvInit, TypeInvStep, TypeInvTypes, PTL DEF Spec

-------------------------------------------------------------------------------
(* Which programs link.  The words of .data are the names that the         *)
(* quadruples passed give, no fewer and no more.                           *)
GivenSoFar == UNION {NamesGiven(tacs[i]) : i \in DOMAIN asm}
WordsAreGiven == vars_set = GivenSoFar
LinkInv == TypeInv /\ WordsAreGiven /\ LinksAsStated

(* A block that multiplies or divides has had no constant to take.         *)
LEMMA NoConstantTaken ==
  ASSUME NEW w, NEW x, NEW y, \A o \in Range(<<w>> \o ConstantsOf(x, y)) : IsVariable(o)
  PROVE  <<w>> \o ConstantsOf(x, y) = <<w>>
<1>1. ASSUME NEW d, IsConstant(d), ConstantsOf(x, y) = <<d>> PROVE FALSE
  <2>1. <<w>> \in Seq({w, d}) /\ <<d>> \in Seq({w, d})
    OBVIOUS
  <2>2. Len(<<w>> \o <<d>>) = 2 /\ (<<w>> \o <<d>>)[2] = d
    BY <2>1
  <2>3. 2 \in DOMAIN (<<w>> \o <<d>>)
    BY <2>1, <2>2
  <2>4. d \in Range(<<w>> \o ConstantsOf(x, y))
    BY <1>1, <2>2, <2>3 DEF Range
  <2> QED  BY <1>1, <2>4 DEF IsVariable, IsConstant
<1>2. ConstantsOf(x, y) = << >>
  BY <1>1 DEF ConstantsOf
<1>3. <<w>> \in Seq({w}) /\ << >> \in Seq({w})
  OBVIOUS
<1>4. <<w>> \o << >> = <<w>>
  BY <1>3
<1> QED
  BY <1>2, <1>4

(* What the emitter of a quadruple makes of vars_set is the names it gives.*)
LEMMA InsertsGiven ==
  ASSUME NEW c, \A o \in Range(ReadsOf(c)) \cup Range(WritesOf(c)) : IsVariable(o)
  PROVE  InsertsOf(c) \cup {o.char_val : o \in Range(WritesOf(c))} = NamesGiven(c)
<1>1. CASE c.kind \in MulDiv
  <2>1. c.kind \notin {"CALL", "PARAM", "READ", "WRITE"} /\ c.kind \in Arith
        /\ c.kind \notin AddSub \cup {"ASSIGN", "ADDR", "FETCH"}
    BY <1>1 DEF MulDiv, AddSub, Arith
  <2>2. WritesOf(c) = <<c.dst>> \o ConstantsOf(c.a, c.b)
    BY <1>1, <2>1 DEF WritesOf
  <2>3. WritesOf(c) = <<c.dst>>
    <3>1. \A o \in Range(<<c.dst>> \o ConstantsOf(c.a, c.b)) : IsVariable(o)
      BY <2>2
    <3> QED  BY <2>2, <3>1, NoConstantTaken
  <2>5. Range(WritesOf(c)) = {c.dst}
    BY <2>3, RangesOfTuples
  <2> QED  BY <2>1, <2>5 DEF InsertsOf, NamesGiven
<1>2. CASE c.kind \in AddSub \cup {"ASSIGN", "ADDR", "FETCH"}
  <2>1. Range(WritesOf(c)) = {c.dst}
    <3>1. WritesOf(c) = <<c.dst>>
      BY <1>2 DEF WritesOf, AddSub, MulDiv
    <3> QED  BY <3>1, RangesOfTuples
  <2> QED  BY <1>2, <2>1 DEF InsertsOf, NamesGiven, AddSub, Arith
<1>3. CASE c.kind = "WRITE"
  <2>1. Range(WritesOf(c)) = {c.a}
    BY <1>3, RangesOfTuples DEF WritesOf, AddSub, MulDiv
  <2> QED  BY <1>3, <2>1 DEF InsertsOf, NamesGiven, AddSub, MulDiv, Arith
<1>4. CASE c.kind \notin Arith \cup {"ASSIGN", "ADDR", "FETCH", "WRITE"}
  <2>1. Range(WritesOf(c)) = {}
    BY <1>4, RangesOfTuples DEF WritesOf, Arith
  <2> QED  BY <1>4, <2>1 DEF InsertsOf, NamesGiven
<1> QED
  BY <1>1, <1>2, <1>3, <1>4 DEF Arith

(* The names in a block's text are what its quadruple reads and some of    *)
(* what it gives.                                                          *)
LEMMA NamesOfBlock ==
  ASSUME NEW c \in Instr, NEW b, Faithful(c, b), b.tac = c
  PROVE  NamesRead(c) \subseteq Names(b) /\ Names(b) \subseteq NamesRead(c) \cup NamesGiven(c)
<1> DEFINE loads == {b.ld[k].var : k \in DOMAIN b.ld}
<1>1. loads = {o.char_val : o \in Range(ReadsOf(c))}
  BY DEF Faithful, Range
<1>s. Stored(b) \subseteq NamesGiven(c)
  <2>1. CASE c.kind \in MulDiv
    <3>1. WritesOf(c) = <<c.dst>> \o ConstantsOf(c.a, c.b)
      BY <2>1 DEF WritesOf, AddSub, MulDiv
    <3>2. WritesOf(c) = <<c.dst>>
      <4>1. \A o \in Range(<<c.dst>> \o ConstantsOf(c.a, c.b)) : IsVariable(o)
        BY <3>1 DEF Faithful
      <4> QED  BY <3>1, <4>1, NoConstantTaken
    <3> QED  BY <2>1, <3>2 DEF Stored, NamesGiven, Faithful, TakenFor, Arith, MulDiv
  <2>2. CASE c.kind \in AddSub \cup {"ASSIGN", "ADDR", "FETCH"}
    <3>1. WritesOf(c) = <<c.dst>>
      BY <2>2 DEF WritesOf, AddSub, MulDiv
    <3> QED  BY <2>2, <3>1 DEF Stored, NamesGiven, Faithful, TakenFor, Arith, AddSub
  <2>3. CASE c.kind \notin Arith \cup {"ASSIGN", "ADDR", "FETCH"}
    BY <2>3 DEF Stored, NamesGiven
  <2> QED  BY <2>1, <2>2, <2>3 DEF Arith
<1>2. CASE c.kind \in Arith \cup IfKinds
  <2>1. ReadsOf(c) = Loaded(c.a, c.b) /\ OperandsRead(c) = {c.a, c.b}
    BY <1>2 DEF ReadsOf, OperandsRead, Arith, AddSub, MulDiv, IfKinds
  <2>2. Range(ReadsOf(c)) = {x \in {c.a, c.b} : IsVariable(x)}
    <3>1. \A o \in Range(ReadsOf(c)) : IsVariable(o)
      BY DEF Faithful
    <3>2. CASE IsConstant(c.a)
      <4>1. Range(ReadsOf(c)) = {c.b}
        BY <2>1, <3>2, RangesOfTuples DEF Loaded
      <4> QED  BY <3>1, <3>2, <4>1 DEF IsVariable, IsConstant
    <3>3. CASE ~IsConstant(c.a) /\ IsConstant(c.b)
      <4>1. Range(ReadsOf(c)) = {c.a}
        BY <2>1, <3>3, RangesOfTuples DEF Loaded
      <4> QED  BY <3>1, <3>3, <4>1 DEF IsVariable, IsConstant
    <3>4. CASE ~IsConstant(c.a) /\ ~IsConstant(c.b)
      <4>1. Range(ReadsOf(c)) = {c.a, c.b}
        BY <2>1, <3>4, RangesOfTuples DEF Loaded
      <4> QED  BY <3>1, <4>1
    <3> QED  BY <3>2, <3>3, <3>4
  <2>3. ByName(c) = {}
    BY <1>2 DEF ByName, Arith, AddSub, MulDiv, IfKinds
  <2> QED  BY <1>1, <1>s, <2>1, <2>2, <2>3 DEF Names, NamesRead
<1>3. CASE c.kind \in {"ASSIGN", "ADDR", "FETCH", "DEREF"}
  <2>1. \A o \in Range(ReadsOf(c)) : IsVariable(o)
    BY DEF Faithful
  <2>2. OperandsRead(c) = IF c.kind = "DEREF" THEN {c.a, c.b} ELSE {c.a}
    BY <1>3 DEF OperandsRead, Arith, AddSub, MulDiv, IfKinds
  <2>3. Range(ReadsOf(c)) = {x \in OperandsRead(c) : IsVariable(x)}
    <3>1. CASE c.kind = "DEREF"
      <4>1. ReadsOf(c) = <<c.a, c.b>>
        BY <3>1 DEF ReadsOf, Arith, AddSub, MulDiv, IfKinds
      <4> QED  BY <2>1, <2>2, <3>1, <4>1, RangesOfTuples
    <3>2. CASE c.kind = "ASSIGN" /\ IsConstant(c.a)
      <4>1. ReadsOf(c) = << >>
        BY <3>2 DEF ReadsOf, Arith, AddSub, MulDiv, IfKinds
      <4> QED  BY <2>2, <3>2, <4>1, RangesOfTuples DEF IsVariable, IsConstant
    <3>3. CASE c.kind \in {"ADDR", "FETCH"} \/ (c.kind = "ASSIGN" /\ ~IsConstant(c.a))
      <4>1. ReadsOf(c) = <<c.a>>
        BY <3>3 DEF ReadsOf, Arith, AddSub, MulDiv, IfKinds
      <4>2. Range(ReadsOf(c)) = {c.a} /\ OperandsRead(c) = {c.a}
        BY <2>2, <3>3, <4>1, RangesOfTuples
      <4> QED  BY <2>1, <4>2
    <3>4. \/ c.kind = "DEREF"
          \/ c.kind = "ASSIGN" /\ IsConstant(c.a)
          \/ c.kind \in {"ADDR", "FETCH"} \/ (c.kind = "ASSIGN" /\ ~IsConstant(c.a))
      BY <1>3
    <3> QED  BY <3>1, <3>2, <3>3, <3>4
  <2>4. ByName(c) = {}
    BY <1>3 DEF ByName
  <2> QED  BY <1>1, <1>s, <2>3, <2>4 DEF Names, NamesRead
<1>4. CASE c.kind = "READ"
  <2>1. ReadsOf(c) = <<c.dst>> /\ OperandsRead(c) = {} /\ NamesGiven(c) = {c.dst.char_val}
    BY <1>4 DEF ReadsOf, OperandsRead, NamesGiven, Arith, AddSub, MulDiv, IfKinds
  <2>2. loads = {c.dst.char_val}
    <3>1. Range(ReadsOf(c)) = {c.dst}
      BY <2>1, RangesOfTuples
    <3> QED  BY <1>1, <3>1
  <2>3. ByName(c) = {}
    BY <1>4 DEF ByName
  <2> QED  BY <1>s, <2>1, <2>2, <2>3 DEF Names, NamesRead
<1>5. CASE c.kind \notin Arith \cup IfKinds \cup {"ASSIGN", "ADDR", "FETCH", "DEREF", "READ"}
  <2>1. ReadsOf(c) = << >> /\ OperandsRead(c) = {}
    BY <1>5 DEF ReadsOf, OperandsRead
  <2>2. loads = {}
    BY <1>1, <2>1, RangesOfTuples
  <2> QED  BY <1>s, <2>1, <2>2 DEF Names, NamesRead
<1> QED
  BY <1>2, <1>3, <1>4, <1>5

(* Every emitter adds to vars_set what its quadruple gives.               *)
LEMMA WordsStep ==
  ASSUME GenTypeOK, WordsAreGiven, [GenNext]_genVars
  PROVE  WordsAreGiven'
<1>1. CASE UNCHANGED <<tacs, asm, vars_set>>
  BY <1>1 DEF WordsAreGiven, GivenSoFar
<1>2. CASE GenNext /\ ~UNCHANGED <<tacs, asm, vars_set>>
  <2> DEFINE reads == ReadsOf(Cur)
             writes == WritesOf(Cur)
  <2>1. Emit(reads, writes, InsertsOf(Cur))
    BY <1>2, EmitsOwn
  <2>2. \A o \in Range(reads) \cup Range(writes) : IsVariable(o)
    BY <1>2, <2>1 DEF Emit
  <2>3. /\ asm' = Append(asm, NewBlock(reads, writes)) /\ tacs' = tacs
        /\ vars_set' = vars_set \cup InsertsOf(Cur) \cup {o.char_val : o \in Range(writes)}
    BY <2>1, <2>2 DEF Emit, NewBlock
  <2>4. vars_set' = vars_set \cup NamesGiven(Cur)
    BY <2>2, <2>3, InsertsGiven
  <2>5. asm \in Seq(Block) /\ Len(asm) = tac_code - 1 /\ tac_code \in Nat
    <3>1. Len(tacs) \in Nat /\ tac_code \in 1 .. Len(tacs) + 1
      BY ProgramsAssumption DEF GenTypeOK
    <3> QED  BY <3>1 DEF GenTypeOK
  <2>6. DOMAIN asm' = DOMAIN asm \cup {tac_code}
    BY <2>3, <2>5
  <2>7. GivenSoFar' = GivenSoFar \cup NamesGiven(tacs[tac_code])
    BY <2>3, <2>6 DEF GivenSoFar
  <2> QED  BY <2>4, <2>7 DEF WordsAreGiven, Cur
<1> QED
  BY <1>1, <1>2 DEF genVars

(* What the assembler and the machine demand of a text that is complete,  *)
(* said of the quadruples it was generated from.                           *)
LEMMA ResolvesLinkable ==
  ASSUME TypeInv, WordsAreGiven, status = "generated"
  PROVE  /\ AssemblerTakes(tacs, Words, TextNames) <=> Taken(tacs)
         /\ AssemblerTakes(tacs, Words, TextNames) /\ Resolves <=> Linkable(tacs)
<1>1. /\ asm \in Seq(Block) /\ tacs \in Seq(Instr) /\ Len(asm) = Len(tacs)
      /\ \A i \in DOMAIN asm : asm[i].tac = tacs[i]
  <2>1. tacs \in Seq(Instr)
    BY ProgramsAssumption DEF TypeInv, GenTypeOK
  <2> QED  BY <2>1 DEF TypeInv, GenTypeOK
<1>2. DOMAIN asm = DOMAIN tacs
  BY <1>1
<1>3. vars_set = Given(tacs)
  BY <1>2 DEF WordsAreGiven, GivenSoFar, Given
<1>4. ASSUME NEW i \in DOMAIN tacs
      PROVE  /\ NamesRead(tacs[i]) \subseteq Names(asm[i])
             /\ Names(asm[i]) \subseteq NamesRead(tacs[i]) \cup vars_set
  <2>1. /\ NamesRead(tacs[i]) \subseteq Names(asm[i])
        /\ Names(asm[i]) \subseteq NamesRead(tacs[i]) \cup NamesGiven(tacs[i])
    <3>1. tacs[i] \in Instr /\ Faithful(tacs[i], asm[i]) /\ asm[i].tac = tacs[i]
      BY <1>1, <1>2, <1>4 DEF TypeInv, BlocksFaithful
    <3> QED  BY <3>1, NamesOfBlock
  <2>2. NamesGiven(tacs[i]) \subseteq vars_set
    BY <1>3, <1>4 DEF Given
  <2> QED  BY <2>1, <2>2
<1>5. ReadIn(tacs) \subseteq TextNames /\ TextNames \subseteq ReadIn(tacs) \cup vars_set
  <2>1. ReadIn(tacs) = UNION {NamesRead(tacs[i]) : i \in DOMAIN tacs}
        /\ TextNames = UNION {Names(asm[i]) : i \in DOMAIN tacs}
    BY <1>2 DEF ReadIn, TextNames
  <2> QED  BY <1>4, <2>1
<1>6. AssemblerTakes(tacs, Words, TextNames) <=> Taken(tacs)
  <2> DEFINE defined == OwnSymbols \cup MarkSymbols(tacs) \cup WordSymbols(vars_set)
  <2>1. /\ WordSymbols(ReadIn(tacs)) \subseteq WordSymbols(TextNames)
        /\ WordSymbols(TextNames) \subseteq WordSymbols(ReadIn(tacs)) \cup WordSymbols(vars_set)
    BY <1>5 DEF WordSymbols
  <2>2. SymbolsUsed(tacs, TextNames) \subseteq defined
          <=> SymbolsUsed(tacs, ReadIn(tacs)) \subseteq defined
    BY <2>1 DEF SymbolsUsed
  <2> QED  BY <1>3, <2>2 DEF AssemblerTakes, Taken, Words
<1>7. Resolves <=> ReadIn(tacs) \subseteq Given(tacs) /\ PlacesResolve(tacs)
  <2>1. (\A i \in DOMAIN asm : Names(asm[i]) \subseteq Words) <=> TextNames \subseteq vars_set
    BY DEF TextNames, Words
  <2> QED  BY <1>3, <1>5, <2>1 DEF Resolves
<1> QED
  BY <1>6, <1>7 DEF Linkable

(* Before anything is linked only the words of .data count, and linking    *)
(* asks what ResolvesLinkable says.                                        *)
LEMMA LinkInvInit == Init => LinkInv
<1> SUFFICES ASSUME Init PROVE LinkInv
  OBVIOUS
<1>1. asm = << >> /\ vars_set = {} /\ phase = "compile"
  BY DEF Init, GenInit
<1>2. GivenSoFar = {}
  BY <1>1 DEF GivenSoFar
<1> QED
  BY <1>1, <1>2, TypeInvInit DEF LinkInv, WordsAreGiven, LinksAsStated

LEMMA LinkInvStep == LinkInv /\ [Next]_vars => LinkInv'
<1> SUFFICES ASSUME LinkInv, [Next]_vars PROVE LinkInv'
  OBVIOUS
<1>1. TypeInv' /\ WordsAreGiven'
  BY NextCompiles, TypeInvStep, WordsStep DEF LinkInv, TypeInv
<1>2. LinksAsStated'
  <2>1. CASE Compile
    <3>1. phase = "compile" /\ phase' = phase
      BY <2>1, EveryActionEmits DEF LinkInv, LinksAsStated, TypeInv, Compile, runVars
    <3> QED  BY <3>1 DEF LinksAsStated
  <2>2. CASE Link
    <3>1. /\ phase' = IF ~AssemblerTakes(tacs, Words, TextNames) THEN "unresolved"
                     ELSE IF Resolves THEN "run" ELSE "foreign"
          /\ status = "generated" /\ status' = status /\ tacs' = tacs
      BY <2>2 DEF Link, genVars
    <3>2. /\ AssemblerTakes(tacs, Words, TextNames) <=> Taken(tacs)
          /\ AssemblerTakes(tacs, Words, TextNames) /\ Resolves <=> Linkable(tacs)
      BY <3>1, ResolvesLinkable DEF LinkInv
    <3> QED  BY <3>1, <3>2 DEF LinksAsStated
  <2>3. CASE ~Compile /\ ~Link
    <3>1. /\ UNCHANGED <<tacs, status>>
          /\ phase' = phase \/ (phase = "run" /\ phase' \in {"halted", "fault"})
      BY <2>3 DEF Next, vars, genVars, runVars, Stay, Fault, ExecNothing, ExecAssign, ExecArith,
         ExecJump, ExecNoJump, ExecArg, ExecCall, ExecResume, ExecParam, ExecReturn, ExecRead,
         ExecWrite, Runs, InCode, Forward
    <3> QED  BY <3>1 DEF LinkInv, LinksAsStated
  <2> QED  BY <2>1, <2>2, <2>3
<1> QED
  BY <1>1, <1>2 DEF LinkInv

(* For every program and every way of spelling symbols: the assembler      *)
(* refuses the text exactly when the quadruples are at fault, and what runs*)
(* has every symbol in its place.                                          *)
THEOREM LinksExactly == Spec => []LinksAsStated
<1>1. LinkInv => LinksAsStated
  BY DEF LinkInv
<1> QED
  BY <1>1, LinkInvInit, LinkInvStep, PTL DEF Spec

(* A program whose quadruples are not at fault links and runs: nothing the *)
(* generator does on the way comes between.                                *)
THEOREM LinkableLinks == Spec /\ Linkable(tacs) => []Links
<1> DEFINE Fine == LinkInv /\ Linkable(tacs)
<1>1. Init /\ Linkable(tacs) => Fine
  BY LinkInvInit
<1>2. Fine /\ [Next]_vars => Fine'
  <2>1. LinkInv /\ [Next]_vars => tacs' = tacs
    BY NextCompiles, EmitsOwn DEF LinkInv, Emit, genVars
  <2> QED  BY <2>1, LinkInvStep
<1>3. Fine => Links
  BY DEF LinkInv, LinksAsStated, Links, Linkable
<1> QED
  BY <1>1, <1>2, <1>3, PTL DEF Spec

==============================================================================
