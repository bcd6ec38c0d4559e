------------------------------- MODULE MipsGen -------------------------------
(***************************************************************************)
(* The code generator of mips32.cpp: emit_code walks the TAC list and calls*)
(* the emitter of each node's kind, which takes registers through          *)
(* get_register and get_register_w and prints one fixed piece of assembly  *)
(* text.  The text is kept as a block: the quadruple it was printed for    *)
(* (which fixes the wording) and what the generator's own state put into   *)
(* it, the leading `lw reg, _var' lines (ld) and the variable get_register_w*)
(* took $t0 for (t0), which a trailing `sw $t0, _var' names.  asm[i] is the*)
(* block of tacs[i]; that of a NONE or a DEC node is empty text.           *)
(***************************************************************************)
EXTENDS Tac, FiniteSets, Functions

CONSTANT Programs   \* the lists of quadruples tac_from_buffer may have built

ASSUME ProgramsAssumption ==
  /\ Programs \subseteq Seq(Instr)
  /\ \A p \in Programs : Len(p) > 0

VARIABLES tacs,     \* the TAC list
          tac_code, \* the node emit_code is at
          flag,     \* get_register's static: the last register was $t1
          t0_var,   \* regs[t0].var, the variable $t0 is held for
          vars_set, \* the names AssemblyGenerator will allocate
          asm,      \* the blocks printed to fd
          status    \* emitting, generated, or aborted by a failed assert

genVars == <<tacs, tac_code, flag, t0_var, vars_set, asm, status>>

Load == [reg : {"t1", "t2"}, var : Vars]
Block == [tac : Instr, ld : Seq(Load), t0 : Vars \cup {NoVar}]

GenInit ==
  /\ tacs \in Programs
  /\ tac_code = 1
  /\ flag = FALSE
  /\ t0_var = NoVar
  /\ vars_set = {}
  /\ asm = << >>
  /\ status = "emitting"

Cur == tacs[tac_code]
At(kinds) == status = "emitting" /\ Cur.kind \in kinds

(* get_register: its static flag flips on every call, so that the first    *)
(* operand of an emitter is in $t1 if the flag was down and the second one *)
(* in the other register.                                                  *)
RegOf(f) == IF f THEN "t1" ELSE "t2"
SecondFlagStuck(f) == ~f
SecondFlag(f) == f
GetRegisters(reads) ==
  [k \in DOMAIN reads |->
     [reg |-> RegOf(IF k = 1 THEN ~flag ELSE SecondFlag(flag)),
      var |-> reads[k].char_val]]
FlagAfter(reads) == IF Len(reads) = 1 THEN ~flag ELSE flag

NextNodeSkipped == tac_code + 2
NextNode == tac_code + 1   \* an emitter returns the node's next
TakenFor(writes) == IF writes = << >> THEN NoVar ELSE writes[Len(writes)].char_val

(* One emitter: `reads' are the operands it hands to get_register, in the  *)
(* order of the calls, `writes' those it hands to get_register_w, `inserts'*)
(* the names it adds to vars_set itself.  Both getters assert that their   *)
(* operand is a variable; a failed assert ends the compiler before it opens*)
(* the assembly file.                                                      *)
Emit(reads, writes, inserts) ==
  /\ IF \A o \in Range(reads) \cup Range(writes) : IsVariable(o)
     THEN /\ flag' = FlagAfter(reads)
          /\ vars_set' = vars_set \cup inserts \cup {o.char_val : o \in Range(writes)}
          /\ t0_var' = IF writes = << >> THEN t0_var ELSE TakenFor(writes)
          /\ asm' = Append(asm, [tac |-> Cur, ld |-> GetRegisters(reads),
                                 t0 |-> TakenFor(writes)])
          /\ tac_code' = NextNode
          /\ status' = IF tac_code = Len(tacs) THEN "generated" ELSE "emitting"
     ELSE /\ status' = "aborted"
          /\ UNCHANGED <<tac_code, flag, t0_var, vars_set, asm>>
  /\ UNCHANGED tacs

(* The operands the two-operand emitters load: a constant stays in the     *)
(* text, and only the first of two is looked for.                          *)
LoadedBlind(c1, c2) == IF IsConstant(c1) THEN <<c2>> ELSE <<c1, c2>>
Loaded(c1, c2) == IF IsConstant(c1) THEN <<c2>>
                  ELSE IF IsConstant(c2) THEN <<c1>>
                  ELSE <<c1, c2>>
ConstantsOf(c1, c2) == IF IsConstant(c1) THEN <<c1>>
                       ELSE IF IsConstant(c2) THEN <<c2>>
                       ELSE << >>

EmitLabel ==     \* emit_label, emit_function: no register, no variable
  /\ At({"LABEL", "FUNCTION"})
  /\ Emit(<< >>, << >>, {})

EmitGoto ==
  /\ At({"GOTO"})
  /\ Emit(<< >>, << >>, {})

EmitDec ==       \* prints nothing
  /\ At({"DEC"})
  /\ Emit(<< >>, << >>, {})

EmitNoneStuck == At({"NONE"}) /\ UNCHANGED genVars
EmitNone ==      \* emit_code steps over the list's NONE head
  /\ At({"NONE"})
  /\ Emit(<< >>, << >>, {})

EmitAssign ==
  /\ At({"ASSIGN"})
  /\ Emit(IF IsConstant(Cur.a) THEN << >> ELSE <<Cur.a>>, <<Cur.dst>>, {})

EmitAddSub ==
  /\ At(AddSub)
  /\ Emit(Loaded(Cur.a, Cur.b), <<Cur.dst>>, {})

EmitMulDiv ==    \* a constant goes through get_register_w, whose assert fails
  /\ At(MulDiv)
  /\ Emit(Loaded(Cur.a, Cur.b), <<Cur.dst>> \o ConstantsOf(Cur.a, Cur.b), {})

EmitAddrFetch == \* &v is no variable either: emit_addr's assert fails
  /\ At({"ADDR", "FETCH"})
  /\ Emit(<<Cur.a>>, <<Cur.dst>>, {})

EmitDeref ==
  /\ At({"DEREF"})
  /\ Emit(<<Cur.a, Cur.b>>, << >>, {})

EmitIf ==
  /\ At(IfKinds)
  /\ Emit(Loaded(Cur.a, Cur.b), << >>, {})

EmitArg ==       \* the variable is loaded by name, past get_register
  /\ At({"ARG"})
  /\ Emit(<< >>, << >>, {})

EmitReturn ==    \* so is the one returned
  /\ At({"RETURN"})
  /\ Emit(<< >>, << >>, {})

ResultNamesForgotten(r) == {}
ResultNames(r) == {r.char_val}

EmitCall ==
  /\ At({"CALL"})
  /\ Emit(<< >>, << >>, ResultNames(Cur.dst))

EmitParam ==
  /\ At({"PARAM"})
  /\ Emit(<< >>, << >>, {Cur.dst.char_val})

EmitRead ==
  /\ At({"READ"})
  /\ Emit(<<Cur.dst>>, << >>, {Cur.dst.char_val})

EmitWrite ==     \* get_register_w: $t0 is taken for the operand, not loaded
  /\ At({"WRITE"})
  /\ Emit(<< >>, <<Cur.a>>, {})

GenNext == \/ EmitNone \/ EmitLabel \/ EmitAssign \/ EmitAddSub \/ EmitMulDiv
           \/ EmitAddrFetch \/ EmitDeref \/ EmitGoto \/ EmitIf \/ EmitReturn
           \/ EmitDec \/ EmitArg \/ EmitCall \/ EmitParam \/ EmitRead \/ EmitWrite

GenSpec == GenInit /\ [][GenNext]_genVars /\ WF_genVars(GenNext)

-------------------------------------------------------------------------------
(* The generator's state has its types, and what has been printed is what  *)
(* the walk has passed.                                                    *)
GenTypeOK ==
  /\ tacs \in Programs
  /\ tac_code \in 1 .. Len(tacs) + 1
  /\ flag \in BOOLEAN
  /\ t0_var \in Vars \cup {NoVar}
  /\ vars_set \subseteq Vars \cup {NoVar}
  /\ asm \in Seq(Block)
  /\ Len(asm) = tac_code - 1
  /\ \A i \in DOMAIN asm : asm[i].tac = tacs[i]
  /\ status \in {"emitting", "generated", "aborted"}
  /\ status = "emitting" => tac_code <= Len(tacs)
  /\ status = "generated" => tac_code = Len(tacs) + 1

(* The two operands of an instruction are loaded into different registers, *)
(* whatever was emitted before: get_register has no allocation, only a flag*)
(* that every call in the whole program flips, and the second load of a    *)
(* block must not overwrite the first.                                     *)
OperandsApart ==
  \A i \in DOMAIN asm :
     Len(asm[i].ld) = 2 => asm[i].ld[1].reg # asm[i].ld[2].reg

(* The variable a block's last `sw' names.                                 *)
Stored(blk) == CASE blk.tac.kind \in Arith \cup {"ASSIGN", "ADDR", "FETCH"} -> {blk.t0}
                 [] blk.tac.kind \in {"CALL", "PARAM", "READ"} -> {blk.tac.dst.char_val}
                 [] OTHER -> {}

(* Every variable the printed code stores is in vars_set, so that it gets a*)
(* word in .data and a slot in pushvars and popvars: three of the emitters *)
(* store without get_register_w and have to insert the name themselves.    *)
StoredAllocated == \A i \in DOMAIN asm : Stored(asm[i]) \subseteq vars_set

(* No assert fails: the getters are only given variables.                  *)
NoAssertFails == status # "aborted"

(* The quadruples whose operands the getters accept: variables, and beside *)
(* one of them a constant where the emitter keeps it in the text.  Folding *)
(* is not the generator's: two constants are too many for every kind.      *)
Operand(o) == IsVariable(o) \/ IsConstant(o)
OperandsFit(c) ==
  /\ c.kind \in Arith \cup {"ASSIGN", "ADDR", "FETCH", "READ"} => IsVariable(c.dst)
  /\ c.kind \in MulDiv \cup {"ADDR", "FETCH", "DEREF", "WRITE"} => IsVariable(c.a)
  /\ c.kind \in MulDiv \cup {"DEREF"} => IsVariable(c.b)
  /\ c.kind = "ASSIGN" => Operand(c.a)
  /\ c.kind \in AddSub \cup IfKinds =>
       Operand(c.a) /\ Operand(c.b) /\ (IsVariable(c.a) \/ IsVariable(c.b))

(* The walk ends: emit_code reaches the end of the list or an assert.      *)
GenEnds == <>(status \in {"generated", "aborted"})

==============================================================================
