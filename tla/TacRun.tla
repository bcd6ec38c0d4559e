-------------------------------- MODULE TacRun --------------------------------
(***************************************************************************)
(* What a TAC program means: the promise the MIPS back end has to keep.    *)
(* Each quadruple is one step, with the meaning its comment in tac.h gives *)
(* it, and a call is an activation of its own: the callee starts from the  *)
(* caller's variables, and nothing it assigns is seen by the caller, which *)
(* gets the returned value and nothing else (README, section 2.2).  There  *)
(* is no stack pointer, register or memory layout here.                    *)
(***************************************************************************)
EXTENDS Tac

CONSTANTS Programs, \* the TAC programs considered
          Inputs    \* the integers READ may find in the input

VARIABLES prog,     \* the program, chosen once
          at,       \* the quadruple to execute
          returned, \* the quadruple at `at' is a CALL whose callee has returned
          env,      \* the variables of the running activation
          args,     \* the arguments of the call being prepared, last ARG first
          actuals,  \* the arguments the running activation has yet to PARAM
          frames,   \* the suspended activations, the oldest first
          value,    \* what the callee that has just returned gave back, else 0
          out,      \* what WRITE has printed
          halted    \* Main has returned

vars == <<prog, at, returned, env, args, actuals, frames, value, out, halted>>

Init ==
  /\ prog \in Programs
  /\ at = FuncAt(prog, Main)
  /\ returned = FALSE
  /\ env = [v \in Vars |-> 0]
  /\ args = << >>
  /\ actuals = << >>
  /\ frames = << >>
  /\ value = 0
  /\ out = << >>
  /\ halted = FALSE

q == prog[at]
Val(o) == IF IsConstant(o) THEN o.int_val ELSE env[o.char_val]

Running(kinds) == ~halted /\ ~returned /\ at \in DOMAIN prog /\ q.kind \in kinds
Advance == at' = at + 1 /\ UNCHANGED <<prog, returned, halted>>
Assigned(o, x) == env' = [env EXCEPT ![o.char_val] = x]

Skip ==
  /\ Running({"LABEL", "FUNCTION", "NONE", "DEC"})
  /\ Advance
  /\ UNCHANGED <<env, args, actuals, frames, value, out>>

Move ==
  /\ Running({"ASSIGN"})
  /\ Advance
  /\ Assigned(q.dst, Val(q.a))
  /\ UNCHANGED <<args, actuals, frames, value, out>>

Operate ==
  /\ Running(Arith)
  /\ Advance
  /\ \E n \in Results(q.kind, Val(q.a), Val(q.b)) : Assigned(q.dst, n)
  /\ UNCHANGED <<args, actuals, frames, value, out>>

Jump ==
  /\ \/ Running({"GOTO"})
     \/ Running(IfKinds) /\ Holds(q.kind, Val(q.a), Val(q.b))
  /\ at' = LabelAt(prog, q.labelno.int_val)
  /\ UNCHANGED <<prog, returned, env, args, actuals, frames, value, out, halted>>

FallThrough ==
  /\ Running(IfKinds)
  /\ ~Holds(q.kind, Val(q.a), Val(q.b))
  /\ Advance
  /\ UNCHANGED <<env, args, actuals, frames, value, out>>

PassArg ==
  /\ Running({"ARG"})
  /\ Advance
  /\ args' = <<Val(q.a)>> \o args
  /\ UNCHANGED <<env, actuals, frames, value, out>>

Invoke ==
  /\ Running({"CALL"})
  /\ at' = FuncAt(prog, q.funcname)
  /\ frames' = Append(frames, [at |-> at, env |-> env])
  /\ actuals' = args
  /\ args' = << >>
  /\ UNCHANGED <<prog, returned, env, value, out, halted>>

TakeParam ==
  /\ Running({"PARAM"})
  /\ Advance
  /\ actuals # << >>
  /\ Assigned(q.dst, Head(actuals))
  /\ actuals' = Tail(actuals)
  /\ UNCHANGED <<args, frames, value, out>>

GiveBack ==
  /\ Running({"RETURN"})
  /\ IF frames = << >>
     THEN halted' = TRUE /\ UNCHANGED <<at, returned, value>>
     ELSE /\ at' = frames[Len(frames)].at
          /\ returned' = TRUE
          /\ value' = Val(q.a)
          /\ UNCHANGED halted
  /\ UNCHANGED <<prog, env, args, actuals, frames, out>>

Resume ==
  /\ ~halted /\ returned
  /\ returned' = FALSE
  /\ at' = at + 1
  /\ env' = [frames[Len(frames)].env EXCEPT ![q.dst.char_val] = value]
  /\ frames' = SubSeq(frames, 1, Len(frames) - 1)
  /\ value' = 0
  /\ UNCHANGED <<prog, args, actuals, out, halted>>

Input ==
  /\ Running({"READ"})
  /\ Advance
  /\ \E n \in Inputs : Assigned(q.dst, n)
  /\ UNCHANGED <<args, actuals, frames, value, out>>

Output ==
  /\ Running({"WRITE"})
  /\ Advance
  /\ out' = Append(out, Val(q.a))
  /\ UNCHANGED <<env, args, actuals, frames, value>>

Next == \/ Skip \/ Move \/ Operate \/ Jump \/ FallThrough \/ PassArg \/ Invoke
        \/ TakeParam \/ GiveBack \/ Resume \/ Input \/ Output

Spec == Init /\ [][Next]_vars
==============================================================================
