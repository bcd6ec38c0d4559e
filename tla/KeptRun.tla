-------------------------------- MODULE KeptRun --------------------------------
(***************************************************************************)
(* What dead code elimination does to the meaning of a program: the two    *)
(* branches of Generator::generate, side by side.  simplify runs on the    *)
(* lines of a program; then the program is run as it was before simplify,  *)
(* every line of it (DISABLE_SIMPLIFY), next to which one can see what the *)
(* lines that are left do: wherever a dropped line is executed they stand  *)
(* still, otherwise they take the same step.                               *)
(***************************************************************************)
EXTENDS Simplify, TacRun, FiniteSets

ASSUME CodeAssumption == Programs \subseteq Seq(Instr) /\ Inputs \subseteq Int

(* No variable is named like the word that a function's line starts with.  *)
ASSUME FunctionIsNoName == "FUNCTION" \notin Vars

VARIABLES useless, \* auxiliary: the names the roots do not need
          kept     \* auxiliary: the places of the lines without such a name

krVars == <<simpVars, vars, useless, kept>>

(* The names in every closed set: what the marks have to be.               *)
Needed == LET closed == {S \in SUBSET Names : ClosedUnder(S)}
          IN {v \in Names : \A S \in closed : v \in S}

-------------------------------------------------------------------------------
(* What simplify is given: the lines of prog, quadruples of the kinds that *)
(* the translate functions print, whose graph covers them and needs what is*)
(* read (README, section 3.2: UnusedRead).                                 *)
IsValue(o) == IsVariable(o) \/ IsConstant(o)
FrontEndQuad(c) ==
  /\ c.kind \notin {"ADDR", "FETCH", "DEREF", "DEC", "NONE"}
  /\ c.kind \in {"ASSIGN", "CALL", "PARAM", "READ"} \cup Arith => IsVariable(c.dst)
  /\ c.kind \in {"ASSIGN", "RETURN", "ARG", "WRITE"} \cup Arith \cup IfKinds => IsValue(c.a)
  /\ c.kind \in Arith \cup IfKinds => IsValue(c.b)
  /\ c.kind \in {"LABEL", "GOTO"} \cup IfKinds => c.labelno.kind = "OP_LABEL"

Simplifiable ==
  /\ made.code = [i \in DOMAIN prog |-> Printed(prog[i])]
  /\ \A i \in DOMAIN prog : FrontEndQuad(prog[i])
  /\ PlacesResolve(prog)
  /\ Covered
  /\ \A i \in DOMAIN prog : prog[i].kind = "READ" => prog[i].dst.char_val \notin useless

KrInit ==
  /\ SimpInit /\ Init
  /\ useless = Names \ Needed
  /\ kept = {i \in DOMAIN prog : LineNames(Printed(prog[i])) \cap useless = {}}
  /\ Simplifiable
Simplifies == SimpNext /\ UNCHANGED <<vars, useless, kept>>
Executes == simplifying = "done" /\ Next /\ UNCHANGED <<simpVars, useless, kept>>
KrNext == Simplifies \/ Executes
KrSpec == KrInit /\ [][KrNext]_krVars

-------------------------------------------------------------------------------
(* The program of the lines at the places kept, and the state of its run:  *)
(* a place among them, or the next one; nothing of useless names.          *)
KeptAt(i) == 1 + Cardinality({j \in kept : j < i})
KeptProg ==
  [k \in 1 .. Cardinality(kept) |-> prog[CHOOSE i \in kept : KeptAt(i) = k]]
KeptEnv(e) == [v \in DOMAIN e |-> IF v \in useless THEN 0 ELSE e[v]]
KeptFrames == [k \in DOMAIN frames |-> [at |-> KeptAt(frames[k].at), env |-> KeptEnv(frames[k].env)]]

Kept == INSTANCE TacRun WITH Programs <- Seq(Instr), prog <- KeptProg, at <- KeptAt(at),
                             env <- KeptEnv(env), frames <- KeptFrames

(* What simplify returns is the kept program, printed: no useful line is   *)
(* missing, none is exchanged with another, and no useless one is left.    *)
ResultIsKept ==
  simplifying = "done" => resultLines = [k \in DOMAIN KeptProg |-> Printed(KeptProg[k])]

(* Dead code elimination keeps the meaning: what the whole program does,   *)
(* the kept one does, with the same input, output, jumps, arguments and    *)
(* returned values and the same values of all useful names, through calls  *)
(* and returns of any depth; dropped lines are stutters.                   *)
SimplifiedMeans == Kept!Spec

(* Why: the code stays what it is, and control only returns to places of   *)
(* calls, which are all kept.                                              *)
CodeKnown ==
  /\ made \in Outputs /\ prog \in Seq(Instr) /\ Simplifiable
  /\ useless = Names \ Needed
  /\ kept = {i \in DOMAIN prog : LineNames(Printed(prog[i])) \cap useless = {}}
CallPlaces == {i \in DOMAIN prog : prog[i].kind = "CALL"}
RunTyped ==
  /\ at \in 1 .. Len(prog) + 1
  /\ returned \in BOOLEAN
  /\ returned => at \in CallPlaces /\ frames # << >>
  /\ env \in [Vars -> Int] /\ value \in Int
  /\ args \in Seq(Int) /\ actuals \in Seq(Int)
  /\ frames \in Seq([at : CallPlaces, env : [Vars -> Int]])
RunInv == CodeKnown /\ RunTyped
===============================================================================
