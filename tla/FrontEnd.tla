-------------------------------- MODULE FrontEnd --------------------------------
(***************************************************************************)
(* From a program to what its intermediate code does.  The front end       *)
(* analyses the program, translates it if the analyser has nothing against *)
(* it, and simplifies (generateIntermidiateCode); the lines it is left with*)
(* are read as quadruples and run as TacRun says, and what they print is   *)
(* compared with the meaning of the program (SplMeaning).                  *)
(***************************************************************************)
EXTENDS TypeCheck, Translate, Simplify, TacRun, SplMeaning, FiniteSets

CONSTANT Sources   \* the SPL programs considered

VARIABLES source,  \* the program
          stage,   \* what has become of it
          ins      \* what READ has taken from the input, in order

feVars == <<source, stage, ins, simpVars, vars>>
running == <<prog, at, returned, env, args, actuals, frames, value, out, halted, ins>>

FeInit ==
  /\ source \in Sources
  /\ stage = "parsed"
  /\ made = Blank /\ graphRoots = << >> /\ curr = Null /\ sub = 1
  /\ visited = {} /\ in_i = 1 /\ resultLines = << >> /\ simplifying = "waiting"
  /\ prog = << >> /\ at = 0 /\ returned = FALSE /\ env = [v \in Vars |-> 0]
  /\ args = << >> /\ actuals = << >> /\ frames = << >> /\ value = 0
  /\ out = << >> /\ halted = FALSE /\ ins = << >>

Analyse ==
  /\ stage = "parsed"
  /\ stage' = IF Accepts(source) THEN "accepted" ELSE "rejected"
  /\ UNCHANGED <<source, simpVars, running>>

Generate ==       \* Generator(root, out_path).generate() up to simplify
  /\ stage = "accepted"
  /\ stage' = "generated"
  /\ made' = Translated(source)
  /\ UNCHANGED <<source, graphRoots, curr, sub, visited, in_i, resultLines, simplifying, running>>

CallSimplify ==
  /\ stage = "generated"
  /\ stage' = IF made.status = "ok" THEN "translated" ELSE made.status
  /\ graphRoots' = made.graphRoots
  /\ simplifying' = IF made.status = "ok" THEN "marking" ELSE simplifying
  /\ UNCHANGED <<source, made, curr, sub, visited, in_i, resultLines, running>>

Simplifies == stage = "translated" /\ SimpNext /\ UNCHANGED <<source, stage, running>>

Start ==          \* the result is read and started
  /\ stage = "translated" /\ simplifying = "done"
  /\ stage' = "written"
  /\ IF \A i \in DOMAIN resultLines : Readable(resultLines[i])
     THEN /\ prog' = [i \in DOMAIN resultLines |-> FromLine(resultLines[i])]
          /\ at' = FuncAt(prog', Main)
     ELSE UNCHANGED <<prog, at>>
  /\ UNCHANGED <<source, simpVars, returned, env, args, actuals, frames, value, out, halted, ins>>

Reads == stage = "written" /\ Input /\ ins' = Append(ins, env'[q.dst.char_val])
         /\ UNCHANGED <<source, stage, simpVars>>
Executes ==
  /\ stage = "written"
  /\ Skip \/ Move \/ Operate \/ Jump \/ FallThrough \/ PassArg \/ Invoke \/ TakeParam
     \/ GiveBack \/ Resume \/ Output
  /\ UNCHANGED <<source, stage, ins, simpVars>>

GoesOn == Simplifies \/ Start \/ Reads \/ Executes
FeNext == Analyse \/ Generate \/ CallSimplify \/ GoesOn

FeSpec == FeInit /\ [][FeNext]_feVars /\ WF_feVars(GoesOn)

-------------------------------------------------------------------------------
Feeds == stage = "translated" /\ simplifying = "done"
Lines == Range(resultLines)

Known(ln) == /\ Len(ln) = 5 => ln[4].name \in Range(ArithSign)
             /\ Len(ln) = 6 => ln[3].name \in Range(Relation)

(* An accepted program is translated to the end: no null pointer is        *)
(* followed, no name glued to a line, simplify does not crash, and every   *)
(* line of the result is one the TAC reader has a quadruple for, with an   *)
(* operator or a relation it knows.                                        *)
AcceptedTranslates ==
  /\ stage \notin {"undefined", "glued"} /\ simplifying # "crashed"
  /\ Feeds => \A ln \in Lines : Readable(ln) /\ Known(ln)

(* The dependency graph the translator leaves covers its code, so that     *)
(* simplify drops nothing but dead stores (DropsOnlyDeadStores).           *)
GraphCovers == Feeds => Covered

LabelsIn(lines) == {ln[2] : ln \in {l \in lines : l[1] = Word("LABEL")}}
FunctionsIn(lines) == {ln[2].name : ln \in {l \in lines : l[1] = Word("FUNCTION")}}
TargetsIn(lines) == {ln[Len(ln)] : ln \in {l \in lines : l[1] \in {Word("GOTO"), Word("IF")}}}
CalledIn(lines) == {ln[4].name : ln \in {l \in lines : Len(l) = 4}}

(* Every label is printed once, and every jump and every call of the result*)
(* finds its own label or function in it: simplify, which drops lines by   *)
(* the words in them, drops none that is needed.                           *)
JumpsResolve ==
  Feeds => /\ TargetsIn(Lines) \subseteq LabelsIn(Lines)
           /\ CalledIn(Lines) \subseteq FunctionsIn(Lines)
           /\ \A i, j \in DOMAIN resultLines :
                 resultLines[i][1] = Word("LABEL") /\ resultLines[j] = resultLines[i] => i = j

ArgsBefore(i)  == Cardinality({j \in 1 .. i - 1 : \A k \in j .. i - 1 : resultLines[k][1] = Word("ARG")})
ParamsBehind(i) == Cardinality({j \in i + 1 .. Len(resultLines) :
                                   \A k \in i + 1 .. j : resultLines[k][1] = Word("PARAM")})

(* A CALL has as many ARG lines right before it as its function has PARAM  *)
(* lines right behind its FUNCTION line, even if arguments are calls.      *)
ArgsMatchParams ==
  Feeds => \A i, j \in DOMAIN resultLines :
              /\ Len(resultLines[i]) = 4 /\ resultLines[j][1] = Word("FUNCTION")
              /\ resultLines[i][4] = resultLines[j][2]
              => ArgsBefore(i) = ParamsBehind(j)

GivesValue(ln) ==
  CASE ln[1] \in {Word("READ"), Word("PARAM")} -> {ln[2].name}
    [] Len(ln) \in {3, 4, 5} /\ ln[2] = Word(":=") -> {ln[1].name}
    [] OTHER -> {}

(* A name that a line of the result uses is given a value by another line  *)
(* of the result: what simplify drops is not missed, and the MIPS generator*)
(* allocates every word it loads.                                          *)
UsedIsStored ==
  Feeds => UNION {LineNames(ln) : ln \in Lines} \subseteq UNION {GivesValue(ln) : ln \in Lines}

Meant == Meaning(source, ins)

(* When the code has run it has printed what the program means on the      *)
(* input it has taken, and it has taken all the program reads.             *)
MeansWhatItSays == halted => Meant.out = out /\ Meant.in = << >> /\ Meant.status = "ok"

(* Whatever is translated is simplified to the end, and the code runs to   *)
(* the end as the programs considered do.                                  *)
FrontEndEnds == stage = "translated" ~> halted

===============================================================================
