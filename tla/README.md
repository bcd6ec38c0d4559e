# splc: a specification of the SPL compiler

`splc` compiles SPL, a small C-like language, to MIPS assembly for the SPIM
simulator. It is a sequential program without threads or network; what outlives a
run is three files. What is hard in it is not an interleaving of processes but
long conversations of one:

* the *compiler* hands a program from phase to phase through global state (a
  symbol table, a name map, a dependency graph, a list of quadruples, a register
  flag, a set of names), each phase relying on what an earlier one left;
* the *code it writes* runs on a machine whose calling convention (`$sp`, `$s0`,
  `$t4`, `$ra`, and all variables pushed at every call) is spread over six
  emitters and a second pass, no one of which can be read on its own;
* *run after run*, files are emptied, filled through buffers and read back while
  still open, and a run may end at any step of that.

The specification therefore has three kinds of state machine: of a compiler phase
walking its input, of the compiled program running, and of the compiler compiling
one text after another. The two recursive descents of the compiler (analyser and
translator) are operators on trees, and state machines apply them.

## 1 Inventory

| component | source | state | operations | hard to get right |
|---|---|---|---|---|
| driver | `syntax.y` 165-203 | `has_error`, output files | run the phases | which phases run, and which files are left, after an error or a crash |
| lexer, grammar, tree | `lex.l`, `syntax.y`, `TreeNode.hpp` | position, `yylineno`; parse stack | skip comments, build the tree | loops over `yyinput` at the end of the text |
| semantic analyser, types | `NodeAnalyser.hpp`, `Type.hpp` | `symbolTable`, `has_error` | one check per construct | one flat table for all scopes and kinds of name |
| IR generator | `CodeGenerator.hpp` 38-1097 | `vmap`, counters, `dmap`, `graphRoots` | `translate*` | places, labels, argument order, edges of the graph |
| dead code elimination | `CodeGenerator.hpp` 1099-1158 | `visited` marks | `simplify` | lines that are needed and not reached; side effects |
| IR reader, printer | `tac.cpp`, `tac.h` | doubly linked list | `tac_from_buffer`, `tac_append`, `tac_print` | telling forms of line apart; linking |
| MIPS generator | `mips32.cpp` | `flag`, `regs`, `vars_set`, the text | `emit_*` | registers without allocation; which names get memory |
| assembly generator | `AssemblyGenerator.hpp` | final `vars_set` | expand `pushvars`, `popvars`, `.data` | the set of names grows while the text is written |
| the compiled program | printed by the two above | registers, `.data`, stack | the instructions | recursion, argument passing, returning |

The phases run one after another in one process and interact through the state
named above and two files: the IR (`.ir`) that the IR generator writes and the
reader reads back, and a temporary file between the MIPS generator and the second
pass. The correctness properties of each component are those of section 3;
`PROJECT.json` lists the hazards line by line.

## 2 Modules

| module | models | EXTENDS / instantiates |
|---|---|---|
| `Tac` | operands, quadruples, constructors; the relations and operations they name; which labels and functions a program needs | |
| `TacRun` | the meaning of a TAC program: the abstract specification of the back end | `Tac` |
| `TacLine` | a line of IR: tokens to a quadruple and back | `Tac` |
| `TacList` | the reader: lines to a linked list of quadruples | `TacLine` |
| `MipsGen` | `emit_code` and the emitters | `Tac` |
| `MipsRun` | the second pass, the assembler's demands, and the machine running the result | `MipsGen`; `Meaning == INSTANCE TacRun` |
| `DepGraph` | `DNode`, `dmap`, `graphRoots` | `TacLine` |
| `Simplify` | `simplify`: the walk over the graph and the filter of lines | `DepGraph` |
| `KeptRun` | a program run whole, beside what `simplify` leaves of it | `Simplify`, `TacRun`; `Kept == INSTANCE TacRun` |
| `SplTree` | the tree: one constructor for each production | |
| `SplMeaning` | the meaning of an SPL program: the specification of the front end | `SplTree` |
| `TypeCheck` | the analyser's functions and the types | `SplTree` |
| `Analyser` | an analysis, and what should be accepted | `TypeCheck` |
| `Translate` | the `translate*` functions | `SplTree`, `DepGraph` |
| `FrontEnd` | analyse, translate, simplify, read, run | `TypeCheck`, `Translate`, `Simplify`, `TacRun`, `SplMeaning` |
| `Driver` | `main` and its phases over histories of texts | |
| `LexComments` | comments in `lex.l` | |
| `MCPrograms` | SPL programs that `MCFrontEnd` and `MCMipsRun` take | `SplTree` |
| `MC`*X* | instance of *X* for TLC | |
| `TacListProofs`, `MipsGenProofs`, `MipsRunProofs`, `SimplifyProofs`, `DriverProofs`, `LexCommentsProofs` | theorems | the module named |
| `MipsTypeProofs` | the type theorem of `MipsRun`; which programs link | `MipsRunProofs` |
| `MipsMeaningProofs` | the theorem that `MipsRun` implements `TacRun` | `MipsTypeProofs` |

### 2.1 Tac

A quadruple of any kind is one record, its fields the union of those of the C
union: `dst` for `left`, `ret` and `p`, `a` for `r1`, `c1`, `right`, `raddr` and
`var` (and `laddr`), `b` for `r2` and `c2`. Words are mathematical integers: the
instances stay far from 2^31, where `add` and `sub` of the compiled code would trap and
`mul` would wrap. A division by zero leaves what the LO
register held, one of the constant `Leftovers`.

### 2.2 TacLine, TacList

`ReadLine` is the newline branch of `tac_from_buffer` with `_tac_from_line`; `Walk`
is one turn of `tac_append`'s loop; `Insert` is `tac_insert` of a single node (all
the code ever inserts) and the step to the next line; `Finish` sees the `\x7f`.
Nodes are numbered as they are allocated. A line is its sequence of tokens, and a
token is its deciding first character with the rest; that `label3` is taken for a
label and `&v` for a pointer by its first character is kept. A line that is no
quadruple (one token, two tokens with an unknown first word) stops the reader.
`Written` are the quadruples a line can stand for, kind by kind (a `*` on the right
is a FETCH, so no ASSIGN has a pointer there); `LinesWritten` are the files whose
lines are theirs, or are refused.

### 2.3 MipsGen

`tac_code` is `emit_code`'s pointer, `flag` the static of `get_register`, `t0_var`
the register descriptor of `$t0`, `vars_set` the set of names. The text printed is
kept as one *block* per node: the quadruple, which fixes the wording, and what
the generator's own state put into it: the registers and variables of its `lw` lines, in
order, and the variable `$t0` was taken for. There is one action per emitter or pair or
family of them that differ in the instruction they print only; `Emit(reads, writes,
inserts)` is what they share: the calls of `get_register`, those of `get_register_w`, and the
names inserted directly. A failed `assert` ends the compiler. `OperandsFit` says in
terms of a quadruple alone, kind by kind, what those asserts ask of its operands.

### 2.4 MipsRun

`Compile` is one turn of `emit_code`; `Link` is the second pass of
`generateAssemblyCode` with what an assembler demands of its output
(`AssemblerTakes`); from there on one action runs one block. A CALL
is two: `ExecCall` up to the `jal`, `ExecResume` from behind it. `read` and `write`
are leaf routines and part of `ExecRead` and `ExecWrite`. State: the program counter,
`$t0`-`$t2`, `$sp`, `$s0`, `$ra`, `$t4`, `$v0`, the words of `.data`, the words of
the stack, the output; and one history variable, `bases`, the value `$sp` had
behind each `pushvars` still open. `$t3` and `$a0` are written and read inside one
block and are not kept. Addresses and `$s0` count words where the code counts bytes
in fours. `Rank` is the order of the names in `std::set<string>`.

Start: SPIM's start-up code calls `main` with empty registers, so `$s0` is 0 (no
line of the compiler sets it) and `$ra` is the start-up code, 0 in the model. A
machine fault (no stack left, a read above the stack, running past the text) is the
action `Fault`.

The text has one name space: `labelN`, functions under their own names, the words
`_v` of `.data`, and what `emit_preamble` and the routines `read:` and `write:` define.
How a name is spelled in it is a constant (`WordSymbol`, `LabelSymbol`, `FuncSymbol`),
and so are the symbols the text has of its own (`OwnSymbols`) and the words the
assembler does not take for a label (`Reserved`); the instances give them as
`mips32.cpp` prints them. `Link` refuses a text (phase `unresolved`) with a symbol that
is there twice or not at all, a function named by a reserved word, a negative label, or
a number with two signs: `emit_sub` prints `-%d` for its second operand
(`mips32.cpp:152`), so `a - #-5` becomes `--5`. A text that is taken may still use a
symbol for something else than it is: a CALL of `read` where the program has no function of
that name jumps to the text's own routine. Such a program ends in the phase
`foreign`, and what becomes of it is not followed; the front end never prints one,
since its calls of `read` and `write` are READ and WRITE lines.

`TacRun` has no registers, no stack pointer and no memory layout: each activation
has an environment of its own that starts as a copy of its caller's, CALL suspends
the caller, RETURN gives back a value and nothing else. The refinement mapping
(end of `MipsRun`) reads environments, arguments and return addresses off the
stack.

`WellFormed` are the programs for which the compiled code keeps that meaning: there is
a set `live` of places that control does not leave (`ControlStays`), and on it no
function runs on into the next and PARAMs open theirs (`FunctionsClosed`), a WRITE is
behind the store of its operand (`WritesFollowStores`), a CALL has as many ARGs
before it as its function has PARAMs (`CallsFit`), and a relation that is not
symmetric has no constant on its left (`ConstantsOnRight`). They are asked on `live`
only, since the front end leaves quadruples behind a RETURN or GOTO that nothing
reaches and that need not obey them.
A WRITE is behind the store of its operand unless the operand is a call, a READ, a
relation or a logical operation, behind whose last store there is a LABEL.
`Taken` are the programs the assembler takes, in terms of their quadruples and not of the
text: with the names that some quadruple gives a word (`Given`) and those read by name
(`ReadIn`). `Linkable` are those of them that also read no name without a word and
have their labels and functions in place, which rules out the phase `foreign`.

### 2.5 DepGraph, Simplify

A `DNode` is a record: one of `dmap`, known by its name, one a root owns (the
`if` and `return` nodes, never shared, so its `adj` is kept in it), or null. One
action is one step of the code's walk: a node already visited is skipped
(`SkipVisited`), a node is taken and marked (`TakeNode`), one of its neighbours is
pushed (`PushSubnode`), and the node is left. `FollowNull` is the read of `visited`
through a null pointer, which ends the compiler. `FilterLine` keeps or drops one
line of the code; `contains` compares whole words, as the code does.

`KeptRun` is about the meaning of what is left. The two branches of
`Generator::generate` stand side by side in it: `simplify` runs on the printed lines of a
program, and the program is run whole, as `TacRun` says (the branch of
`DISABLE_SIMPLIFY`). `Kept == INSTANCE TacRun WITH ...` is the same run seen as one of
the program of the kept lines: a place is seen as the number of the kept line there or
next (`KeptAt`), an environment without the useless names' values (`KeptEnv`),
suspended activations likewise. `SimplifiedMeans == Kept!Spec`. `useless` and `kept`
are auxiliary: the names that no chain of the graph leads to from a root, and the
places of lines without one; `ResultIsKept` says that these are the lines `simplify`
returns. `Simplifiable` is what the front end gives `simplify`: quadruples of the
kinds `translate*` prints, with variables and constants where they are put, labels and
functions that are there once, a graph that covers the lines, and no READ into a name
that is not needed.

### 2.6 SplTree, SplMeaning

A tree is a record of its kind, an identifier, a number and its children; there is
one constructor for each production that makes a tree without an error.
`SplMeaning` evaluates a tree: `Meaning(P, in)` is what P prints on input `in`, what
is left of the input, and whether it stayed within the language (`ok`). It knows
nothing of places, labels or quadruples.

### 2.7 TypeCheck, Analyser

The analyser's state is `symbolTable`, the list of messages and `defined`, which
becomes FALSE when the code follows a null or unset pointer. Each `analyze*`
function is an operator from a tree and a state to a state (and a type). The
signature `getSigniture` computes is the whole of what types are compared by.
`Analyser` applies them one external definition at a time and states, in terms of
the names and types of a program and not of the table, which programs are right
(`Right`): each name is used as it was declared (`NamesRight`), and each expression has a
type by the table of types that the sources have before `analyzeExp` and
`translateExp` (`TypesRight`). `NoLapse` are the programs without a construct of which
the code asks less than that table (3.2).

### 2.8 Translate

The translator's state is the counters of variables, temporaries and labels, `vmap` (its
result: the name of a variable), `dmap`, `graphRoots`, the code and a status.
Each `translate*` function is an operator from a tree, a place and a state to a
state. `translateCondExp` has one branch per relation in the code and one
operator for all of them here; which of its branches takes a tree without a
relation (the last `else`) is kept. Following a null pointer gives status
`undefined`; a name returned where a line should be, which ends up glued to the
next line, gives `glued`.

### 2.9 FrontEnd

`Analyse`, `Generate` and `CallSimplify` are `generateIntermidiateCode` and
`generate`; then `Simplify` runs, `Start` reads the lines it left with `FromLine`,
and `TacRun` runs them. `ins` records the input taken, so that what is printed can
be compared with `Meaning` on the same input.

### 2.10 Driver

One action is a step of the compiler that another run, a kill or a reader of the
files can tell apart: opening a file (which empties it), a line printed, a buffer
flushed, a phase's end. A text is how the phases end for it, one of eight ways; its
`.ir` has `BufLines` lines, or one more if it is too large for `buf`. `Overrun` and
`ReadIr` are both enabled for a text too large: what is behind `buf` may matter or not.
`FailAssert` is an assert or abort of the reader or of `mips32_gen`, before the `.s`
file is opened, for a text that is `refused`, as that of the run `constant_condition` is.
For an `endless` text no step leaves the phase of parsing: the scanner loops in a line
comment without a newline (`lex.l:106`, called from `syntax.y:188`), and only `Kill` ends
the run. `Edit` and `Start` are the user, `Kill` the system.

### 2.11 LexComments

The patterns of `lex.l` become tables of flex; the two loops inside actions are
written by hand. `SkipLine` and `SkipBlock` are one turn of each. Every other token
is one character, kept with its place and its line.

Comments are defined without a scan. A comment has a start (an opening) and an end
(`End`: the least place behind it where it closes, or the end of the text); `Divides(S,
n)` says that S are the starts of the comments of the first n characters: they are
apart, and every opening is in one, so that an opening inside a comment is none.
`LineOf` counts the newlines before a place.

## 3 Runs

All bounds are in the `.cfg` files and `MC` modules.

| run | module, cfg | shows |
|---|---|---|
| `generator` | `MCMipsGen`, `MCMipsGen.cfg` | `GenTypeOK`, `OperandsApart`, `StoredAllocated`, `NoAssertFails`, `GenEnds` |
| `execution` | `MCMipsRun`, `MCMipsRun.cfg` | `TypeOK`, `StackShape`, `ReturnsToCall`, `LinksAsStated`, `FramesIntact`, `RunEnds`, `WritesItsOperand`, `KeepsMeaning` |
| `reader` | `MCTacList`, `MCTacList.cfg` | `ListTypeOK`, `InFileOrder`, `PrintsBack`, `ReadingEnds` |
| `simplify` | `MCSimplify`, `MCSimplify.cfg` | `MarksExact`, `DropsOnlyDeadStores`, `KeepsInOrder`, `SimplifyEnds` |
| `kept_program` | `MCKeptRun`, `MCKeptRun.cfg` | `ResultIsKept`, `SimplifiedMeans` |
| `analyser` | `MCAnalyser`, `MCAnalyser.cfg` | `AcceptsTheTyped`, `ReportsEachMisuse`, `FirstDeclarationStands` |
| `front_end` | `MCFrontEnd`, `MCFrontEnd.cfg` | `AcceptedTranslates`, `GraphCovers`, `JumpsResolve`, `ArgsMatchParams`, `UsedIsStored`, `MeansWhatItSays`, `FrontEndEnds` |
| `driver` | `MCDriver`, `MCDriver.cfg` | `ReadsWholeIr`, `CodeOnlyOfGood`, `IrNotOlder`, `MessagesMatchCode` |
| `lex_comments` | `MCLexComments`, `MCLexComments.cfg` | `TokensOutsideComments`, `UnclosedIsTold`, `LexEnds` |
| `write_of_call` | `MCMipsRun`, `MCWriteOfCall.cfg` | violation of `WritesItsOperand` |
| `constant_on_left` | `MCMipsRun`, `MCConstantOnLeft.cfg` | violation of `JumpsAsStated` |
| `constant_condition` | `MCMipsGen`, `MCConstantCondition.cfg` | violation of `NoAssertFails` |

**generator.** Every list of up to three quadruples out of twenty-one: all forms the
front end prints with every mix of variables and constants the emitters tell
apart, and DEC, FETCH and DEREF, which only the reader has a form for (38409 states). The
generator's only memory is one bit, one name and a set, so three quadruples reach every
combination of state before an instruction with every instruction; the theorems say the
same of all lists. A comparison of two constants is not among them: it is the run
`constant_condition`.

**execution.** `Suite` holds the TAC of the repository's test programs with smaller
constants (the sign of a number, Hanoi, factorial, arithmetic with a loop),
functions that call one another with parameters exchanged, programs that fault
(`main` with a parameter, no RETURN), three that recurse without
end, and what `Translate` makes of fourteen SPL programs (the repository's four
and one around each form of call, condition, loop and block), cut by
`simplify`'s rule and read by `FromLine`. So the chain from tree to machine is
checked end to end on those: `front_end` compares their quadruples with the meaning of the
program, `execution` the machine with the quadruples. The stack has 110 words:
enough for those programs to return, few enough for the endless recursions to
reach the end of it after an ARG, a CALL, a READ and a WRITE. `Inputs` includes a
negative number, zero and numbers above one. One run checks every program: it is
chosen in `Init` (10657 states). `LinksAsStated` has programs of its own, `Refused` and
`CallsOwnRead`, one for each way not to link: a function named like a routine of the
text, a label, a word, an instruction or another function; a difference with a negative
constant; a negative label; a label, a function and a word that are not there; and the
call of the text's own `read`.

**reader.** Every file of up to two lines out of one of each form, with each kind of
operand, and lines the reader refuses; and files of four lines for the walks.

**simplify.** Every graph of three names with the adjacencies an assignment of
up to two operands can make, self-loops and cycles included, with four sets of
roots; the code is the one the graph comes from. Two outputs whose graph does not
cover their code, one with a null root, are there as well (14169 states).
`MarksExact` says a marked node is needed by a root and, when the walk is over, a
needed one is marked. The graph's edges are what the theorems quantify over; three
names already give a node in the queue twice, reached again while it is being
left, and a cycle through a root.

**kept_program.** Seven programs, each with its graph (1314 states, most of them
one run's): a loop whose dead sums feed themselves and one another, stores on both sides
of a branch and behind it (one a division by zero), a recursion whose useless variable
is assigned around the call in every activation, and the translations of four SPL
programs with a dead variable or a dead call result. Inputs are negative, zero and positive, so that
every branch is taken, and calls nest four deep. `SimplifiedMeans` is the
refinement, so it holds of every step and not of the output only: the kept program takes
each step with the same values, or stands still at a dropped line. It loses no
behaviour either, since a dropped line is a store, which can always be executed, and no
program consists of dropped lines only between two jumps that come back to them: a GOTO
or a condition is never dropped. A filter that passed over a line's first word would leave stores of useless names
behind, and a walk that did not expand the nodes the roots own would drop lines that are
needed: TLC finds both.

**analyser.** Every expression of two levels over variables, an array, a structure
and functions, rightly and wrongly typed; and every triple of twelve definitions
that clash with or need one another (13264 states). `AcceptsTheTyped`, for
programs that name no unknown structure: the analyser follows no null pointer; it
accepts every program that is `Right`; in a program it accepts every name is used rightly,
and every expression, call and return has its type, unless the program has one of the
lapses of 3.2, of which the instance has all three. `ReportsEachMisuse`: the
messages of each kind about names are as many as the program's declarations and
uses call for. `FirstDeclarationStands`: nothing changes a name once declared.

**front_end.** 151 programs: one around each statement of a list with every form of
expression, comparison, junction, call, loop and block, the repository's tests,
and some with an error; inputs -1, 2 and 3, one after the other as the program reads
(24424 states). `MeansWhatItSays` compares what the simplified code printed, and
what it read, with `SplMeaning`.

**driver.** Histories of three texts of the eight endings, each compiled any number of
times, any run killed at any step, with a name in `.spl` or not; files of two
lines, so that a file can be empty, partial and whole (165532 states). Three texts let a run
find files of two different earlier ones.

**lex_comments.** Every text of up to six characters over slash, star, newline and
one other (39907 states): six hold an opening, a closing, and one of the ambiguous
ends between them. `LexEnds` excludes a line comment at the end of a text, see 3.2.

### 3.1 Violations

The three **violation** runs are disagreements between the code and a comment,
an assertion or the README, quoted in `PROJECT.json` under `findings`:

* `write(f(1))` prints a stale `$t0` (`mips32.cpp:540`): `emit_write` takes a
  register for *writing* and relies on the instruction before it;
* a relation with its constant on the left is compiled with its operands
  exchanged (`mips32.cpp:271`, 301, 331, 361);
* `while (1 == 1)` fails the assert of `mips32.cpp:48`.

The first is not of calls alone. `write(a + 1 < b)` stores 0, then `a + 1`, and when the
relation fails jumps to a label before the WRITE, which prints `a + 1`; with
`WriteOfRelation` for `Programs`, TLC reports it under the same property.

Others need no run, since the compiler does not fail and the assembler does: a variable
that is only read has no word of `.data` (`mips32.cpp:62`), against section 2.1 of the
repository's README (`src/README.md:48`); and the compiler looks neither for functions
named `read`, `write` or `label0` nor for the sign of a constant subtracted.
`LinksAsStated` and `LinksExactly` (§4) say which programs those are.

The programs that run in `execution` avoid these situations: each WRITE follows the
instruction that stores its operand, which is what the front end prints for operands
other than calls, READs, relations and logical operations; constants stand on the right of
relations; and each variable is assigned somewhere.

### 3.2 What the passing runs set apart

Translating the front end turned up constructs that it accepts and does not compile.
`MCFrontEnd` has a set of programs for each, outside `MCSources`; with that set for
`Sources`, TLC reports the property named:

| set | property | because |
|---|---|---|
| `NestedAssignment` | `UsedIsStored` | an assignment with a place adds no edge from the place to the variable (`CodeGenerator.hpp:642`), so for `a = b = 3` simplify drops the stores of `b` and leaves a temporary nothing stores |
| `CallStatement` | `AcceptedTranslates` | a call without arguments makes no temporary for an empty place (`:621`); `dmap[""]` is a null node, which simplify follows (`:1105`) |
| `ReadStatement` | `AcceptedTranslates` | for `read();` the line is `READ ` with no operand (`:611`), which the reader has no form for |
| `ParenCondition`, `NegatedCondition` | `AcceptedTranslates` | `translateCondExp` takes three children without a relation for `<=` (`:1015`), also parentheses, and what `!` can stand before is in parentheses |
| `ArithmeticCondition` | `MeansWhatItSays` | likewise `b - a` as an operand of `&&` is compiled as `b <= a` |
| `UnusedRead` | `MeansWhatItSays` | simplify drops READ like a store (`:1134`), and the next READ gets its number |
| `NamedLikeTemp` | `UsedIsStored` | `contains` compares any word: a function named like a useless temporary loses its lines (`:1151`) |
| `GlobalWritten` | `MeansWhatItSays` | returning restores all variables of the program, a global that the callee assigned too (`AssemblyGenerator.hpp:69`); README section 2.2.1 saves them for the names a recursion shares |

In the analyser the code disagrees with the comments beside it in three places, the
*lapses*. TLC evaluates on every run of `analyser` that each is accepted, though
every name in it is right and its types are not (`LapsesAccepted`):

* the table of types says `int, int -> int` for `&&`, `||` and the six relations, and
  `int -> int` for `!` (`NodeAnalyser.hpp:445`-452 and 459, again in
  `CodeGenerator.hpp:512`-519); the code asks only that the two sides have one signature
  (`:522`), and nothing of the operand of `!`, so that `w && 1.5`, `s < s` of structures
  and `!w` are taken;
* message 6 is "rvalue appears on the left-hand side of the assignment operator"
  (`ErrorPrinter.hpp:44`), and the code gives it by the category of the left side's type
  (`:535`), which a sum of variables and a call share with a variable: `a + a = 1` and
  `f(a) = 1` are taken;
* an initializer is analysed and its type is not compared (`:437`): `int a = 1.0`.

`AcceptsTheTyped` takes the table as the rule and sets the lapses apart, from one
side only: what is right by the table is accepted without exception. Another
comment that the code does not keep is message 3, "a variable is redefined in
the same scope" (`ErrorPrinter.hpp:26`): there is one table for all scopes, and
`Misuse` counts as the code does.
Three more are outside the instance: a function that returns a `struct S` is told
it does not (message 8), a parameter of a structure has no members (message 13), and
a structure whose first mention is `struct S` without a definition is later
told it is defined twice (message 15). The last, like the null pointer that an
undeclared structure is and that several places follow, is what
`NamesNoUnknownStruct` leaves out.

In the driver: the exit status is 0 whatever happened, and `shell/run_mac` goes on
to run the `.s` file it finds; a name not in `.spl` hands null to `fclose`
(`NullFile`), though the later phases have `/dev/stdout` for it; a large `.ir` file
overruns `buf` (`Overrun`). In the lexer: a line comment without a newline
at the end of the text never ends (`lex.l:106`), and with it compiling (`endless`): that a
run ends by itself is not true of the program, and no property says so.

**Deadlock** is checked in `execution`, where a machine that cannot move would be one
(`Stay` marks the ends), and in `driver`, where an idle compiler can always be
started. The other machines stop when their walk is over, by their nature.

**Fairness.** `GenSpec`, `ListSpec`, `SimpSpec`, `LexSpec` and the `Spec` of `MipsRun`
assume weak fairness of their next-state relation: a sequential program that can
take a step takes one. In `FrontEnd` the fairness is of `GoesOn`, the walk and the
run. `Driver` assumes none: its properties are safety, and a run may stand still for
ever. `RunEnds` and `FrontEndEnds` are
stated of the programs of the instances, each of which ends.

## 4 Proofs

Checked by TLAPS for all values of the constants that satisfy the named
assumptions: any program, any names, any size of stack, any dependency graph, any
history of texts.

`MipsGenProofs`:

* `GenTypeCorrect`: `GenSpec => []GenTypeOK`. Every action is an instance of `Emit`
  or of its failing assert, so one lemma about `Emit` serves all sixteen actions.
* `OperandsStayApart`: `GenSpec => []OperandsApart`. A block's loads are printed in one
  step, from one value of `flag` and its negation; the invariant is about every
  block printed so far.
* `StopsAtTheFirst`: `GenSpec => []AbortsAtTheFirst`. The generator has aborted exactly
  when it stands at a quadruple whose operands do not fit, and everything
  before it fits: no assert fails late, and none is passed over. `FitNeverAborts`
  concludes `[]NoAssertFails` for programs whose quadruples all satisfy
  `OperandsFit`. The lemma `EmittersAssert` has one step for each emitter.
* `StoredIsAllocated`: `GenSpec => []StoredAllocated`. `vars_set` only grows, so it is
  enough that each step inserts what its own block stores.

`MipsRunProofs`:

* `StackInvariant`: `Spec => []StackInv`, with the corollaries `StackAlwaysShaped`
  (`StackShape`), `ReturnsAlwaysToCall` (`ReturnsToCall`) and `FramesStayIntact`
  (`FramesIntact`).

`StackShape` and `ReturnsToCall` are not inductive. A RETURN goes to the code behind
a `jal`, which reads a frame at `$sp`: that is the last frame only if no argument
is pending at the RETURN. `ArgsPending` says so, and rests on the assumption
`ArgsTogether` that ARG lines stand together before their CALL, which is how
`translateExp` prints them (`CodeGenerator.hpp` 742-762; nested calls are evaluated
into temporaries first). That a store into the stack leaves older frames alone
needs `FramesInOrder`: frames lie one below the other. `StackTypes` has the types
the arithmetic needs. `StackInv` is the conjunction.

`MipsTypeProofs`:

* `TypeCorrect`: `Spec => []TypeOK`. That a register holds a number after an
  instruction is a fact about the generated block, not about the step: the
  invariant `TypeInv` adds to `StackInv` that every block printed so far loads the
  operands its quadruple reads (`BlocksFaithful`) into registers that differ
  (`OperandsApart`). A frame restores numbers because the slots of `pushvars` are
  one to one with `vars_set` (`BeforeIsBijection`, `SlotsFilled`).
* `LinksExactly`: `Spec => []LinksAsStated`. A compiled program is refused exactly when it is
  not `Taken`: when a name is read that no quadruple gives a word, a label or function is
  used that is not there, a symbol is there twice in the one name space, or a number
  or a function's name cannot be spelled; and it runs exactly when it is
  `Linkable`. The two sides are about different things: `Link` looks at the names in the
  text and at `vars_set` as the generator left them, `Taken` at the quadruples.
  `LinkInv` adds to `TypeInv` that `vars_set` is
  the names given by the quadruples passed (`WordsAreGiven`); `NamesOfBlock` compares
  the names in a block's text with those of its quadruple. How names are spelled is
  left open but for `WordsApart`, that two variables have two words.
* `LinkableLinks`: a `Linkable` program is never refused, and no symbol of it is foreign.
  `SuiteLinks` evaluates that every program that runs in `execution` meets it, and that
  those of `Refused` and `CallsOwnRead` do not.

`MipsMeaningProofs` (programs that are `WellFormed`):

* `MeaningKept`: `Spec /\ WellFormed(tacs) => KeepsMeaning`, where `KeepsMeaning` is
  `TacRun`'s specification under the refinement mapping. Compiling and linking map to
  stutters, as does a fault, and each block to the step of its quadruple: `ExecCall` to
  `Invoke`, `ExecReturn` to `GiveBack`, `ExecResume` to `Resume`. One lemma a step
  (`AssignMeans` ... `ResumeMeans`) says so.
* `WritesTheOperand` (`WritesItsOperand`) and `JumpsTakenAsStated` (`JumpsAsStated`): what
  is written is the operand's value, and a branch is taken when its relation holds.

The inductive invariant, `RefInv`, is `TypeInv`, a `live` on which the program is
well-formed, and `RunsAsFormed`: control and every return address are in `live`
(`StaysLive`); `$s0` counts the ARGs since the last CALL (`ArgsCounted`), without which a
call's frame could not be told from its arguments; in front of a PARAM as many words
are unread as PARAMs follow (`ParamsCounted`), so `$t4` never runs into the
caller's frame; and before a WRITE `$t0` holds its operand (`StoredInT0`).

The hypothesis is what the programs of §3.1 and the faulting ones lack:
without `WritesFollowStores`, `write_of_call` is a counterexample, without
`ConstantsOnRight`, `constant_on_left`. That it can be met is evaluated by
TLC: `SuiteWellFormed` finds every program of `Suite`, the translations of all SPL
programs among them, to be well-formed among those that link, except `MissingArg` (a call
that passes too few). The programs that run out
of stack are well-formed: the theorem covers how a run ends in a fault. The labels and
functions need no hypothesis, as `Link` refuses duplicates and unknown ones.

`TacListProofs`:

* `AlwaysListInv` and `AlwaysInFileOrder`, from `ListInv`, which adds where the
  walk and the node not yet linked are. For every file.
* `AlwaysPrintsBack` and `AlwaysListTypeOK`, for files with `LinesWritten`: what the
  reader linked prints as the lines it read, and is made of quadruples. `ReadInv`
  is `ListInv` with the length of the list and `PrintsBack`; the step that inserts
  rests on `LineReadsBack`, that `_tac_from_line` undoes `tac_print`, shown form by form
  of line. TLC evaluates the hypothesis on the run's lines (`LinesAreWritten`).

`LexCommentsProofs` (texts of any length):

* `AlwaysTokensOutside` and `AlwaysUnclosedIsTold`. The inductive `LexInv` has a division
  of what was passed: between comments it is one of all before `at` (`Between`);
  inside one, of all before the open comment's start, which does not end before
  `at`, and `c` is the character before (`InComment`: with the NUL of an opening,
  so that `/*/` does not close).
* `DivisionIsUnique`: a text has at most one division, so the properties, which say
  that there is one with the tokens outside of it, speak of *the* comments. By a
  least element at which two divisions differ.

`SimplifyProofs`:

* `SimpTypeCorrect`, and `MarkInvariant`: `MarkInv` says that whatever a marked node or
  a root needs is marked or *pending*: in the queue, or behind `sub` in the
  `adj` of the node being visited. That is inductive, where "the marked names are
  closed" holds only at the end. `NoMore` is the other half: a marked or pending name is
  reachable from the roots. Reachability is by closed sets (a name is needed if it is
  in every set that has the roots' names and is closed under `adj`), so no
  induction over paths is needed. `AlwaysMarksExact` joins the two.
* `AlwaysKeepsInOrder`: the lines kept are those without a useless name, in order.
* `OnlyDeadStoresDropped`: if the graph covers the code (what a line that is kept uses
  is needed by its names or by a root: `Covered`) every line dropped is a store of a name
  that no line kept has. `GraphCovers` of the run `front_end` is that condition for what
  `Translate` leaves.

* `RunInvariant`, `ResultAlwaysKept` and `SimplifyKeepsMeaning`, of `KrSpec`: for every
  `Simplifiable` program, any recursion and any input, what `simplify` returns is the
  program of the kept places, and it means what the whole program means. `RunInv` has
  what is known of the code (`CodeKnown`) and of the run: types, and that control
  returns only to a CALL. The argument: a line that is not kept stores a useless name and
  does nothing else (`DroppedStores`, from `Covered` and from `NeededClosed`: the names
  needed are a closed set); a kept line reads and stores no useless name
  (`KeptReads`), so its operands have the same values for both; kept places are numbered
  one to one and in order (`KeptAtNext`, `KeptAtBijection`, by counting), so going on by one
  goes on by one kept line or by none; labels and functions are all kept, so
  jumps and calls meet again (`LabelFound`, `FuncFound`). One lemma per action of
  `TacRun` (`SkipKept` ... `OutputKept`) then gives its step. That `simplify` finds
  those places is `MarksAreNeeded` with the invariant of the filter.

The theorems about the walk and the filter are of `SimpSafety`, `SimpSpec` without its
fairness; `SimplifyRuns` shows that `KrSpec` implies it, so that they hold there too.

`DriverProofs`:

* `DriverTypeCorrect`, and from the inductive `DriverInv` the theorems `AlwaysReadsWholeIr`,
  `AlwaysCodeOnlyOfGood`, `AlwaysIrNotOlder` and `AlwaysMessagesMatchCode`. `PhaseInv`
  says, phase by phase, what has been opened, by which text, and what the buffers
  hold; `FileInv` what may be in a file that the current run has not
  opened. `OutInv` adds what the `.out` file holds in each phase, for the messages.

Assumptions on constants: `OutputsAssumption` (the names of a graph are those of its
`dmap`), `DriverAssumption` (at least one text and one line), `CodeAssumption` (a program is a
sequence of quadruples, an input an integer), `FunctionIsNoName` (no variable is named
`FUNCTION`: they are called `v0`, `t0` and so on), `NamesAssumption`, `LeftoversAssumption`,
`ProgramsAssumption` (a program is a non-empty sequence of quadruples),
`MachineAssumption` (`Rank` is one-to-one, names are finite), `ArgsTogether`,
`WordsApart` (two variables have two words in the text), `PlacesNamed` (what a CALL, PARAM or READ stores is a variable), `FilesAssumption` (a
file is a sequence of lines), `WordsAssumption` (no variable is named like a word that
the reader looks for first), `LengthAssumption` (a length is a number). TLC
evaluates each of them in the runs, as it does the hypotheses of the theorems that have
one: `PoolFits` and `TwoConstantsDoNot` (`OperandsFit`), `SuiteWellFormed`, `WriteOfRelationIsNot`,
`SuiteLinks` (`Linkable`), `LinesAreWritten`; `Simplifiable` is part of `KrInit`,
and the run starts with all seven programs.

Model-checked only: liveness (`GenEnds`, `RunEnds`, `ReadingEnds`, `SimplifyEnds`,
`FrontEndEnds`, `LexEnds`), which the prover does not do under
fairness; and all of `Analyser`, `Translate` and `FrontEnd`, which rest on RECURSIVE
operators over trees. With the latter stays the link between the two halves of the
compiler: that what the front end prints is `Simplifiable`, `WellFormed`,
`OperandsFit` and `LinesWritten`, the hypotheses above, is evaluated for the programs of the instances,
and is not a theorem about every SPL program.

## 5 Plan

Done: every component of section 1 with state of its own, their composition from tree to
quadruples (`FrontEnd`) and from tree to machine (`execution`), and the theorems
above; the invariants of every component that has no recursion over trees are
proved. What is left:

1. `MipsRun` and `TacList` joined: a file read is the program compiled.
2. Tighter links between the halves: the hypotheses as invariants of `FrontEnd`'s run.

## 6 Not modelled

The lexer's patterns and the grammar's tables are generated; the productions for
syntax errors are endings of a text in `Driver`. The wording of messages
(`ErrorPrinter.hpp`) and the debugging output are left out, as are `strtol`'s
hexadecimal numbers and, in `Translate`, arrays, structures and floats, for which the
translator prints "not implemented" and no code. Sizes of fixed buffers other than
`buf`, memory that is never freed and the `malloc`/`delete[]` pair of the second pass
are below this level. FETCH, DEREF and ADDR quadruples are read (`TacLine`) and
generated (`MipsGen`) but not run: no construct of the front end prints them, and
programs of `MipsRun` that had one would stop there.
