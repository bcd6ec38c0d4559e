--------------------------------- MODULE Driver ---------------------------------
(***************************************************************************)
(* splc from the outside: main of syntax.y and the functions it calls one  *)
(* inside the other (generateAssemblyCode, generateIntermidiateCode,       *)
(* analysisTreeNode).  A text is edited and compiled again and again; a    *)
(* run leaves x.out, x.ir and x.s beside x.spl, each truncated when it is  *)
(* opened and filled through a buffer, and may be killed at any step.      *)
(* What the phases do is reduced to how they end for a text:               *)
(*   good       a program that is translated and compiled;                 *)
(*   big        a translated one whose .ir file is larger than buf;        *)
(*   refused    a translated one of which the reader or the generator of   *)
(*              the back end fails an assert;                              *)
(*   endless    the text ends in a line comment without a newline: the     *)
(*              scanner, and yyparse with it, never returns;               *)
(*   faulty     a lexical or syntax error with a message;                  *)
(*   unparsed   yyparse gives up, says nothing and leaves root null;       *)
(*   mistyped   the analyser prints a message;                             *)
(*   fatal      the translator follows a null pointer.                     *)
(***************************************************************************)
EXTENDS Integers, Sequences

CONSTANTS MaxEdits,  \* texts in a history
          BufLines   \* lines that fit in buf, and of the .ir file of a good text

ASSUME DriverAssumption == MaxEdits \in Nat \ {0} /\ BufLines \in Nat \ {0}

Translated == {"good", "big", "refused"}
Endings == Translated \cup {"faulty", "endless", "unparsed", "mistyped", "fatal"}
Files == {"out", "ir", "s"}
File(v, n) == [of |-> v, lines |-> n]  \* n lines made from text v, 0: no text
Absent == File(0, 0)

VARIABLES spl,       \* the file name ends in .spl
          text,      \* the texts so far, the last one is in the file
          phase,     \* where the running compiler is, or idle
          compiling, \* the number of the text it reads
          has_error,
          file,      \* what is on the disk
          pending,   \* lines printed but still in the buffer of the stream
          buf,       \* what generateAssemblyCode has read of the .ir file
          status     \* how the last run ended: none, 0, crashed, killed

dVars == <<spl, text, phase, compiling, has_error, file, pending, buf, status>>

DInit ==
  /\ spl \in BOOLEAN
  /\ text \in [1 .. 1 -> Endings]
  /\ phase = "idle" /\ compiling = 0 /\ has_error = FALSE
  /\ file = [f \in Files |-> Absent]
  /\ pending = 0 /\ buf = Absent /\ status = "none"

Ending == text[compiling]
Lines == IF Ending = "big" THEN BufLines + 1 ELSE BufLines
Now(p) == phase = p
GoTo(p) == phase' = p /\ UNCHANGED <<spl, text, compiling, status>>
EndsWith(how) == phase' = "idle" /\ status' = how /\ pending' = 0
                 /\ UNCHANGED <<spl, text, compiling, buf>>
Truncated(f) == [file EXCEPT ![f] = File(compiling, 0)]
Flushed(f) == [file EXCEPT ![f].lines = @ + pending]

-------------------------------------------------------------------------------
(* main.  Without .spl at the end of the name output_file stays null.      *)
Edit ==
  /\ Now("idle") /\ Len(text) < MaxEdits
  /\ \E e \in Endings : text' = Append(text, e)
  /\ UNCHANGED <<spl, phase, compiling, has_error, file, pending, buf, status>>

StartOpensAll ==  \* all the results are opened first
  /\ Now("idle")
  /\ phase' = "parsing" /\ compiling' = Len(text)
  /\ has_error' = FALSE
  /\ file' = [file EXCEPT !["out"] = File(compiling', 0), !["s"] = File(compiling', 0)]
  /\ UNCHANGED <<spl, text, pending, buf, status>>
Start ==
  /\ Now("idle")
  /\ phase' = "parsing" /\ compiling' = Len(text)
  /\ has_error' = FALSE
  /\ file' = IF spl THEN [file EXCEPT !["out"] = File(compiling', 0)] ELSE file
  /\ UNCHANGED <<spl, text, pending, buf, status>>

Parse ==
  /\ Now("parsing") /\ Ending # "endless" /\ (Ending = "faulty" => spl)
  /\ GoTo("parsed")
  /\ has_error' = (Ending = "faulty")
  /\ pending' = IF Ending = "faulty" THEN 1 ELSE 0
  /\ UNCHANGED <<file, buf>>

CloseOutWipes ==  \* the .out file is opened again after an error too
  /\ Now("parsed") /\ spl
  /\ file' = Truncated("out")
  /\ IF has_error THEN EndsWith("0")
     ELSE GoTo("analysing") /\ pending' = 0 /\ UNCHANGED buf
  /\ UNCHANGED has_error
CloseOut ==
  /\ Now("parsed") /\ spl
  /\ file' = Flushed("out")
  /\ IF has_error THEN EndsWith("0")
     ELSE GoTo("analysing") /\ pending' = 0 /\ UNCHANGED buf
  /\ UNCHANGED has_error

NullFile ==       \* fprintf, fflush or fclose of a null output_file
  /\ ~spl
  /\ (Now("parsing") /\ Ending = "faulty") \/ Now("parsed")
  /\ EndsWith("crashed")
  /\ UNCHANGED <<has_error, file>>

-------------------------------------------------------------------------------
(* analysisTreeNode: the .out file is opened once more, by `out'.          *)
OpenOut ==
  /\ Now("analysing")
  /\ GoTo("checking")
  /\ file' = Truncated("out")
  /\ UNCHANGED <<has_error, pending, buf>>

Analyse ==        \* each message ends with endl
  /\ Now("checking") /\ Ending # "unparsed"
  /\ GoTo("analysed")
  /\ has_error' = (Ending = "mistyped")
  /\ file' = IF Ending = "mistyped" THEN [file EXCEPT !["out"].lines = 1] ELSE file
  /\ UNCHANGED <<pending, buf>>

NullRoot ==
  /\ Now("checking") /\ Ending = "unparsed"
  /\ EndsWith("crashed")
  /\ UNCHANGED <<has_error, file>>

(* generateIntermidiateCode: out is closed and opened as the .ir file.     *)
StopAtError ==
  /\ Now("analysed") /\ has_error
  /\ EndsWith("0")
  /\ UNCHANGED <<has_error, file>>

OpenIrAnyway ==
  /\ Now("analysed")
  /\ GoTo("translating")
  /\ file' = Truncated("ir")
  /\ UNCHANGED <<has_error, pending, buf>>
OpenIr ==
  /\ Now("analysed") /\ ~has_error
  /\ GoTo("translating")
  /\ file' = Truncated("ir")
  /\ UNCHANGED <<has_error, pending, buf>>

Translate ==
  /\ Now("translating") /\ Ending # "fatal"
  /\ GoTo("printing")
  /\ UNCHANGED <<has_error, file, pending, buf>>

NullNode ==
  /\ Now("translating") /\ Ending = "fatal"
  /\ EndsWith("crashed")
  /\ UNCHANGED <<has_error, file>>

PrintLineBuffered ==   \* a newline where the code has endl
  /\ Now("printing") /\ file["ir"].lines + pending < Lines
  /\ GoTo("printing")
  /\ pending' = pending + 1
  /\ UNCHANGED <<has_error, file, buf>>
PrintLine ==
  /\ Now("printing") /\ file["ir"].lines + pending < Lines
  /\ GoTo("printing")
  /\ file' = [file EXCEPT !["ir"].lines = @ + pending + 1]
  /\ pending' = 0
  /\ UNCHANGED <<has_error, buf>>

-------------------------------------------------------------------------------
(* generateAssemblyCode, which reads the .ir file while `out' has it open. *)
ReadIr ==
  /\ Now("printing") /\ file["ir"].lines + pending = Lines
  /\ GoTo("assembling")
  /\ buf' = file["ir"]
  /\ UNCHANGED <<has_error, file, pending>>

Overrun ==        \* what is behind buf was needed; else ReadIr goes well
  /\ Now("printing") /\ file["ir"].lines + pending = Lines /\ Lines > BufLines
  /\ EndsWith("crashed")
  /\ UNCHANGED <<has_error, file>>

FailAssert ==     \* in tac_from_buffer or mips32_gen
  /\ Now("assembling") /\ Ending = "refused"
  /\ EndsWith("crashed")
  /\ UNCHANGED <<has_error, file>>

OpenS ==
  /\ Now("assembling") /\ Ending # "refused"
  /\ GoTo("writing")
  /\ file' = Truncated("s")
  /\ UNCHANGED <<has_error, pending, buf>>

Written == file["s"].lines + pending
WriteS ==
  /\ Now("writing") /\ Written < buf.lines
  /\ GoTo("writing")
  /\ pending' = pending + 1
  /\ UNCHANGED <<has_error, file, buf>>

SpillS ==         \* the buffer of the stream is full
  /\ Now("writing") /\ pending > 0 /\ Written < buf.lines
  /\ GoTo("writing")
  /\ file' = Flushed("s")
  /\ pending' = 0
  /\ UNCHANGED <<has_error, buf>>

CloseSNoFlush ==
  /\ Now("writing") /\ Written = buf.lines
  /\ EndsWith("0")
  /\ UNCHANGED <<has_error, file>>
CloseS ==         \* .s has a line for each line of .ir
  /\ Now("writing") /\ Written = buf.lines
  /\ file' = Flushed("s")
  /\ EndsWith("0")
  /\ UNCHANGED has_error

(* From outside, at any step.                                              *)
Kill ==
  /\ phase # "idle"
  /\ EndsWith("killed")
  /\ UNCHANGED <<has_error, file>>

Compile == \/ Parse \/ CloseOut \/ NullFile \/ OpenOut \/ Analyse \/ NullRoot \/ StopAtError
           \/ OpenIr \/ Translate \/ NullNode \/ PrintLine \/ ReadIr \/ Overrun \/ FailAssert
           \/ OpenS \/ WriteS \/ SpillS \/ CloseS
DNext == Edit \/ Start \/ Compile \/ Kill

(* No fairness: a run may stand still, as an endless one does.             *)
DSpec == DInit /\ [][DNext]_dVars

-------------------------------------------------------------------------------
(* The state has its types.                                                *)
DTypeOK ==
  /\ spl \in BOOLEAN /\ has_error \in BOOLEAN
  /\ text \in Seq(Endings) /\ Len(text) \in 1 .. MaxEdits
  /\ phase \in {"idle", "parsing", "parsed", "analysing", "checking", "analysed",
                "translating", "printing", "assembling", "writing"}
  /\ compiling \in 0 .. Len(text)
  /\ file \in [Files -> [of : 0 .. Len(text), lines : 0 .. BufLines + 1]]
  /\ pending \in 0 .. BufLines + 1
  /\ buf \in [of : 0 .. Len(text), lines : 0 .. BufLines + 1]
  /\ status \in {"none", "0", "crashed", "killed"}

(* What the back end reads is all of the .ir file of this very text, though*)
(* nobody has closed it: no line is still in the buffer of out, and no     *)
(* earlier run's file is read in its place.                                *)
ReadsWholeIr == phase \in {"assembling", "writing"} => buf = File(compiling, Lines)

(* Whatever runs came before and wherever they broke off, an .ir or .s file*)
(* with anything in it is made from a text without an error.               *)
CodeOnlyOfGood == \A f \in {"ir", "s"} : file[f].lines > 0 => text[file[f].of] \in Translated

(* The .s file is never newer than the intermediate code beside it: the   *)
(* .ir file it was made from is there until a later run gets that far.     *)
IrNotOlder == file["s"].of <= file["ir"].of

Finished == phase = "idle" /\ status = "0"
Compiled == file["s"] = File(compiling, Lines)

(* A run that ends by itself and leaves no fresh, whole .s file has told   *)
(* why in the .out file.                                                   *)
ErrorsAreTold == Finished /\ ~Compiled => file["out"].of = compiling /\ file["out"].lines > 0

(* And a run that does leave one has no message left beside it, not even   *)
(* one of an earlier text.                                                 *)
NoMessageBesideCode == Finished /\ Ending = "good" => Compiled /\ file["out"] = File(compiling, 0)

(* So messages and code agree: after a run that ends by itself there are   *)
(* either fresh, whole code and no message or a message of this very text. *)
MessagesMatchCode == ErrorsAreTold /\ NoMessageBesideCode

================================================================================
