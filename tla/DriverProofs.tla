------------------------------ MODULE DriverProofs ------------------------------
(***************************************************************************)
(* The driver's invariants for histories of any length and files of any    *)
(* size.  DriverInv says what is known in each phase of the text compiled  *)
(* and of the files; CodeOnlyOfGood needs it because the text of a file is *)
(* looked at long after the run that made it.                              *)
(***************************************************************************)
EXTENDS Driver, TLAPS

Printing == {"printing", "assembling", "writing"}

(* What has been ruled out by the time a phase is reached.                 *)
PhaseInv ==
  /\ phase # "idle" => compiling # 0
  /\ phase = "parsed" => Ending # "endless" /\ (has_error <=> Ending = "faulty")
  /\ phase \in {"analysing", "checking"} => Ending \notin {"faulty", "endless"}
  /\ phase = "analysed" =>
       Ending \notin {"faulty", "endless", "unparsed"} /\ (has_error <=> Ending = "mistyped")
  /\ phase = "translating" => Ending \in Translated \cup {"fatal"}
  /\ phase \in Printing => Ending \in Translated

(* What is on the disk and in the buffers.                                 *)
FileInv ==
  /\ file["s"].of <= file["ir"].of /\ file["ir"].of <= compiling
  /\ \A f \in {"ir", "s"} : file[f].lines > 0 => file[f].of # 0
  /\ phase \in {"translating"} \cup Printing => file["ir"].of = compiling
  /\ phase = "translating" => file["ir"].lines = 0
  /\ phase = "printing" => file["ir"].lines <= Lines
  /\ phase \in {"assembling", "writing"} => buf = File(compiling, Lines)
  /\ phase \notin {"parsed", "writing"} => pending = 0
  /\ phase = "parsed" => pending \in 0 .. 1 /\ (spl => file["out"].lines = 0)
  /\ phase = "parsing" /\ spl => file["out"].lines = 0
  /\ phase = "writing" => file["s"].of = compiling /\ Written <= Lines

DriverInv == DTypeOK /\ PhaseInv /\ FileInv /\ CodeOnlyOfGood

LEMMA DriverInvInit == ASSUME DInit PROVE DriverInv
<1>1. text \in Seq(Endings) /\ Len(text) = 1 BY DEF DInit
<1>2. file = [f \in Files |-> Absent] /\ buf = Absent /\ phase = "idle" BY DEF DInit
<1>3. DTypeOK
  <2>1. Absent \in [of : 0 .. Len(text), lines : 0 .. BufLines + 1]
    BY <1>1, DriverAssumption DEF Absent, File
  <2>2. file \in [Files -> [of : 0 .. Len(text), lines : 0 .. BufLines + 1]] BY <1>2, <2>1
  <2>3. spl \in BOOLEAN /\ has_error \in BOOLEAN BY DEF DInit
  <2>4. Len(text) \in 1 .. MaxEdits BY <1>1, DriverAssumption
  <2>5. compiling \in 0 .. Len(text) /\ pending \in 0 .. BufLines + 1
    BY <1>1, DriverAssumption DEF DInit
  <2>6. status = "none" BY DEF DInit
  <2>7. phase \in {"idle", "parsing", "parsed", "analysing", "checking", "analysed",
                  "translating", "printing", "assembling", "writing"} BY <1>2
  <2> QED BY <1>1, <1>2, <2>1, <2>2, <2>3, <2>4, <2>5, <2>6, <2>7 DEF DTypeOK
<1>4. PhaseInv /\ FileInv /\ CodeOnlyOfGood
  BY <1>2 DEF DInit, PhaseInv, FileInv, CodeOnlyOfGood, Absent, File, Files, Printing
<1> QED BY <1>3, <1>4 DEF DriverInv

LEMMA DriverInvStep == ASSUME DriverInv, [DNext]_dVars PROVE DriverInv'
<1> USE DriverAssumption DEF DriverInv, DTypeOK, PhaseInv, FileInv, CodeOnlyOfGood, Endings, Files,
        File, Absent, Printing, Translated, Ending, Lines, Written, Now, GoTo, EndsWith,
        Truncated, Flushed
<1>1. CASE Edit
  <2>1. PICK e \in Endings : text' = Append(text, e) BY <1>1 DEF Edit
  <2>2. text' \in Seq(Endings) /\ Len(text') = Len(text) + 1 BY <2>1
  <2>3. \A i \in 1 .. Len(text) : text'[i] = text[i] BY <2>1
  <2>4. DTypeOK' BY <1>1, <2>2 DEF Edit
  <2>5. PhaseInv' BY <1>1 DEF Edit
  <2>6. FileInv' BY <1>1 DEF Edit
  <2>7. CodeOnlyOfGood'
    <3>1. \A f \in Files : file[f].of \in 0 .. Len(text) OBVIOUS
    <3>2. \A f \in {"ir", "s"} : file[f].lines > 0 => file[f].of # 0 OBVIOUS
    <3> QED BY <1>1, <2>3, <3>1, <3>2 DEF Edit
  <2> QED BY <2>4, <2>5, <2>6, <2>7
<1>2. CASE Start
  <2>1. DTypeOK'
    <3>1. compiling' \in 0 .. Len(text') /\ UNCHANGED <<text, buf, pending, spl, status>>
      BY <1>2 DEF Start
    <3>2. file' \in [Files -> [of : 0 .. Len(text), lines : 0 .. BufLines + 1]]
      <4>1. File(compiling', 0) \in [of : 0 .. Len(text), lines : 0 .. BufLines + 1]
        BY <3>1
      <4> QED BY <1>2, <4>1 DEF Start
    <3> QED BY <1>2, <3>1, <3>2 DEF Start
  <2>2. PhaseInv' BY <1>2 DEF Start
  <2>3. FileInv' BY <1>2 DEF Start
  <2>4. CodeOnlyOfGood' BY <1>2 DEF Start
  <2> QED BY <2>1, <2>2, <2>3, <2>4
<1>3. CASE Parse
  <2>1. DTypeOK' BY <1>3 DEF Parse
  <2>2. PhaseInv' BY <1>3 DEF Parse
  <2>3. FileInv' BY <1>3 DEF Parse
  <2>4. CodeOnlyOfGood' BY <1>3 DEF Parse
  <2> QED BY <2>1, <2>2, <2>3, <2>4
<1>4. CASE CloseOut
  <2>1. DTypeOK'
    <3>1. spl /\ file["out"].lines = 0 /\ pending \in 0 .. 1 BY <1>4 DEF CloseOut
    <3>2. file' \in [Files -> [of : 0 .. Len(text), lines : 0 .. BufLines + 1]]
      BY SMTT(60), <1>4, <3>1 DEF CloseOut
    <3>3. UNCHANGED <<text, buf, compiling, spl, has_error>> /\ pending' = 0
      BY <1>4 DEF CloseOut
    <3>4. phase' \in {"idle", "analysing"} /\ status' \in {"0", status} BY <1>4 DEF CloseOut
    <3> QED BY SMTT(60), <3>2, <3>3, <3>4
  <2>2. PhaseInv' BY <1>4 DEF CloseOut
  <2>3. FileInv' BY <1>4 DEF CloseOut
  <2>4. CodeOnlyOfGood' BY <1>4 DEF CloseOut
  <2> QED BY <2>1, <2>2, <2>3, <2>4
<1>5. CASE NullFile BY <1>5 DEF NullFile
<1>6. CASE OpenOut BY <1>6 DEF OpenOut
<1>7. CASE Analyse
  <2>1. DTypeOK' BY SMTT(60), <1>7 DEF Analyse
  <2>2. PhaseInv' BY <1>7 DEF Analyse
  <2>3. FileInv' BY <1>7 DEF Analyse
  <2>4. CodeOnlyOfGood' BY <1>7 DEF Analyse
  <2> QED BY <2>1, <2>2, <2>3, <2>4
<1>8. CASE NullRoot BY <1>8 DEF NullRoot
<1>9. CASE StopAtError BY <1>9 DEF StopAtError
<1>10. CASE OpenIr BY <1>10 DEF OpenIr
<1>11. CASE Translate BY <1>11 DEF Translate
<1>12. CASE NullNode BY <1>12 DEF NullNode
<1>13. CASE PrintLine BY SMTT(60), <1>13 DEF PrintLine
<1>14. CASE ReadIr BY <1>14 DEF ReadIr
<1>15. CASE Overrun BY <1>15 DEF Overrun
<1>16. CASE OpenS BY <1>16 DEF OpenS
<1>22. CASE FailAssert BY <1>22 DEF FailAssert
<1>17. CASE WriteS BY <1>17 DEF WriteS
<1>18. CASE SpillS BY <1>18 DEF SpillS
<1>19. CASE CloseS BY <1>19 DEF CloseS
<1>20. CASE Kill BY <1>20 DEF Kill
<1>21. CASE UNCHANGED dVars BY <1>21 DEF dVars
<1> QED
  BY <1>1, <1>2, <1>3, <1>4, <1>5, <1>6, <1>7, <1>8, <1>9, <1>10, <1>11, <1>12, <1>13, <1>14,
     <1>15, <1>16, <1>17, <1>18, <1>19, <1>20, <1>21, <1>22 DEF DNext, Compile

(* In every behaviour, whatever the texts and wherever runs are killed.    *)
THEOREM DriverInvariant == DSpec => []DriverInv
<1>1. DInit => DriverInv BY DriverInvInit
<1>2. DriverInv /\ [DNext]_dVars => DriverInv' BY DriverInvStep
<1> QED BY <1>1, <1>2, PTL DEF DSpec

(* The driver's state has its types.                                       *)
THEOREM DriverTypeCorrect == DSpec => []DTypeOK
<1>1. DriverInv => DTypeOK BY DEF DriverInv
<1> QED BY <1>1, DriverInvariant, PTL

(* The back end reads the whole .ir file of the text being compiled.       *)
THEOREM AlwaysReadsWholeIr == DSpec => []ReadsWholeIr
<1>1. DriverInv => ReadsWholeIr BY DEF DriverInv, FileInv, ReadsWholeIr
<1> QED BY <1>1, DriverInvariant, PTL

(* No .ir or .s file ever has code of a text with an error in it.          *)
THEOREM AlwaysCodeOnlyOfGood == DSpec => []CodeOnlyOfGood
<1>1. DriverInv => CodeOnlyOfGood BY DEF DriverInv
<1> QED BY <1>1, DriverInvariant, PTL

(* A .s file is never newer than the .ir file beside it.                   *)
THEOREM AlwaysIrNotOlder == DSpec => []IrNotOlder
<1>1. DriverInv => IrNotOlder BY DEF DriverInv, FileInv, IrNotOlder
<1> QED BY <1>1, DriverInvariant, PTL

(* The .out file, from the opening of it to the end of the run: OutInv is  *)
(* inductive given DriverInv.                                              *)
OutInv ==
  /\ status # "none" => compiling # 0
  /\ phase \in {"parsing", "parsed"} /\ spl => file["out"] = File(compiling, 0)
  /\ phase = "parsed" => pending = IF has_error THEN 1 ELSE 0
  /\ phase = "checking" => file["out"] = File(compiling, 0)
  /\ phase = "analysed" =>
       IF has_error THEN file["out"].of = compiling /\ file["out"].lines = 1
       ELSE file["out"] = File(compiling, 0)
  /\ phase \in {"translating"} \cup Printing => file["out"] = File(compiling, 0)
  /\ ErrorsAreTold /\ NoMessageBesideCode

LEMMA OutInvStep == ASSUME DriverInv, OutInv, [DNext]_dVars PROVE OutInv'
<1> USE DriverAssumption DEF DriverInv, DTypeOK, PhaseInv, FileInv, OutInv, ErrorsAreTold,
        NoMessageBesideCode, Finished, Compiled, Endings, Files, File, Absent, Printing,
        Translated, Ending, Lines, Written, Now, GoTo, EndsWith, Truncated, Flushed
<1>1. CASE Edit
  <2>1. \A i \in 1 .. Len(text) : text'[i] = text[i] BY <1>1 DEF Edit
  <2>2. status # "none" => Ending' = Ending BY <1>1, <2>1 DEF Edit
  <2> QED BY <1>1, <2>2 DEF Edit
<1>2. CASE Start BY <1>2 DEF Start
<1>3. CASE Parse BY <1>3 DEF Parse
<1>4. CASE CloseOut
  <2>1. file["out"] = File(compiling, 0) /\ phase = "parsed" BY <1>4 DEF CloseOut
  <2>2. UNCHANGED <<text, compiling>> /\ compiling # 0 BY <1>4 DEF CloseOut
  <2>3. CASE has_error
    <3>1. Ending = "faulty" /\ pending = 1 BY <2>1, <2>3
    <3>2. file'["out"].of = compiling /\ file'["out"].lines = 1 BY <1>4, <2>1, <3>1 DEF CloseOut
    <3>3. phase' = "idle" BY <1>4, <2>3 DEF CloseOut
    <3> QED BY <2>2, <3>1, <3>2, <3>3
  <2>4. CASE ~has_error
    <3>1. phase' = "analysing" BY <1>4, <2>4 DEF CloseOut
    <3> QED BY <2>2, <3>1
  <2> QED BY <2>3, <2>4
<1>5. CASE NullFile BY <1>5 DEF NullFile
<1>6. CASE OpenOut BY <1>6 DEF OpenOut
<1>7. CASE Analyse
  <2>1. file["out"] = File(compiling, 0) /\ phase' = "analysed" BY <1>7 DEF Analyse
  <2>2. UNCHANGED <<text, compiling, status>> /\ compiling # 0 BY <1>7 DEF Analyse
  <2>3. CASE Ending = "mistyped"
    <3>1. has_error' BY <1>7, <2>3 DEF Analyse
    <3>2. file' = [file EXCEPT !["out"].lines = 1] BY <1>7, <2>3 DEF Analyse
    <3>3. file'["out"].of = compiling /\ file'["out"].lines = 1 BY <2>1, <3>2
    <3> QED BY <2>1, <2>2, <3>1, <3>3
  <2>4. CASE Ending # "mistyped"
    <3>1. ~has_error' /\ file'["out"] = File(compiling, 0) BY <1>7, <2>1, <2>4 DEF Analyse
    <3> QED BY <2>1, <2>2, <3>1
  <2> QED BY <2>3, <2>4
<1>8. CASE NullRoot BY <1>8 DEF NullRoot
<1>9. CASE StopAtError BY <1>9 DEF StopAtError
<1>10. CASE OpenIr BY <1>10 DEF OpenIr
<1>11. CASE Translate BY <1>11 DEF Translate
<1>12. CASE NullNode BY <1>12 DEF NullNode
<1>13. CASE PrintLine BY <1>13 DEF PrintLine
<1>14. CASE ReadIr BY <1>14 DEF ReadIr
<1>15. CASE Overrun BY <1>15 DEF Overrun
<1>16. CASE OpenS BY <1>16 DEF OpenS
<1>22. CASE FailAssert BY <1>22 DEF FailAssert
<1>17. CASE WriteS BY <1>17 DEF WriteS
<1>18. CASE SpillS BY <1>18 DEF SpillS
<1>19. CASE CloseS BY <1>19 DEF CloseS
<1>20. CASE Kill BY <1>20 DEF Kill
<1>21. CASE UNCHANGED dVars BY <1>21 DEF dVars
<1> QED
  BY <1>1, <1>2, <1>3, <1>4, <1>5, <1>6, <1>7, <1>8, <1>9, <1>10, <1>11, <1>12, <1>13, <1>14,
     <1>15, <1>16, <1>17, <1>18, <1>19, <1>20, <1>21, <1>22 DEF DNext, Compile

(* The .out file of a finished run has the error if the text has one, and  *)
(* nothing if it has been compiled.                                        *)
THEOREM OutInvariant == DSpec => []OutInv
<1>1. DInit => OutInv
  BY DEF DInit, OutInv, ErrorsAreTold, NoMessageBesideCode, Finished, Printing
<1>2. DriverInv /\ OutInv /\ [DNext]_dVars => OutInv' BY OutInvStep
<1> QED BY <1>1, <1>2, DriverInvariant, PTL DEF DSpec

(* A run that leaves no fresh .s file leaves a message.                    *)
THEOREM AlwaysErrorsAreTold == DSpec => []ErrorsAreTold
<1>1. OutInv => ErrorsAreTold BY DEF OutInv
<1> QED BY <1>1, OutInvariant, PTL

(* A run that compiles a good text leaves no message.                      *)
THEOREM AlwaysNoMessageBesideCode == DSpec => []NoMessageBesideCode
<1>1. OutInv => NoMessageBesideCode BY DEF OutInv
<1> QED BY <1>1, OutInvariant, PTL

(* Messages and code agree, in every history of runs, crashes and kills.   *)
THEOREM AlwaysMessagesMatchCode == DSpec => []MessagesMatchCode
<1>1. ErrorsAreTold /\ NoMessageBesideCode => MessagesMatchCode
  BY DEF MessagesMatchCode
<1> QED
  BY <1>1, AlwaysErrorsAreTold, AlwaysNoMessageBesideCode, PTL
================================================================================
