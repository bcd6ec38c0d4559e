------------------------------- MODULE LexComments -------------------------------
(***************************************************************************)
(* How the scanner of lex.l gets past comments.  Only "//" and the opening *)
(* of a block comment are patterns; what follows is read character by      *)
(* character with yyinput, inside the action of the pattern, up to a       *)
(* newline or up to a star and a slash.  The other tokens are taken to be  *)
(* one character long: slash, star, and x for any other.                   *)
(***************************************************************************)
EXTENDS Integers, Sequences, FiniteSets

CONSTANT MaxLength  \* characters of a text

ASSUME LengthAssumption == MaxLength \in Nat

Characters == {"/", "*", "\n", "x"}
NUL == "NUL"        \* what yyinput gives at the end of the text

VARIABLES input,    \* the text
          at,       \* the next character
          scanning, \* patterns, line, block, or over
          c,        \* the character before, in a block comment
          yylineno,
          tokens,   \* the tokens returned, each with its line and place (yylloc)
          unclosed  \* the lines "Missing closing symbol" was printed for

lexVars == <<input, at, scanning, c, yylineno, tokens, unclosed>>

LexInit ==
  /\ input \in UNION {[1 .. k -> Characters] : k \in 0 .. MaxLength}
  /\ at = 1 /\ scanning = "patterns" /\ c = NUL /\ yylineno = 1
  /\ tokens = << >> /\ unclosed = << >>

Char(i) == IF i \in DOMAIN input THEN input[i] ELSE NUL
buffer == Char(at)
Opens(second) == buffer = "/" /\ Char(at + 1) = second

(* The scanner and yyinput both count the newlines they consume.           *)
Consume(k) ==
  /\ at' = at + k
  /\ yylineno' = IF buffer = "\n" THEN yylineno + 1 ELSE yylineno
  /\ UNCHANGED input

-------------------------------------------------------------------------------
Newline ==
  /\ scanning = "patterns" /\ buffer = "\n"
  /\ Consume(1)
  /\ UNCHANGED <<scanning, c, tokens, unclosed>>

TokenFirst ==       \* the shorter pattern wins
  /\ scanning = "patterns" /\ buffer \in {"/", "*", "x"}
  /\ Consume(1)
  /\ tokens' = Append(tokens, [char |-> buffer, line |-> yylineno, pos |-> at])
  /\ UNCHANGED <<scanning, c, unclosed>>
Token ==
  /\ scanning = "patterns" /\ buffer \in {"/", "*", "x"} /\ ~Opens("/") /\ ~Opens("*")
  /\ Consume(1)
  /\ tokens' = Append(tokens, [char |-> buffer, line |-> yylineno, pos |-> at])
  /\ UNCHANGED <<scanning, c, unclosed>>

OpenLine ==
  /\ scanning = "patterns" /\ Opens("/")
  /\ Consume(2)
  /\ scanning' = "line"
  /\ UNCHANGED <<c, tokens, unclosed>>

OpenBlockAtStar ==  \* the star of the opening may close as well
  /\ scanning = "patterns" /\ Opens("*")
  /\ Consume(2)
  /\ scanning' = "block" /\ c' = "*"
  /\ UNCHANGED <<tokens, unclosed>>
OpenBlock ==
  /\ scanning = "patterns" /\ Opens("*")
  /\ Consume(2)
  /\ scanning' = "block" /\ c' = NUL
  /\ UNCHANGED <<tokens, unclosed>>

(* while(yyinput() != '\n'): at the end of the text it gets NUL for ever.  *)
SkipLine ==
  /\ scanning = "line"
  /\ Consume(IF buffer = NUL THEN 0 ELSE 1)
  /\ scanning' = IF buffer = "\n" THEN "patterns" ELSE "line"
  /\ UNCHANGED <<c, tokens, unclosed>>

SkipBlock ==
  /\ scanning = "block" /\ buffer # NUL
  /\ Consume(1)
  /\ scanning' = IF c = "*" /\ buffer = "/" THEN "patterns" ELSE "block"
  /\ c' = buffer
  /\ UNCHANGED <<tokens, unclosed>>

BlockUnclosedReadsOn ==  \* NUL is no end
  /\ scanning = "block" /\ buffer = NUL
  /\ UNCHANGED lexVars
BlockUnclosedSilent ==
  /\ scanning = "block" /\ buffer = NUL
  /\ scanning' = "patterns"
  /\ UNCHANGED <<input, at, c, yylineno, tokens, unclosed>>
BlockUnclosed ==
  /\ scanning = "block" /\ buffer = NUL
  /\ scanning' = "patterns"
  /\ unclosed' = Append(unclosed, yylineno)
  /\ UNCHANGED <<input, at, c, yylineno, tokens>>

EndOfFile ==
  /\ scanning = "patterns" /\ buffer = NUL
  /\ scanning' = "over"
  /\ UNCHANGED <<input, at, c, yylineno, tokens, unclosed>>

LexNext == \/ Newline \/ Token \/ OpenLine \/ OpenBlock \/ SkipLine \/ SkipBlock
           \/ BlockUnclosed \/ EndOfFile
LexSpec == LexInit /\ [][LexNext]_lexVars /\ WF_lexVars(LexNext)

-------------------------------------------------------------------------------
(* What a comment is: from the start of its opening up to and with the end *)
(* of the first closing behind it, or the end of the text.                 *)
Is(i, a, b) == Char(i) = a /\ Char(i + 1) = b
Opening(i) == Is(i, "/", "/") \/ Is(i, "/", "*")
LineEnds(i)  == {j \in i + 2 .. Len(input) : input[j] = "\n"}
BlockEnds(i) == {j \in i + 3 .. Len(input) : Is(j - 1, "*", "/")}
Ends(i) == IF Is(i, "/", "/") THEN LineEnds(i) ELSE BlockEnds(i)
End(i) == IF Ends(i) = {} THEN Len(input) ELSE CHOOSE j \in Ends(i) : \A k \in Ends(i) : j <= k
Within(i, s) == i \in s .. End(s)

(* S are the places where the comments of the first n characters start: the*)
(* comments are apart, and every opening is in one, so that an opening     *)
(* inside a comment is none.  There is at most one such S.                 *)
Divides(S, n) == /\ \A s \in S : s \in 1 .. n /\ Opening(s) /\ End(s) <= n
                 /\ \A s, u \in S : s < u => End(s) < u
                 /\ \A i \in 1 .. n : Opening(i) => \E s \in S : Within(i, s)
Divisions(n) == {S \in SUBSET {i \in 1 .. n : Opening(i)} : Divides(S, n)}

Outside(S, n) == {i \in 1 .. n : input[i] # "\n" /\ \A s \in S : ~Within(i, s)}
LineOf(i) == 1 + Cardinality({j \in 1 .. i - 1 : input[j] = "\n"})

(* What is returned of the first n characters, if S starts their comments. *)
TokensAre(S, n) ==
  /\ {tokens[k].pos : k \in DOMAIN tokens} = Outside(S, n)
  /\ \A k, l \in DOMAIN tokens : k < l => tokens[k].pos < tokens[l].pos
  /\ \A k \in DOMAIN tokens : /\ tokens[k].char = input[tokens[k].pos]
                              /\ tokens[k].line = LineOf(tokens[k].pos)

(* The tokens are the characters outside the comments, in order and each   *)
(* with the line it is on: the loops over yyinput stop neither early nor   *)
(* late and lose no newline of the count.                                  *)
TokensOutsideComments ==
  scanning \in {"patterns", "over"} => \E S \in Divisions(at - 1) : TokensAre(S, at - 1)

(* "Missing closing symbol" is printed for a block comment that nothing    *)
(* closes, with the last line's number, and for nothing else.              *)
Unclosed(S) == \E s \in S : Is(s, "/", "*") /\ BlockEnds(s) = {}
UnclosedIsTold ==
  scanning = "over" =>
    \E S \in Divisions(Len(input)) :
       unclosed = IF Unclosed(S) THEN <<LineOf(Len(input) + 1)>> ELSE << >>

EndsInLineComment ==
  \E S \in Divisions(Len(input)) : \E s \in S : Is(s, "/", "/") /\ LineEnds(s) = {}

(* The scanner gets to the end of a text, unless the text ends in a line   *)
(* comment.                                                                *)
LexEnds == EndsInLineComment \/ <>(scanning = "over")
================================================================================
