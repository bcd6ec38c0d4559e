-------------------------- MODULE LexCommentsProofs --------------------------
(***************************************************************************)
(* The scanner drops exactly the comments, whatever the text and however   *)
(* long it is.                                                             *)
(***************************************************************************)
EXTENDS LexComments, FiniteSetTheorems, WellFoundedInduction, TLAPS

(* A set of naturals that is not empty has a least element.                *)
LEMMA LeastElement ==
  ASSUME NEW T, T \subseteq Nat, T # {}
  PROVE  \E x \in T : \A y \in T : x <= y
<1>1. PICK x \in T : \A y \in T : ~(<<y, x>> \in OpToRel(<, Nat))
  BY WFMin, NatLessThanWellFounded
<1>2. ASSUME NEW y \in T PROVE x <= y
  <2>1. y < x => <<y, x>> \in OpToRel(<, Nat)
    BY DEF OpToRel
  <2>2. ~(y < x)
    BY <1>1, <2>1, Zenon
  <2> QED  BY <2>2
<1> QED
  BY <1>2

(* Where an opened comment ends.                                           *)
LEMMA EndOfComment ==
  ASSUME input \in Seq(Characters), NEW s \in Nat
  PROVE  /\ End(s) \in Nat
         /\ Ends(s) = {} => End(s) = Len(input)
         /\ \A e \in Ends(s) : (\A k \in Ends(s) : e <= k) => End(s) = e
<1>1. Ends(s) \subseteq Nat /\ Len(input) \in Nat
  BY DEF Ends, LineEnds, BlockEnds
<1>2. \A e \in Ends(s) : (\A k \in Ends(s) : e <= k) => End(s) = e
  <2> SUFFICES ASSUME NEW e \in Ends(s), \A k \in Ends(s) : e <= k PROVE End(s) = e
    OBVIOUS
  <2>1. \A j \in Ends(s) : (\A k \in Ends(s) : j <= k) => j = e
    BY <1>1
  <2> QED  BY <2>1 DEF End
<1>3. Ends(s) # {} => \E e \in Ends(s) : \A k \in Ends(s) : e <= k
  BY <1>1, LeastElement
<1> QED
  BY <1>1, <1>2, <1>3 DEF End

(* There is one way at most to divide a text into comments and the rest.   *)
LEMMA OneDivision ==
  ASSUME input \in Seq(Characters), NEW n \in Nat, NEW S, NEW U, Divides(S, n), Divides(U, n)
  PROVE  S = U
<1>1. /\ S \subseteq Nat /\ U \subseteq Nat
      /\ \A s \in S \cup U : End(s) \in Nat /\ s \in 1 .. n /\ Opening(s)
  BY SMTT(60), EndOfComment DEF Divides
<1> DEFINE D == (S \ U) \cup (U \ S)
<1>2. ASSUME D # {} PROVE FALSE
  <2>1. PICK x \in D : \A y \in D : x <= y
    BY <1>1, <1>2, LeastElement
  <2>2. CASE x \in S \ U
    <3>1. PICK u \in U : x \in u .. End(u)
      BY <1>1, <2>2 DEF Divides, Within
    <3>2. u < x /\ u \in S
      BY <1>1, <2>1, <2>2, <3>1
    <3>3. End(u) < x
      BY <2>2, <3>2 DEF Divides
    <3> QED  BY <1>1, <2>2, <3>1, <3>3
  <2>3. CASE x \in U \ S
    <3>1. PICK u \in S : x \in u .. End(u)
      BY <1>1, <2>3 DEF Divides, Within
    <3>2. u < x /\ u \in U
      BY <1>1, <2>1, <2>3, <3>1
    <3>3. End(u) < x
      BY <2>3, <3>2 DEF Divides
    <3> QED  BY <1>1, <2>3, <3>1, <3>3
  <2> QED  BY <2>1, <2>2, <2>3
<1> QED
  BY <1>2

(* One more character that opens no comment.                               *)
LEMMA DividesOneMore ==
  ASSUME input \in Seq(Characters), NEW S, NEW m \in Nat \ {0}, Divides(S, m - 1), ~Opening(m)
  PROVE  /\ Divides(S, m)
         /\ Outside(S, m) = Outside(S, m - 1) \cup (IF input[m] = "\n" THEN {} ELSE {m})
<1>1. \A s \in S : s \in 1 .. m - 1 /\ Opening(s) /\ End(s) <= m - 1 /\ End(s) \in Nat
  BY EndOfComment DEF Divides
<1>2. Divides(S, m)
  BY <1>1 DEF Divides
<1>3. \A s \in S : ~Within(m, s)
  BY <1>1 DEF Within
<1> QED
  BY <1>2, <1>3 DEF Outside

(* A whole comment more.                                                   *)
LEMMA DividesOneCommentMore ==
  ASSUME input \in Seq(Characters), NEW S, NEW s \in Nat \ {0}, Divides(S, s - 1),
         Opening(s), End(s) > s
  PROVE  /\ Divides(S \cup {s}, End(s))
         /\ Outside(S \cup {s}, End(s)) = Outside(S, s - 1)
<1> DEFINE e == End(s)
<1>1. \A u \in S : u \in 1 .. s - 1 /\ Opening(u) /\ End(u) <= s - 1 /\ End(u) \in Nat
  BY EndOfComment DEF Divides
<1>2. e \in Nat /\ e > s
  BY EndOfComment
<1>3. \A i \in s .. e : Within(i, s)
  BY DEF Within
<1>4. \A i \in 1 .. s - 1 : ~Within(i, s)
  BY <1>2 DEF Within
<1>5. \A u \in S \cup {s} : u \in 1 .. e /\ Opening(u) /\ End(u) <= e
  BY <1>1, <1>2
<1>6. \A t, u \in S \cup {s} : t < u => End(t) < u
  <2> SUFFICES ASSUME NEW t \in S \cup {s}, NEW u \in S \cup {s}, t < u PROVE End(t) < u
    OBVIOUS
  <2>1. CASE t \in S /\ u \in S
    BY <2>1 DEF Divides
  <2>2. CASE t \in S /\ u = s
    BY <1>1, <2>2
  <2>3. CASE t = s
    BY <1>1, <2>3
  <2> QED  BY <2>1, <2>2, <2>3
<1>7. \A i \in 1 .. e : Opening(i) => \E u \in S \cup {s} : Within(i, u)
  <2> SUFFICES ASSUME NEW i \in 1 .. e, Opening(i) PROVE \E u \in S \cup {s} : Within(i, u)
    OBVIOUS
  <2>1. CASE i \in s .. e
    BY <1>3, <2>1
  <2>2. CASE i \in 1 .. s - 1
    BY <2>2 DEF Divides
  <2> QED  BY <1>2, <2>1, <2>2
<1>8. Divides(S \cup {s}, e)
  BY <1>5, <1>6, <1>7 DEF Divides
<1>9. Outside(S \cup {s}, e) = Outside(S, s - 1)
  BY <1>2, <1>3, <1>4 DEF Outside
<1> QED
  BY <1>8, <1>9

(* The line of the next character.                                         *)
LEMMA NextLine ==
  ASSUME input \in Seq(Characters), NEW i \in Nat \ {0}
  PROVE  LineOf(i) \in Nat /\ LineOf(i + 1) = IF input[i] = "\n" THEN LineOf(i) + 1 ELSE LineOf(i)
<1> DEFINE N(k) == {j \in 1 .. k - 1 : input[j] = "\n"}
<1>1. IsFiniteSet(N(i)) /\ Cardinality(N(i)) \in Nat
  <2>1. IsFiniteSet(1 .. i - 1)
    BY FS_Interval
  <2>2. N(i) \in SUBSET (1 .. i - 1)
    OBVIOUS
  <2> QED  BY <2>1, <2>2, FS_Subset, FS_CardinalityType
<1>2. CASE input[i] = "\n"
  <2>1. N(i + 1) = N(i) \cup {i} /\ i \notin N(i)
    BY <1>2
  <2> HIDE DEF N
  <2>2. Cardinality(N(i + 1)) = Cardinality(N(i)) + 1
    BY <1>1, <2>1, FS_AddElement
  <2> QED  BY <1>1, <1>2, <2>2 DEF LineOf, N
<1>3. CASE input[i] # "\n"
  <2>1. N(i + 1) = N(i)
    BY <1>3
  <2> HIDE DEF N
  <2>2. Cardinality(N(i + 1)) = Cardinality(N(i))
    BY <2>1
  <2> QED  BY <1>1, <1>3, <2>2 DEF LineOf, N
<1> QED
  BY <1>2, <1>3

-------------------------------------------------------------------------------
(* The state: S starts the comments behind the scanner; inside a comment it*)
(* started at s, and nothing since then has closed it.                     *)
Token1 == [char : Characters, line : Nat, pos : Nat]

Between(S) == /\ scanning \in {"patterns", "over"}
              /\ Divides(S, at - 1) /\ TokensAre(S, at - 1)
              /\ unclosed = IF Unclosed(S) THEN <<LineOf(Len(input) + 1)>> ELSE << >>
InLine(S, s) == /\ scanning = "line"
                /\ Is(s, "/", "/") /\ \A j \in s + 2 .. at - 1 : input[j] # "\n"
InBlock(S, s) == /\ scanning = "block"
                 /\ Is(s, "/", "*") /\ \A j \in s + 3 .. at - 1 : ~Is(j - 1, "*", "/")
                 /\ c = IF at = s + 2 THEN NUL ELSE input[at - 1]
InComment(S, s) == /\ s \in Nat \ {0} /\ s + 2 <= at
                   /\ Divides(S, s - 1) /\ TokensAre(S, s - 1)
                   /\ unclosed = << >> /\ ~Unclosed(S)
                   /\ InLine(S, s) \/ InBlock(S, s)

LexTyped == /\ input \in Seq(Characters)
            /\ at \in 1 .. Len(input) + 1
            /\ tokens \in Seq(Token1)
            /\ yylineno = LineOf(at)
            /\ scanning = "over" => at = Len(input) + 1
LexInv == LexTyped /\ \E S \in SUBSET Nat : Between(S) \/ \E s \in Nat : InComment(S, s)

(* Nothing said of the text changes while the text does not.               *)
LEMMA SameText ==
  ASSUME input' = input
  PROVE  /\ \A i : Opening(i)' <=> Opening(i)
         /\ \A i, a, b : Is(i, a, b)' <=> Is(i, a, b)
         /\ \A S, n : Divides(S, n)' <=> Divides(S, n)
         /\ \A S, n : Outside(S, n)' = Outside(S, n)
         /\ \A S : Unclosed(S)' <=> Unclosed(S)
         /\ \A i : LineOf(i)' = LineOf(i)
<1>1. \A i : Char(i)' = Char(i)
  BY DEF Char
<1>2. /\ \A i, a, b : Is(i, a, b)' <=> Is(i, a, b)
      /\ \A i : Opening(i)' <=> Opening(i)
  BY <1>1 DEF Is, Opening
<1>3. \A i : LineEnds(i)' = LineEnds(i) /\ BlockEnds(i)' = BlockEnds(i)
  BY <1>2 DEF LineEnds, BlockEnds
<1>4. \A i : Ends(i)' = Ends(i)
  BY <1>2, <1>3 DEF Ends
<1>5. ASSUME NEW i PROVE End(i)' = End(i)
  <2> DEFINE Least(T) == CHOOSE j \in T : \A k \in T : j <= k
  <2>1. Least(Ends(i)') = Least(Ends(i))
    <3>1. Ends(i)' = Ends(i)
      BY <1>4
    <3> HIDE DEF Least
    <3> QED  BY <3>1
  <2>2. /\ End(i) = IF Ends(i) = {} THEN Len(input) ELSE Least(Ends(i))
        /\ End(i)' = IF Ends(i)' = {} THEN Len(input') ELSE Least(Ends(i)')
    BY DEF End
  <2> HIDE DEF Least
  <2> QED  BY <1>4, <2>1, <2>2
<1>6. \A i, s : Within(i, s)' <=> Within(i, s)
  BY <1>5 DEF Within
<1>7. \A S, n : Divides(S, n)' <=> Divides(S, n)
  BY <1>2, <1>5, <1>6 DEF Divides
<1>8. \A S, n : Outside(S, n)' = Outside(S, n)
  BY <1>6 DEF Outside
<1>9. \A S : Unclosed(S)' <=> Unclosed(S)
  BY <1>2, <1>3 DEF Unclosed
<1>10. \A i : LineOf(i)' = LineOf(i)
  BY DEF LineOf
<1> QED
  BY <1>2, <1>7, <1>8, <1>9, <1>10

LEMMA CharAt ==
  ASSUME input \in Seq(Characters), NEW i \in Nat \ {0}
  PROVE  /\ Char(i) = NUL <=> i > Len(input)
         /\ i <= Len(input) => Char(i) = input[i] /\ input[i] \in Characters
BY DEF Char, NUL, Characters

(* No comment is unclosed before the end of the text.                      *)
LEMMA ClosedSoFar ==
  ASSUME input \in Seq(Characters), NEW S, NEW n \in Nat, Divides(S, n), n < Len(input)
  PROVE  ~Unclosed(S)
<1> SUFFICES ASSUME NEW s \in S, Is(s, "/", "*"), BlockEnds(s) = {} PROVE FALSE
  BY DEF Unclosed
<1>1. ~Is(s, "/", "/")
  BY DEF Is
<1>2. Ends(s) = {}
  BY <1>1 DEF Ends
<1>3. s \in Nat /\ End(s) <= n
  BY DEF Divides
<1>4. End(s) = Len(input)
  BY <1>2, <1>3, EndOfComment
<1> QED
  BY <1>3, <1>4

LEMMA TokensStay ==
  ASSUME input' = input, tokens' = tokens, NEW S, NEW n, NEW U, NEW m,
         Outside(U, m) = Outside(S, n), TokensAre(S, n)
  PROVE  TokensAre(U, m)'
<1>1. Outside(U, m)' = Outside(S, n)
  BY SameText
<1> QED
  BY <1>1, SameText DEF TokensAre

(* What there is to show of a step that ends between comments ...          *)
LEMMA BetweenNext ==
  ASSUME input' = input, NEW S, NEW n \in Nat, scanning' \in {"patterns", "over"}, at' = n + 1,
         Divides(S, n), TokensAre(S, n)',
         unclosed' = IF Unclosed(S) THEN <<LineOf(Len(input) + 1)>> ELSE << >>
  PROVE  Between(S)'
<1>1. at' - 1 = n
  OBVIOUS
<1>2. Divides(S, n)' /\ (Unclosed(S)' <=> Unclosed(S))
  BY SameText
<1>3. \A m : m = n => Divides(S, m)' /\ TokensAre(S, m)'
  BY <1>2
<1>4. \A m : m = Len(input) + 1 => LineOf(m)' = LineOf(Len(input) + 1)
  BY SameText
<1> QED
  BY <1>1, <1>2, <1>3, <1>4 DEF Between

(* ... or inside one.                                                      *)
LEMMA InCommentNext ==
  ASSUME input' = input, tokens' = tokens, unclosed' = << >>,
         NEW S, NEW s \in Nat \ {0}, s + 2 <= at', Divides(S, s - 1), TokensAre(S, s - 1),
         ~Unclosed(S), InLine(S, s)' \/ InBlock(S, s)'
  PROVE  InComment(S, s)'
<1>1. \A m : m = s - 1 => Divides(S, m)' /\ TokensAre(S, m)'
  BY SameText, TokensStay
<1>2. ~Unclosed(S)'
  BY SameText
<1> QED
  BY <1>1, <1>2 DEF InComment

-------------------------------------------------------------------------------
(* The actions.  First what a step between comments starts from.           *)
LEMMA AtPatterns ==
  ASSUME LexInv, scanning = "patterns"
  PROVE  \E S \in SUBSET Nat, m \in Nat \ {0} :
            /\ m = at /\ m <= Len(input) + 1 /\ yylineno = LineOf(m) /\ Len(input) \in Nat
            /\ Divides(S, m - 1) /\ TokensAre(S, m - 1)
            /\ unclosed = IF Unclosed(S) THEN <<LineOf(Len(input) + 1)>> ELSE << >>
            /\ m <= Len(input) => ~Unclosed(S) /\ unclosed = << >>
<1>1. PICK S \in SUBSET Nat : Between(S)
  BY DEF LexInv, InComment, InLine, InBlock
<1>2. /\ input \in Seq(Characters) /\ Len(input) \in Nat /\ at \in Nat \ {0}
      /\ at <= Len(input) + 1 /\ yylineno = LineOf(at)
  BY DEF LexInv, LexTyped
<1>3. at <= Len(input) => ~Unclosed(S)
  <2>1. at - 1 \in Nat /\ (at <= Len(input) => at - 1 < Len(input))
    BY <1>2
  <2> QED  BY <1>1, <1>2, <2>1, ClosedSoFar DEF Between
<1> QED
  BY <1>1, <1>2, <1>3 DEF Between

LEMMA NewlineKeeps == LexInv /\ Newline => LexInv'
<1> SUFFICES ASSUME LexInv, Newline PROVE LexInv'
  OBVIOUS
<1>1. /\ input' = input /\ tokens' = tokens /\ unclosed' = unclosed /\ scanning' = "patterns"
      /\ at' = at + 1 /\ buffer = "\n" /\ scanning = "patterns" /\ yylineno' = yylineno + 1
  BY DEF Newline, Consume
<1>2. input \in Seq(Characters) /\ tokens \in Seq(Token1)
  BY DEF LexInv, LexTyped
<1>3. PICK S \in SUBSET Nat, m \in Nat \ {0} :
            /\ m = at /\ m <= Len(input) + 1 /\ yylineno = LineOf(m) /\ Len(input) \in Nat
            /\ Divides(S, m - 1) /\ TokensAre(S, m - 1)
            /\ unclosed = IF Unclosed(S) THEN <<LineOf(Len(input) + 1)>> ELSE << >>
            /\ m <= Len(input) => ~Unclosed(S) /\ unclosed = << >>
  BY <1>1, AtPatterns
<1>4. m <= Len(input) /\ input[m] = "\n" /\ Char(m) = "\n"
  BY <1>1, <1>2, <1>3, CharAt DEF buffer, NUL
<1>5. ~Opening(m)
  BY <1>4 DEF Opening, Is
<1>6. Divides(S, m) /\ Outside(S, m) = Outside(S, m - 1)
  <2>1. Divides(S, m) /\ Outside(S, m) = Outside(S, m - 1) \cup {}
    BY <1>2, <1>3, <1>4, <1>5, DividesOneMore
  <2> QED  BY <2>1
<1>7. TokensAre(S, m)'
  BY <1>1, <1>3, <1>6, TokensStay
<1>8. Between(S)'
  BY <1>1, <1>3, <1>6, <1>7, BetweenNext
<1>9. LexTyped'
  <2>1. \A n : n = m + 1 => LineOf(n)' = yylineno'
    BY <1>1, <1>2, <1>3, <1>4, NextLine, SameText
  <2> QED  BY <1>1, <1>2, <1>3, <1>4, <2>1 DEF LexTyped
<1> QED
  BY <1>8, <1>9 DEF LexInv

LEMMA TokenKeeps == LexInv /\ Token => LexInv'
<1> SUFFICES ASSUME LexInv, Token PROVE LexInv'
  OBVIOUS
<1> DEFINE tk == [char |-> buffer, line |-> yylineno, pos |-> at]
<1>1. /\ input' = input /\ tokens' = Append(tokens, tk) /\ unclosed' = unclosed
      /\ scanning' = "patterns" /\ scanning = "patterns"
      /\ at' = at + 1 /\ buffer \in {"/", "*", "x"} /\ ~Opens("/") /\ ~Opens("*")
      /\ yylineno' = yylineno
  BY DEF Token, Consume
<1>2. input \in Seq(Characters) /\ tokens \in Seq(Token1)
  BY DEF LexInv, LexTyped
<1>3. PICK S \in SUBSET Nat, m \in Nat \ {0} :
            /\ m = at /\ m <= Len(input) + 1 /\ yylineno = LineOf(m) /\ Len(input) \in Nat
            /\ Divides(S, m - 1) /\ TokensAre(S, m - 1)
            /\ unclosed = IF Unclosed(S) THEN <<LineOf(Len(input) + 1)>> ELSE << >>
            /\ m <= Len(input) => ~Unclosed(S) /\ unclosed = << >>
  BY <1>1, AtPatterns
<1>4. m <= Len(input) /\ input[m] \in {"/", "*", "x"} /\ Char(m) = input[m] /\ buffer = input[m]
  BY <1>1, <1>2, <1>3, CharAt DEF buffer, NUL
<1>5. ~Opening(m)
  BY <1>1, <1>3 DEF Opening, Is, Opens, buffer
<1>6. Divides(S, m) /\ Outside(S, m) = Outside(S, m - 1) \cup {m}
  BY <1>2, <1>3, <1>4, <1>5, DividesOneMore
<1>7. LineOf(m) \in Nat /\ LineOf(m + 1) = LineOf(m)
  BY <1>2, <1>4, NextLine
<1>8. tk \in Token1 /\ tk.char = input[m] /\ tk.line = LineOf(m) /\ tk.pos = m
  BY <1>3, <1>4, <1>7 DEF Token1, Characters
<1> HIDE DEF tk
<1>9. /\ tokens' \in Seq(Token1) /\ Len(tokens') = Len(tokens) + 1 /\ Len(tokens) \in Nat
      /\ tokens'[Len(tokens) + 1] = tk
      /\ \A k \in 1 .. Len(tokens) : tokens'[k] = tokens[k]
      /\ DOMAIN tokens = 1 .. Len(tokens) /\ DOMAIN tokens' = 1 .. Len(tokens) + 1
  BY <1>1, <1>2, <1>8
<1>10. TokensAre(S, m)'
  <2>1. \A k \in DOMAIN tokens : tokens[k].pos \in 1 .. m - 1
    BY <1>3 DEF TokensAre, Outside
  <2>2. {tokens'[k].pos : k \in DOMAIN tokens'} = {tokens[k].pos : k \in DOMAIN tokens} \cup {m}
    BY <1>8, <1>9
  <2>3. {tokens'[k].pos : k \in DOMAIN tokens'} = Outside(S, m)'
    BY <1>1, <1>3, <1>6, <2>2, SameText DEF TokensAre
  <2>4. ASSUME NEW k \in DOMAIN tokens', NEW l \in DOMAIN tokens', k < l
        PROVE  tokens'[k].pos < tokens'[l].pos
    <3>1. CASE l \in DOMAIN tokens
      BY <2>4, <3>1, <1>3, <1>9 DEF TokensAre
    <3>2. CASE l = Len(tokens) + 1
      <4>1. k \in DOMAIN tokens
        BY <2>4, <3>2, <1>9
      <4> QED  BY <3>2, <4>1, <2>1, <1>8, <1>9
    <3> QED  BY <3>1, <3>2, <1>9
  <2>5. ASSUME NEW k \in DOMAIN tokens'
        PROVE  /\ tokens'[k].char = input[tokens'[k].pos]
               /\ \A n : n = tokens'[k].pos => tokens'[k].line = LineOf(n)
    <3>1. CASE k \in DOMAIN tokens
      BY <3>1, <1>3, <1>9 DEF TokensAre
    <3>2. CASE k = Len(tokens) + 1
      BY <3>2, <1>8, <1>9
    <3> QED  BY <3>1, <3>2, <1>9
  <2>6. \A k \in DOMAIN tokens' : \A n : n = tokens'[k].pos => tokens'[k].line = LineOf(n)'
    BY <1>1, <2>5, SameText
  <2> QED  BY <1>1, <2>3, <2>4, <2>5, <2>6 DEF TokensAre
<1>11. Between(S)'
  BY <1>1, <1>3, <1>6, <1>10, BetweenNext
<1>12. LexTyped'
  <2>1. \A n : n = m + 1 => LineOf(n)' = yylineno'
    BY <1>1, <1>3, <1>7, SameText
  <2> QED  BY <1>1, <1>2, <1>3, <1>4, <1>9, <2>1 DEF LexTyped
<1> QED
  BY <1>11, <1>12 DEF LexInv

(* What a step inside a comment starts from.                               *)
LEMMA AtComment ==
  ASSUME LexInv, scanning \in {"line", "block"}
  PROVE  \E S \in SUBSET Nat, s \in Nat \ {0}, m \in Nat \ {0} :
            /\ m = at /\ m <= Len(input) + 1 /\ yylineno = LineOf(m) /\ Len(input) \in Nat
            /\ InComment(S, s) /\ s + 2 <= m
BY DEF LexInv, LexTyped, Between, InComment

(* A comment that has come to its end.                                     *)
LEMMA CommentCloses ==
  ASSUME input \in Seq(Characters), input' = input, tokens' = tokens,
         NEW S \in SUBSET Nat, NEW s \in Nat \ {0}, NEW e \in Nat,
         InComment(S, s), Opening(s), End(s) = e, e > s,
         scanning' \in {"patterns", "over"}, at' = e + 1,
         unclosed' = IF Is(s, "/", "*") /\ BlockEnds(s) = {}
                     THEN <<LineOf(Len(input) + 1)>> ELSE << >>
  PROVE  Between(S \cup {s})'
<1>1. Divides(S \cup {s}, e) /\ Outside(S \cup {s}, e) = Outside(S, s - 1)
  BY DividesOneCommentMore DEF InComment
<1>2. TokensAre(S \cup {s}, e)'
  BY <1>1, TokensStay DEF InComment
<1>3. Unclosed(S \cup {s}) <=> Is(s, "/", "*") /\ BlockEnds(s) = {}
  BY DEF InComment, Unclosed
<1> QED
  BY <1>1, <1>2, <1>3, BetweenNext

LEMMA OpenKeeps == LexInv /\ (OpenLine \/ OpenBlock) => LexInv'
<1> SUFFICES ASSUME LexInv, OpenLine \/ OpenBlock PROVE LexInv'
  OBVIOUS
<1>1. /\ input' = input /\ tokens' = tokens /\ unclosed' = unclosed
      /\ scanning = "patterns" /\ at' = at + 2 /\ buffer = "/" /\ yylineno' = yylineno
      /\ \/ Opens("/") /\ scanning' = "line"
         \/ Opens("*") /\ scanning' = "block" /\ c' = NUL
  BY DEF OpenLine, OpenBlock, Consume, Opens
<1>2. input \in Seq(Characters) /\ tokens \in Seq(Token1)
  BY DEF LexInv, LexTyped
<1>3. PICK S \in SUBSET Nat, m \in Nat \ {0} :
            /\ m = at /\ m <= Len(input) + 1 /\ yylineno = LineOf(m) /\ Len(input) \in Nat
            /\ Divides(S, m - 1) /\ TokensAre(S, m - 1)
            /\ unclosed = IF Unclosed(S) THEN <<LineOf(Len(input) + 1)>> ELSE << >>
            /\ m <= Len(input) => ~Unclosed(S) /\ unclosed = << >>
  BY <1>1, AtPatterns
<1>4. Char(m) = "/" /\ Char(m + 1) \in {"/", "*"}
  BY <1>1, <1>3 DEF Opens, buffer
<1>5. /\ m + 1 <= Len(input) /\ input[m] = "/" /\ input[m + 1] \in {"/", "*"}
  <2>1. m + 1 \in Nat \ {0}
    OBVIOUS
  <2>2. m + 1 <= Len(input)
    BY <1>2, <1>3, <1>4, <2>1, CharAt DEF NUL
  <2> QED  BY <1>2, <1>3, <1>4, <2>1, <2>2, CharAt
<1>6. LineOf(m + 2) = LineOf(m)
  <2>1. LineOf(m + 1) = LineOf(m)
    BY <1>2, <1>5, NextLine
  <2>2. PICK k \in Nat \ {0} : k = m + 1
    OBVIOUS
  <2>3. LineOf(k + 1) = LineOf(k)
    BY <1>2, <1>5, <2>2, NextLine
  <2>4. k + 1 = m + 2
    BY <2>2
  <2> QED  BY <2>1, <2>2, <2>3, <2>4
<1>7. LexTyped'
  <2>1. \A n : n = m + 2 => LineOf(n)' = yylineno'
    BY <1>1, <1>3, <1>6, SameText
  <2> QED  BY <1>1, <1>2, <1>3, <1>5, <2>1 DEF LexTyped
<1>8. InLine(S, m)' \/ InBlock(S, m)'
  <2>1. CASE Opens("/") /\ scanning' = "line"
    <3>1. Is(m, "/", "/")'
      BY <1>1, <1>3, <2>1, SameText DEF Is, Opens, buffer
    <3> QED  BY <1>1, <1>3, <2>1, <3>1 DEF InLine
  <2>2. CASE Opens("*") /\ scanning' = "block" /\ c' = NUL
    <3>1. Is(m, "/", "*")'
      BY <1>1, <1>3, <2>2, SameText DEF Is, Opens, buffer
    <3> QED  BY <1>1, <1>3, <2>2, <3>1 DEF InBlock
  <2> QED  BY <1>1, <2>1, <2>2
<1>9. InComment(S, m)'
  BY <1>1, <1>3, <1>5, <1>8, InCommentNext
<1> QED
  BY <1>7, <1>9 DEF LexInv

LEMMA SkipLineKeeps == LexInv /\ SkipLine => LexInv'
<1> SUFFICES ASSUME LexInv, SkipLine PROVE LexInv'
  OBVIOUS
<1>1. /\ input' = input /\ tokens' = tokens /\ unclosed' = unclosed /\ scanning = "line"
      /\ at' = at + (IF buffer = NUL THEN 0 ELSE 1)
      /\ yylineno' = IF buffer = "\n" THEN yylineno + 1 ELSE yylineno
      /\ scanning' = IF buffer = "\n" THEN "patterns" ELSE "line"
  BY DEF SkipLine, Consume
<1>2. input \in Seq(Characters) /\ tokens \in Seq(Token1)
  BY DEF LexInv, LexTyped
<1>3. PICK S \in SUBSET Nat, s \in Nat \ {0}, m \in Nat \ {0} :
            /\ m = at /\ m <= Len(input) + 1 /\ yylineno = LineOf(m) /\ Len(input) \in Nat
            /\ InComment(S, s) /\ s + 2 <= m
  BY <1>1, AtComment
<1>4. /\ Is(s, "/", "/") /\ \A j \in s + 2 .. m - 1 : input[j] # "\n"
      /\ Divides(S, s - 1) /\ TokensAre(S, s - 1) /\ unclosed = << >> /\ ~Unclosed(S)
  BY <1>1, <1>3 DEF InComment, InLine, InBlock
<1>5. Opening(s) /\ ~Is(s, "/", "*") /\ Ends(s) = LineEnds(s)
  BY <1>4 DEF Opening, Ends, Is
<1>6. CASE buffer = NUL
  <2>1. at' = m /\ yylineno' = yylineno /\ scanning' = "line"
    BY <1>1, <1>3, <1>6 DEF NUL
  <2>2. InLine(S, s)'
    BY <1>1, <1>3, <1>4, <2>1, SameText DEF InLine
  <2>3. InComment(S, s)'
    BY <1>1, <1>3, <1>4, <2>1, <2>2, InCommentNext
  <2>4. LexTyped'
    <3>1. \A n : n = m => LineOf(n)' = yylineno'
      BY <1>3, <1>1, <2>1, SameText
    <3> QED  BY <1>1, <1>2, <1>3, <2>1, <3>1 DEF LexTyped
  <2> QED  BY <2>3, <2>4 DEF LexInv
<1>7. CASE buffer # NUL
  <2>1. m <= Len(input) /\ input[m] = buffer /\ at' = m + 1
    BY <1>1, <1>2, <1>3, <1>7, CharAt DEF buffer
  <2>2. LexTyped'
    <3>1. \A n : n = m + 1 => LineOf(n)' = yylineno'
      BY <1>1, <1>2, <1>3, <2>1, NextLine, SameText
    <3>2. scanning' # "over"
      BY <1>1
    <3> QED  BY <1>1, <1>2, <1>3, <2>1, <3>1, <3>2 DEF LexTyped
  <2>3. CASE buffer = "\n"
    <3>1. m \in LineEnds(s) /\ \A k \in LineEnds(s) : m <= k
      BY <1>3, <1>4, <2>1, <2>3 DEF LineEnds
    <3>2. End(s) = m
      BY <1>2, <1>5, <3>1, EndOfComment
    <3>3. m > s
      BY <1>3
    <3>4. Between(S \cup {s})'
      BY <1>1, <1>2, <1>3, <1>4, <1>5, <2>1, <2>3, <3>2, <3>3, CommentCloses
    <3> QED  BY <2>2, <3>4 DEF LexInv
  <2>4. CASE buffer # "\n"
    <3>1. \A j \in s + 2 .. m : input[j] # "\n"
      BY <1>3, <1>4, <2>1, <2>4
    <3>2. InLine(S, s)'
      BY <1>1, <1>3, <1>4, <2>1, <2>4, <3>1, SameText DEF InLine
    <3>3. InComment(S, s)'
      BY <1>1, <1>3, <1>4, <2>1, <3>2, InCommentNext
    <3> QED  BY <2>2, <3>3 DEF LexInv
  <2> QED  BY <2>3, <2>4
<1> QED
  BY <1>6, <1>7

LEMMA SkipBlockKeeps == LexInv /\ SkipBlock => LexInv'
<1> SUFFICES ASSUME LexInv, SkipBlock PROVE LexInv'
  OBVIOUS
<1>1. /\ input' = input /\ tokens' = tokens /\ unclosed' = unclosed /\ scanning = "block"
      /\ buffer # NUL /\ at' = at + 1 /\ c' = buffer
      /\ yylineno' = IF buffer = "\n" THEN yylineno + 1 ELSE yylineno
      /\ scanning' = IF c = "*" /\ buffer = "/" THEN "patterns" ELSE "block"
  BY DEF SkipBlock, Consume
<1>2. input \in Seq(Characters) /\ tokens \in Seq(Token1)
  BY DEF LexInv, LexTyped
<1>3. PICK S \in SUBSET Nat, s \in Nat \ {0}, m \in Nat \ {0} :
            /\ m = at /\ m <= Len(input) + 1 /\ yylineno = LineOf(m) /\ Len(input) \in Nat
            /\ InComment(S, s) /\ s + 2 <= m
  BY <1>1, AtComment
<1>4. /\ Is(s, "/", "*") /\ \A j \in s + 3 .. m - 1 : ~Is(j - 1, "*", "/")
      /\ c = IF m = s + 2 THEN NUL ELSE input[m - 1]
      /\ Divides(S, s - 1) /\ TokensAre(S, s - 1) /\ unclosed = << >> /\ ~Unclosed(S)
  BY <1>1, <1>3 DEF InComment, InLine, InBlock
<1>5. Opening(s) /\ Ends(s) = BlockEnds(s)
  BY <1>4 DEF Opening, Ends, Is
<1>6. m <= Len(input) /\ Char(m) = buffer /\ input[m] = buffer /\ at' = m + 1
  BY <1>1, <1>2, <1>3, CharAt DEF buffer
<1>7. LexTyped'
  <2>1. \A n : n = m + 1 => LineOf(n)' = yylineno'
    BY <1>1, <1>2, <1>3, <1>6, NextLine, SameText
  <2>2. scanning' # "over"
    BY <1>1
  <2> QED  BY <1>1, <1>2, <1>3, <1>6, <2>1, <2>2 DEF LexTyped
<1>8. m # s + 2 => (c = "*" /\ buffer = "/" <=> Is(m - 1, "*", "/"))
  <2> SUFFICES ASSUME m # s + 2 PROVE c = "*" /\ buffer = "/" <=> Is(m - 1, "*", "/")
    OBVIOUS
  <2>1. m - 1 \in Nat \ {0} /\ m - 1 <= Len(input) /\ (m - 1) + 1 = m
    BY <1>3, <1>6
  <2>2. Char(m - 1) = input[m - 1]
    BY <1>2, <2>1, CharAt
  <2> QED  BY <1>4, <1>6, <2>1, <2>2 DEF Is
<1>9. CASE c = "*" /\ buffer = "/"
  <2>1. m # s + 2 /\ Is(m - 1, "*", "/")
    BY <1>4, <1>8, <1>9 DEF NUL
  <2>2. m \in BlockEnds(s) /\ \A k \in BlockEnds(s) : m <= k
    BY <1>3, <1>4, <1>6, <2>1 DEF BlockEnds
  <2>3. End(s) = m
    BY <1>2, <1>5, <2>2, EndOfComment
  <2>4. m > s /\ BlockEnds(s) # {}
    BY <1>3, <2>2
  <2>5. Between(S \cup {s})'
    BY <1>1, <1>2, <1>3, <1>4, <1>5, <1>6, <1>9, <2>3, <2>4, CommentCloses
  <2> QED  BY <1>7, <2>5 DEF LexInv
<1>10. CASE ~(c = "*" /\ buffer = "/")
  <2>1. \A j \in s + 3 .. m : ~Is(j - 1, "*", "/")
    BY <1>3, <1>4, <1>8, <1>10
  <2>2. InBlock(S, s)'
    <3>1. Is(s, "/", "*")' /\ \A j \in s + 3 .. m : \A n : n = j - 1 => ~Is(n, "*", "/")'
      BY <1>1, <1>4, <2>1, SameText
    <3>2. at' - 1 = m /\ at' # s + 2 /\ scanning' = "block" /\ c' = input'[m]
      BY <1>1, <1>3, <1>6, <1>10
    <3> QED  BY <3>1, <3>2 DEF InBlock
  <2>3. InComment(S, s)'
    BY <1>1, <1>3, <1>4, <1>6, <2>2, InCommentNext
  <2> QED  BY <1>7, <2>3 DEF LexInv
<1> QED
  BY <1>9, <1>10

(* At the end of the text nothing closes the comment any more.             *)
LEMMA BlockUnclosedKeeps == LexInv /\ BlockUnclosed => LexInv'
<1> SUFFICES ASSUME LexInv, BlockUnclosed PROVE LexInv'
  OBVIOUS
<1>1. /\ input' = input /\ tokens' = tokens /\ unclosed' = Append(unclosed, yylineno)
      /\ scanning = "block" /\ scanning' = "patterns" /\ buffer = NUL /\ at' = at
      /\ yylineno' = yylineno
  BY DEF BlockUnclosed
<1>2. input \in Seq(Characters) /\ tokens \in Seq(Token1)
  BY DEF LexInv, LexTyped
<1>3. PICK S \in SUBSET Nat, s \in Nat \ {0}, m \in Nat \ {0} :
            /\ m = at /\ m <= Len(input) + 1 /\ yylineno = LineOf(m) /\ Len(input) \in Nat
            /\ InComment(S, s) /\ s + 2 <= m
  BY <1>1, AtComment
<1>4. /\ Is(s, "/", "*") /\ \A j \in s + 3 .. m - 1 : ~Is(j - 1, "*", "/")
      /\ unclosed = << >>
  BY <1>1, <1>3 DEF InComment, InLine, InBlock
<1>5. m = Len(input) + 1
  <2>1. Char(m) = NUL
    BY <1>1, <1>3 DEF buffer
  <2>2. m > Len(input)
    BY <1>2, <2>1, CharAt
  <2> QED  BY <1>3, <2>2
<1>6. Opening(s) /\ Ends(s) = BlockEnds(s) /\ BlockEnds(s) = {}
  BY <1>3, <1>4, <1>5 DEF Opening, Ends, Is, BlockEnds
<1>7. End(s) = Len(input) /\ Len(input) > s
  <2>1. End(s) = Len(input)
    BY <1>2, <1>6, EndOfComment
  <2>2. Len(input) > s
    BY <1>3, <1>5
  <2> QED  BY <2>1, <2>2
<1>8. unclosed' = <<LineOf(Len(input) + 1)>>
  BY <1>1, <1>3, <1>4, <1>5
<1>9. Between(S \cup {s})'
  BY <1>1, <1>2, <1>3, <1>4, <1>5, <1>6, <1>7, <1>8, CommentCloses
<1>10. LexTyped'
  <2>1. \A n : n = m => LineOf(n)' = yylineno'
    BY <1>1, <1>3, SameText
  <2> QED  BY <1>1, <1>2, <1>3, <2>1 DEF LexTyped
<1> QED
  BY <1>9, <1>10 DEF LexInv

LEMMA EndOfFileKeeps == LexInv /\ EndOfFile => LexInv'
<1> SUFFICES ASSUME LexInv, EndOfFile PROVE LexInv'
  OBVIOUS
<1>1. /\ input' = input /\ tokens' = tokens /\ unclosed' = unclosed
      /\ scanning = "patterns" /\ scanning' = "over" /\ buffer = NUL /\ at' = at
      /\ yylineno' = yylineno
  BY DEF EndOfFile
<1>2. input \in Seq(Characters) /\ tokens \in Seq(Token1)
  BY DEF LexInv, LexTyped
<1>3. PICK S \in SUBSET Nat, m \in Nat \ {0} :
            /\ m = at /\ m <= Len(input) + 1 /\ yylineno = LineOf(m) /\ Len(input) \in Nat
            /\ Divides(S, m - 1) /\ TokensAre(S, m - 1)
            /\ unclosed = IF Unclosed(S) THEN <<LineOf(Len(input) + 1)>> ELSE << >>
            /\ m <= Len(input) => ~Unclosed(S) /\ unclosed = << >>
  BY <1>1, AtPatterns
<1>4. m = Len(input) + 1
  BY <1>1, <1>2, <1>3, CharAt DEF buffer
<1>5. TokensAre(S, m - 1)'
  BY <1>1, <1>3, TokensStay
<1>6. m - 1 \in Nat /\ at' = (m - 1) + 1
  BY <1>1, <1>3
<1>7. Between(S)'
  BY <1>1, <1>3, <1>5, <1>6, BetweenNext
<1>8. LexTyped'
  <2>1. \A n : n = m => LineOf(n)' = yylineno'
    BY <1>1, <1>3, SameText
  <2> QED  BY <1>1, <1>2, <1>3, <1>4, <2>1 DEF LexTyped
<1> QED
  BY <1>7, <1>8 DEF LexInv

-------------------------------------------------------------------------------
LEMMA LexInvInit == LexInit => LexInv
<1> SUFFICES ASSUME LexInit PROVE LexInv
  OBVIOUS
<1>1. input \in Seq(Characters)
  BY LengthAssumption DEF LexInit
<1>2. at = 1 /\ tokens = << >> /\ scanning = "patterns" /\ yylineno = 1 /\ unclosed = << >>
  BY DEF LexInit
<1>3. LineOf(1) = 1
  <2>1. {j \in 1 .. 1 - 1 : input[j] = "\n"} = {}
    OBVIOUS
  <2> QED  BY <2>1, FS_EmptySet DEF LineOf
<1>4. LexTyped
  BY <1>1, <1>2, <1>3 DEF LexTyped
<1>5. Divides({}, 0) /\ Outside({}, 0) = {} /\ ~Unclosed({})
  BY DEF Divides, Outside, Unclosed
<1>6. TokensAre({}, 0)
  BY <1>2, <1>5 DEF TokensAre
<1>7. Between({})
  BY <1>2, <1>5, <1>6 DEF Between
<1> QED
  BY <1>4, <1>7 DEF LexInv

LEMMA LexInvStep == LexInv /\ [LexNext]_lexVars => LexInv'
<1> SUFFICES ASSUME LexInv, [LexNext]_lexVars PROVE LexInv'
  OBVIOUS
<1>1. CASE UNCHANGED lexVars
  <2>1. UNCHANGED <<input, at, scanning, c, yylineno, tokens, unclosed>>
    BY <1>1 DEF lexVars
  <2>2. LexTyped'
    BY <2>1 DEF LexInv, LexTyped, LineOf
  <2>3. PICK S \in SUBSET Nat : Between(S) \/ \E s \in Nat : InComment(S, s)
    BY DEF LexInv
  <2>4. PICK m : m = at
    OBVIOUS
  <2>5. at \in Nat \ {0} /\ input \in Seq(Characters)
    BY DEF LexInv, LexTyped
  <2>6. CASE Between(S)
    <3>1. PICK n \in Nat : n = at - 1 /\ at = n + 1
      BY <2>5
    <3>2. TokensAre(S, n)'
      BY <2>1, <2>6, <3>1, TokensStay DEF Between
    <3>3. Between(S)'
      BY <2>1, <2>6, <3>1, <3>2, BetweenNext DEF Between
    <3> QED  BY <2>2, <3>3 DEF LexInv
  <2>7. CASE \E s \in Nat : InComment(S, s)
    <3>1. PICK s \in Nat \ {0} : InComment(S, s)
      BY <2>7 DEF InComment
    <3>2. InLine(S, s) => InLine(S, s)'
      BY <2>1, SameText DEF InLine
    <3>3. InBlock(S, s) => InBlock(S, s)'
      BY <2>1 DEF InBlock, Is, Char
    <3>4. InComment(S, s)'
      BY <2>1, <3>1, <3>2, <3>3, InCommentNext DEF InComment
    <3> QED  BY <2>2, <3>4 DEF LexInv
  <2> QED  BY <2>3, <2>6, <2>7
<1> QED
  BY <1>1, NewlineKeeps, TokenKeeps, OpenKeeps, SkipLineKeeps, SkipBlockKeeps, BlockUnclosedKeeps,
     EndOfFileKeeps DEF LexNext

(* In every state of every scan what has been passed is divided into       *)
(* comments and text, and the open comment, if any, is where it began.     *)
THEOREM LexInvariant == LexSpec => []LexInv
<1> QED
  BY LexInvInit, LexInvStep, PTL DEF LexSpec

(* Whatever the text and its length: between comments, and so when the     *)
(* scanner is done, the tokens are the characters outside the comments, in *)
(* order, each with its line.                                              *)
THEOREM AlwaysTokensOutside == LexSpec => []TokensOutsideComments
<1>1. LexInv => TokensOutsideComments
  <2> SUFFICES ASSUME LexInv, scanning \in {"patterns", "over"}
               PROVE  \E S \in Divisions(at - 1) : TokensAre(S, at - 1)
    BY DEF TokensOutsideComments
  <2>1. PICK S \in SUBSET Nat : Between(S)
    BY DEF LexInv, InComment, InLine, InBlock
  <2>2. S \in Divisions(at - 1)
    BY <2>1 DEF Between, Divisions, Divides
  <2> QED  BY <2>1, <2>2 DEF Between
<1> QED
  BY <1>1, LexInvariant, PTL

(* "Missing closing symbol" is printed, once and with the last line, if    *)
(* and only if a block comment is not closed.                              *)
THEOREM AlwaysUnclosedIsTold == LexSpec => []UnclosedIsTold
<1>1. LexInv => UnclosedIsTold
  <2> SUFFICES ASSUME LexInv, scanning = "over"
               PROVE  \E S \in Divisions(Len(input)) :
                         unclosed = IF Unclosed(S) THEN <<LineOf(Len(input) + 1)>> ELSE << >>
    BY DEF UnclosedIsTold
  <2>1. PICK S \in SUBSET Nat : Between(S)
    BY DEF LexInv, InComment, InLine, InBlock
  <2>2. at - 1 = Len(input)
    BY DEF LexInv, LexTyped
  <2>3. S \in Divisions(Len(input))
    BY <2>1, <2>2 DEF Between, Divisions, Divides
  <2> QED  BY <2>1, <2>3 DEF Between
<1> QED
  BY <1>1, LexInvariant, PTL

(* And that is said of one division: there is no second one, at any point  *)
(* of the text.                                                            *)
THEOREM DivisionIsUnique ==
  ASSUME input \in Seq(Characters), NEW n \in Nat, NEW S \in Divisions(n), NEW U \in Divisions(n)
  PROVE  S = U
<1> QED
  BY OneDivision DEF Divisions

==============================================================================
