---------------------------- MODULE SimplifyProofs ----------------------------
(***************************************************************************)
(* Dead code elimination is right for every graph and every code: the walk *)
(* marks exactly the names the roots need, of a code its graph covers only *)
(* stores of names no kept line mentions are dropped, and the program that *)
(* is left means what the whole one means.                                 *)
(***************************************************************************)
EXTENDS KeptRun, FiniteSetTheorems, TLAPS

(* What is known of a translator's output and of the pointers into it.     *)
LEMMA OutputTypes ==
  ASSUME made \in Outputs
  PROVE  /\ Names \subseteq Vars /\ NoVar \notin Names
         /\ made.dmap \in [Names -> Seq(Names)]
         /\ made.graphRoots \in Seq(NodePointers(Names))
         /\ made.code \in Seq(Seq(Tokens))
BY OutputsAssumption, NamesAssumption DEF Names

(* The successors of a node are names, and Null has none.                  *)
LEMMA AdjTypes ==
  ASSUME made \in Outputs, NEW n \in NodePointers(Names)
  PROVE  Adj(n) \in Seq(Names)
BY OutputTypes DEF Adj, NodePointers

LEMMA PointerTypes ==
  ASSUME made \in Outputs
  PROVE  /\ Null \in NodePointers(Names)
         /\ \A v \in Names : Named(v) \in NodePointers(Names)
BY OutputTypes, NamesAssumption DEF Null, Named, Node, NodePointers

-------------------------------------------------------------------------------
(* The state of simplify has its types, for every output of the translator.*)
THEOREM SimpTypeCorrect == SimpSafety => []SimpTypeOK
<1>1. SimpInit => SimpTypeOK
  BY OutputTypes, PointerTypes DEF SimpInit, SimpTypeOK
<1>2. SimpTypeOK /\ [SimpNext]_simpVars => SimpTypeOK'
  <2> SUFFICES ASSUME SimpTypeOK, [SimpNext]_simpVars PROVE SimpTypeOK'
    OBVIOUS
  <2> USE DEF SimpTypeOK
  <2>1. CASE SkipVisited
    BY <2>1 DEF SkipVisited, Names
  <2>2. CASE TakeNode
    <3>1. Head(graphRoots) \in NodePointers(Names) /\ Tail(graphRoots) \in Seq(NodePointers(Names))
      BY <2>2 DEF TakeNode
    <3>2. Marked(Head(graphRoots)) \subseteq Names
      BY <3>1 DEF Marked, NodePointers
    <3>3. visited' = Marked(Head(graphRoots)) /\ curr' = Head(graphRoots) /\ sub' = 1
      BY <2>2 DEF TakeNode, Marked
    <3> QED
      BY <2>2, <3>1, <3>2, <3>3 DEF TakeNode, Names
  <2>3. CASE FollowNull
    BY <2>3 DEF FollowNull, Names
  <2>4. CASE PushSubnode
    <3>1. Adj(curr) \in Seq(Names)
      BY AdjTypes
    <3>2. Adj(curr)[sub] \in Names
      BY <3>1, <2>4 DEF PushSubnode
    <3>3. Named(Adj(curr)[sub]) \in NodePointers(Names)
      BY <3>2, PointerTypes
    <3>4. graphRoots' \in Seq(NodePointers(Names))
      BY <2>4, <3>3 DEF PushSubnode
    <3> QED
      BY <2>4, <3>4 DEF PushSubnode, Names
  <2>5. CASE LeaveNode
    BY <2>5, PointerTypes DEF LeaveNode, Names
  <2>6. CASE EndWalk
    BY <2>6 DEF EndWalk, Names
  <2>7. CASE FilterLine
    <3>1. made.code[in_i] \in Seq(Tokens)
      BY <2>7, OutputTypes DEF FilterLine
    <3>2. resultLines' \in Seq(Seq(Tokens))
      BY <2>7, <3>1 DEF FilterLine
    <3> QED
      BY <2>7, <3>2 DEF FilterLine, Names
  <2>8. CASE EndFilter
    BY <2>8 DEF EndFilter, Names
  <2>9. CASE UNCHANGED simpVars
    BY <2>9 DEF simpVars, Names
  <2> QED
    BY <2>1, <2>2, <2>3, <2>4, <2>5, <2>6, <2>7, <2>8, <2>9 DEF SimpNext
<1> QED
  BY <1>1, <1>2, PTL DEF SimpSafety

-------------------------------------------------------------------------------
(* What the queue promises: a step of it at a time.                        *)
LEMMA QueueOfHead ==
  ASSUME NEW S, NEW r \in Seq(S), r # << >>
  PROVE  Range(r) = {Head(r)} \cup Range(Tail(r))
<1>1. \A i \in DOMAIN r : i = 1 \/ (i - 1 \in DOMAIN Tail(r) /\ Tail(r)[i - 1] = r[i])
  OBVIOUS
<1>2. \A i \in DOMAIN Tail(r) : i + 1 \in DOMAIN r /\ r[i + 1] = Tail(r)[i]
  OBVIOUS
<1>3. Head(r) = r[1] /\ 1 \in DOMAIN r
  OBVIOUS
<1> QED
  BY <1>1, <1>2, <1>3 DEF Range

LEMMA QueueOfAppend ==
  ASSUME NEW S, NEW r \in Seq(S), NEW x \in S
  PROVE  Range(Append(r, x)) = Range(r) \cup {x}
<1>1. \A i \in DOMAIN r : i \in DOMAIN Append(r, x) /\ Append(r, x)[i] = r[i]
  OBVIOUS
<1>2. \A i \in DOMAIN Append(r, x) : i \in DOMAIN r \/ Append(r, x)[i] = x
  OBVIOUS
<1>3. Len(r) + 1 \in DOMAIN Append(r, x) /\ Append(r, x)[Len(r) + 1] = x
  OBVIOUS
<1> QED
  BY <1>1, <1>2, <1>3 DEF Range

LEMMA NamesOfUnion ==
  ASSUME NEW A, NEW B
  PROVE  NamesOf(A \cup B) = NamesOf(A) \cup NamesOf(B)
BY Zenon DEF NamesOf

Fresh(n) == IF n.kind = "named" THEN {n.name} ELSE Range(n.adj)
LEMMA NamesOfOne == ASSUME NEW n PROVE NamesOf({n}) = Fresh(n)
BY DEF NamesOf, Fresh

LEMMA NamesOfQueue ==
  ASSUME SimpTypeOK, graphRoots # << >>
  PROVE  NamesOf(Range(graphRoots)) = Fresh(Head(graphRoots)) \cup NamesOf(Range(Tail(graphRoots)))
<1>1. Range(graphRoots) = {Head(graphRoots)} \cup Range(Tail(graphRoots))
  BY QueueOfHead DEF SimpTypeOK
<1>2. NamesOf({Head(graphRoots)} \cup Range(Tail(graphRoots)))
        = NamesOf({Head(graphRoots)}) \cup NamesOf(Range(Tail(graphRoots)))
  BY NamesOfUnion
<1>3. NamesOf({Head(graphRoots)}) = Fresh(Head(graphRoots))
  BY NamesOfOne
<1> QED
  BY <1>1, <1>2, <1>3

LEMMA NoneOfNull == ASSUME SimpTypeOK PROVE sub .. Len(Adj(Null)) = {}
BY DEF SimpTypeOK, Adj, Null, Node

(* Names only leave Pending for visited; they come into it with the node   *)
(* that is taken.                                                          *)
Promised == visited \cup Pending

LEMMA SkipKeeps ==
  ASSUME SimpTypeOK, SkipVisited
  PROVE  Promised' = Promised
<1>1. NamesOf(Range(graphRoots)) = Fresh(Head(graphRoots)) \cup NamesOf(Range(Tail(graphRoots)))
  BY NamesOfQueue DEF SkipVisited
<1>2. Fresh(Head(graphRoots)) \subseteq visited
  BY DEF SkipVisited, Seen, Fresh
<1>3. Adj(curr)' = Adj(curr)
  BY DEF SkipVisited, Adj
<1> QED
  BY <1>1, <1>2, <1>3 DEF SkipVisited, Promised, Pending

LEMMA TakeAdds ==
  ASSUME SimpTypeOK, TakeNode
  PROVE  /\ Promised' = Promised \cup Range(Adj(Head(graphRoots)))
         /\ Fresh(Head(graphRoots)) \subseteq Promised
         /\ visited' = visited \cup (IF Head(graphRoots).kind = "named"
                                      THEN {Head(graphRoots).name} ELSE {})
<1> DEFINE h == Head(graphRoots)
<1>1. NamesOf(Range(graphRoots)) = Fresh(h) \cup NamesOf(Range(Tail(graphRoots)))
  BY NamesOfQueue DEF TakeNode
<1>2. /\ curr' = h /\ sub' = 1 /\ graphRoots' = Tail(graphRoots) /\ made' = made
      /\ visited' = visited \cup (IF h.kind = "named" THEN {h.name} ELSE {})
  BY DEF TakeNode, Marked
<1>3. Adj(curr)' = Adj(h) /\ Adj(h) \in Seq(Names)
  <2>1. h \in NodePointers(Names)
    BY DEF SimpTypeOK, TakeNode
  <2> QED
    BY <1>2, <2>1, AdjTypes DEF Adj, SimpTypeOK
<1>4. {Adj(h)[i] : i \in 1 .. Len(Adj(h))} = Range(Adj(h))
  BY <1>3 DEF Range
<1>5. Pending' = NamesOf(Range(Tail(graphRoots))) \cup Range(Adj(h))
  BY <1>2, <1>3, <1>4 DEF Pending
<1>6. Pending = NamesOf(Range(graphRoots))
  <2>1. curr = Null
    BY DEF TakeNode, BetweenNodes
  <2> QED
    BY <2>1, NoneOfNull DEF Pending
<1>7. Fresh(h) = IF h.kind = "named" THEN {h.name} ELSE Range(Adj(h))
  BY DEF Fresh, Adj
<1> HIDE DEF h
<1> QED
  BY <1>1, <1>2, <1>5, <1>6, <1>7 DEF Promised, h

LEMMA PushKeeps ==
  ASSUME SimpTypeOK, PushSubnode
  PROVE  Promised' = Promised
<1> DEFINE a == Adj(curr)
<1>1. a \in Seq(Names) /\ sub \in 1 .. Len(a) /\ sub' = sub + 1 /\ visited' = visited
  BY AdjTypes DEF SimpTypeOK, PushSubnode
<1>2. Adj(curr)' = a
  BY DEF PushSubnode, Adj
<1>3. {a[i] : i \in sub .. Len(a)} = {a[sub]} \cup {a[i] : i \in sub + 1 .. Len(a)}
  BY <1>1
<1>4. visited \cup NamesOf(Range(graphRoots')) = visited \cup NamesOf(Range(graphRoots)) \cup {a[sub]}
  <2>1. CASE a[sub] \in visited
    BY <2>1 DEF PushSubnode
  <2>2. CASE a[sub] \notin visited
    <3>1. Named(a[sub]) \in NodePointers(Names)
      BY <1>1, PointerTypes DEF SimpTypeOK
    <3>2. Range(graphRoots') = Range(graphRoots) \cup {Named(a[sub])}
      BY <2>2, <3>1, QueueOfAppend DEF PushSubnode, SimpTypeOK
    <3>3. NamesOf(Range(graphRoots) \cup {Named(a[sub])})
            = NamesOf(Range(graphRoots)) \cup NamesOf({Named(a[sub])})
      BY NamesOfUnion
    <3>4. NamesOf({Named(a[sub])}) = {a[sub]}
      BY NamesOfOne DEF Fresh, Named, Node
    <3> QED
      BY <3>2, <3>3, <3>4
  <2> QED
    BY <2>1, <2>2
<1>5. Pending' = NamesOf(Range(graphRoots')) \cup {a[i] : i \in sub + 1 .. Len(a)}
  BY <1>1, <1>2 DEF Pending
<1>6. Pending = NamesOf(Range(graphRoots)) \cup {a[i] : i \in sub .. Len(a)}
  BY DEF Pending
<1> HIDE DEF a
<1> QED
  BY <1>1, <1>3, <1>4, <1>5, <1>6 DEF Promised

LEMMA LeaveKeeps ==
  ASSUME SimpTypeOK, LeaveNode
  PROVE  Promised' = Promised
<1>1. sub .. Len(Adj(curr)) = {}
  BY AdjTypes DEF SimpTypeOK, LeaveNode
<1>2. Adj(curr)' = << >>
  BY DEF LeaveNode, Adj, Null, Node
<1>3. (sub .. Len(Adj(curr)))' = {}
  BY <1>2 DEF LeaveNode, SimpTypeOK
<1> QED
  BY <1>1, <1>3 DEF LeaveNode, Promised, Pending

(* The other steps are over when the walk is.                              *)
LEMMA RestKeeps ==
  ASSUME SimpTypeOK, FollowNull \/ EndWalk \/ FilterLine \/ EndFilter \/ UNCHANGED simpVars
  PROVE  UNCHANGED <<made, graphRoots, curr, sub, visited, Promised>>
<1>1. UNCHANGED <<made, graphRoots, curr, sub, visited>>
  BY DEF FollowNull, EndWalk, FilterLine, EndFilter, simpVars
<1> QED
  BY <1>1 DEF Promised, Pending, Adj

(* A successor of what is marked is marked or promised at every step.      *)
THEOREM MarkInvariant == SimpSafety => []MarkInv
<1>1. SimpInit => MarkInv
  <2> SUFFICES ASSUME SimpInit PROVE MarkInv
    OBVIOUS
  <2>1. graphRoots = made.graphRoots /\ visited = {}
    BY DEF SimpInit
  <2>2. RootNames \subseteq Pending
    BY <2>1 DEF RootNames, Pending
  <2> QED
    BY <2>1, <2>2 DEF SimpInit, MarkInv
<1>2. SimpTypeOK /\ MarkInv /\ [SimpNext]_simpVars => MarkInv'
  <2> SUFFICES ASSUME SimpTypeOK, MarkInv, [SimpNext]_simpVars PROVE MarkInv'
    OBVIOUS
  <2>1. /\ RootNames \subseteq Promised
        /\ \A v \in visited : Range(made.dmap[v]) \subseteq Promised
    BY DEF MarkInv, Promised
  <2>2. made' = made /\ RootNames' = RootNames
    BY DEF SimpNext, SkipVisited, TakeNode, FollowNull, PushSubnode, LeaveNode, EndWalk,
           FilterLine, EndFilter, simpVars, RootNames
  <2>3. (Promised \subseteq Promised') /\ \A v \in visited' : Range(made.dmap[v]) \subseteq Promised'
    <3>1. CASE SkipVisited
      BY <3>1, <2>1, SkipKeeps DEF SkipVisited
    <3>2. CASE TakeNode
      BY <3>2, <2>1, TakeAdds DEF Adj
    <3>3. CASE PushSubnode
      BY <3>3, <2>1, PushKeeps DEF PushSubnode
    <3>4. CASE LeaveNode
      BY <3>4, <2>1, LeaveKeeps DEF LeaveNode
    <3>5. CASE FollowNull \/ EndWalk \/ FilterLine \/ EndFilter \/ UNCHANGED simpVars
      BY <3>5, <2>1, RestKeeps
    <3> QED
      BY <3>1, <3>2, <3>3, <3>4, <3>5 DEF SimpNext
  <2>4. (simplifying # "marking" => curr = Null)'
    BY DEF MarkInv, SimpNext, SkipVisited, TakeNode, FollowNull, PushSubnode, LeaveNode, EndWalk,
           FilterLine, EndFilter, simpVars, BetweenNodes
  <2>5. (simplifying \in {"filtering", "done"} => graphRoots = << >>)'
    BY DEF MarkInv, SimpNext, SkipVisited, TakeNode, FollowNull, PushSubnode, LeaveNode, EndWalk,
           FilterLine, EndFilter, simpVars, BetweenNodes
  <2> QED
    BY <2>1, <2>2, <2>3, <2>4, <2>5 DEF MarkInv, Promised
<1> QED
  BY <1>1, <1>2, SimpTypeCorrect, PTL DEF SimpSafety

(* After the walk nothing is promised any more, so the marks are closed.   *)
LEMMA WalkOver ==
  ASSUME SimpTypeOK, MarkInv, simplifying \in {"filtering", "done"}
  PROVE  ClosedUnder(visited)
<1>1. graphRoots = << >> /\ curr = Null
  BY DEF MarkInv
<1>2. NamesOf(Range(graphRoots)) = {}
  BY <1>1 DEF NamesOf, Range
<1>3. Pending = {}
  BY <1>1, <1>2, NoneOfNull DEF Pending
<1> QED
  BY <1>3 DEF MarkInv, ClosedUnder

(* Whatever the graph, the walk stops only when the marks are closed.      *)
THEOREM MarksAlwaysClosed == SimpSafety => []MarksClosed
<1>1. SimpTypeOK /\ MarkInv => MarksClosed
  BY WalkOver DEF MarksClosed
<1> QED
  BY <1>1, SimpTypeCorrect, MarkInvariant, PTL

-------------------------------------------------------------------------------
(* Nothing is marked or promised that a closed set could do without.       *)
NoMore == \A S \in SUBSET Names : ClosedUnder(S) => Promised \subseteq S

LEMMA NoMoreInit == ASSUME SimpInit PROVE NoMore
<1>1. graphRoots = made.graphRoots /\ visited = {} /\ sub = 1 /\ curr = Null
  BY DEF SimpInit
<1>2. {Adj(curr)[i] : i \in sub .. Len(Adj(curr))} = {}
  BY <1>1 DEF Adj, Null, Node
<1>3. Promised = RootNames
  BY <1>1, <1>2 DEF Promised, Pending, RootNames
<1> QED
  BY <1>3 DEF NoMore, ClosedUnder

LEMMA NoMoreStep == ASSUME SimpTypeOK, NoMore, [SimpNext]_simpVars PROVE NoMore'
<1>1. made' = made /\ Names' = Names /\ \A S : ClosedUnder(S)' <=> ClosedUnder(S)
  BY DEF SimpNext, SkipVisited, TakeNode, FollowNull, PushSubnode, LeaveNode, EndWalk,
         FilterLine, EndFilter, simpVars, RootNames, ClosedUnder, Names
<1> SUFFICES ASSUME NEW S \in SUBSET Names, ClosedUnder(S), Promised \subseteq S
             PROVE  Promised' \subseteq S
  BY <1>1 DEF NoMore
<1>2. CASE TakeNode
  <2> DEFINE h == Head(graphRoots)
  <2>1. Fresh(h) \subseteq S /\ Promised' = Promised \cup Range(Adj(h))
    BY <1>2, TakeAdds
  <2>2. h \in NodePointers(Names)
    BY <1>2 DEF SimpTypeOK, TakeNode
  <2>3. Range(Adj(h)) \subseteq S
    <3>1. CASE h.kind = "named"
      <4>1. h.name \in S \cap Names
        BY <3>1, <2>1, <2>2 DEF Fresh, NodePointers
      <4> HIDE DEF h
      <4> QED
        BY <3>1, <4>1 DEF ClosedUnder, Adj
    <3>2. CASE h.kind # "named"
      BY <3>2, <2>1 DEF Fresh, Adj
    <3> QED
      BY <3>1, <3>2
  <2> HIDE DEF h
  <2> QED
    BY <2>1, <2>3
<1>3. CASE ~TakeNode
  BY <1>3, SkipKeeps, PushKeeps, LeaveKeeps, RestKeeps DEF SimpNext
<1> QED
  BY <1>2, <1>3

(* The names marked are needed by the roots, for every graph: with the     *)
(* theorem above, exactly those are.                                       *)
THEOREM MarksAlwaysReachable == SimpSafety => []MarksReachable
<1>1. SimpInit => NoMore
  BY NoMoreInit
<1>2. SimpTypeOK /\ NoMore /\ [SimpNext]_simpVars => NoMore'
  BY NoMoreStep
<1>3. NoMore => MarksReachable
  BY DEF NoMore, MarksReachable, Promised
<1> QED
  BY <1>1, <1>2, <1>3, SimpTypeCorrect, PTL DEF SimpSafety

(* The marks are those the roots need and no others, for every graph.      *)
THEOREM AlwaysMarksExact == SimpSafety => []MarksExact
<1>1. MarksClosed /\ MarksReachable => MarksExact
  BY DEF MarksExact
<1> QED
  BY <1>1, MarksAlwaysClosed, MarksAlwaysReachable, PTL

-------------------------------------------------------------------------------
(* The filter.                                                             *)
FilterInv ==
  /\ simplifying = "marking" => in_i = 1 /\ resultLines = << >>
  /\ simplifying = "done" => in_i \notin DOMAIN made.code
  /\ KeepsInOrder

(* The lines kept, as positions of the code.                               *)
InOrder(pos) ==
  /\ pos \in [DOMAIN resultLines -> KeptSoFar]
  /\ Range(pos) = KeptSoFar
  /\ \A i, j \in DOMAIN resultLines : i < j => pos[i] < pos[j]
  /\ \A i \in DOMAIN resultLines : resultLines[i] = made.code[pos[i]]

LEMMA FilterStarts ==
  ASSUME SimpTypeOK, FilterInv, EndWalk
  PROVE  KeepsInOrder'
<1>1. in_i' = 1 /\ resultLines' = << >> /\ KeptSoFar' = {}
  BY OutputTypes DEF EndWalk, FilterInv, BetweenNodes, KeptSoFar, SimpTypeOK
<1> DEFINE pos == [i \in {} |-> 0]
<1>2. pos \in [DOMAIN resultLines' -> KeptSoFar'] /\ Range(pos) = KeptSoFar' /\ DOMAIN resultLines' = {}
  BY <1>1 DEF Range
<1> HIDE DEF pos
<1>3. InOrder(pos)'
  BY <1>2 DEF InOrder
<1> QED
  BY <1>3 DEF KeepsInOrder, InOrder

LEMMA FilterKeepsOrder ==
  ASSUME SimpTypeOK, FilterInv, FilterLine
  PROVE  KeepsInOrder'
<1>1. PICK pos : InOrder(pos)
  BY DEF FilterInv, FilterLine, KeepsInOrder, InOrder
<1>2. /\ in_i \in Nat \ {0} /\ in_i \in DOMAIN made.code /\ in_i' = in_i + 1
      /\ made' = made /\ resultLines \in Seq(Seq(Tokens)) /\ made.code \in Seq(Seq(Tokens))
      /\ \A ln : contains(ln)' <=> contains(ln)
  BY OutputTypes DEF FilterLine, SimpTypeOK, contains, LineNames, uselessNode, Names
<1>3. CASE contains(made.code[in_i])
  <2>1. resultLines' = resultLines
    BY <1>3 DEF FilterLine
  <2>2. KeptSoFar' = KeptSoFar
    BY <1>2, <1>3 DEF KeptSoFar
  <2>3. InOrder(pos)'
    BY <1>1, <1>2, <2>1, <2>2 DEF InOrder
  <2> QED
    BY <2>3 DEF KeepsInOrder, InOrder
<1>4. CASE ~contains(made.code[in_i])
  <2> DEFINE n == Len(resultLines) + 1
             new == [i \in 1 .. n |-> IF i = n THEN in_i ELSE pos[i]]
  <2>1. /\ resultLines' = Append(resultLines, made.code[in_i])
        /\ DOMAIN resultLines' = 1 .. n /\ DOMAIN resultLines = 1 .. n - 1 /\ n \in Nat \ {0}
        /\ resultLines'[n] = made.code[in_i]
        /\ \A i \in 1 .. n - 1 : resultLines'[i] = resultLines[i]
    BY <1>2, <1>4 DEF FilterLine
  <2>2. KeptSoFar' = KeptSoFar \cup {in_i} /\ \A k \in KeptSoFar : k \in Nat /\ k < in_i
    <3>1. \A k \in DOMAIN made.code : k \in Nat /\ (k < in_i + 1 <=> k < in_i \/ k = in_i)
      BY <1>2
    <3>2. KeptSoFar' = {k \in DOMAIN made.code : k < in_i + 1 /\ ~contains(made.code[k])}
      BY <1>2 DEF KeptSoFar
    <3>3. \A k : k \in KeptSoFar' <=> k \in KeptSoFar \/ k = in_i
      BY <1>2, <1>4, <3>1, <3>2 DEF KeptSoFar
    <3> QED  BY <3>1, <3>3 DEF KeptSoFar
  <2>3. pos \in [1 .. n - 1 -> KeptSoFar]
    BY <1>1, <2>1 DEF InOrder
  <2>4. new \in [1 .. n -> KeptSoFar'] /\ new[n] = in_i /\ \A i \in 1 .. n - 1 : new[i] = pos[i]
    BY <2>1, <2>2, <2>3
  <2>5. Range(new) = KeptSoFar'
    <3>1. Range(pos) = KeptSoFar
      BY <1>1 DEF InOrder
    <3>2. DOMAIN new = 1 .. n /\ DOMAIN pos = 1 .. n - 1
      BY <2>3
    <3> HIDE DEF new, n
    <3>3. n \in 1 .. n /\ (1 .. n - 1) \subseteq 1 .. n /\ \A i \in 1 .. n : i = n \/ i \in 1 .. n - 1
      BY <2>1
    <3>4. \A x : x \in Range(new) <=> x = in_i \/ x \in Range(pos)
      BY <2>4, <3>2, <3>3 DEF Range
    <3> QED
      BY <3>1, <3>4, <2>2
  <2> HIDE DEF new
  <2>6. \A i, j \in 1 .. n : i < j => new[i] < new[j]
    <3> SUFFICES ASSUME NEW i \in 1 .. n, NEW j \in 1 .. n, i < j PROVE new[i] < new[j]
      OBVIOUS
    <3>1. i \in 1 .. n - 1 /\ new[i] = pos[i] /\ pos[i] \in KeptSoFar
      BY <2>1, <2>3, <2>4
    <3>2. CASE j = n
      BY <3>1, <3>2, <2>2, <2>4
    <3>3. CASE j # n
      <4>1. j \in 1 .. n - 1
        BY <3>3, <2>1
      <4> QED
        BY <4>1, <3>1, <2>1, <2>4, <1>1 DEF InOrder
    <3> QED
      BY <3>2, <3>3
  <2>7. \A i \in 1 .. n : resultLines'[i] = made.code[new[i]]
    <3>1. \A i \in 1 .. n : i = n \/ i \in 1 .. n - 1
      BY <2>1
    <3>2. \A i \in 1 .. n - 1 : resultLines[i] = made.code[pos[i]]
      BY <1>1, <2>1 DEF InOrder
    <3> QED
      BY <3>1, <3>2, <2>1, <2>4
  <2>8. PICK f : f = new
    OBVIOUS
  <2>9. InOrder(f)'
    BY <1>2, <2>1, <2>4, <2>5, <2>6, <2>7, <2>8 DEF InOrder
  <2> QED
    BY <2>9 DEF KeepsInOrder, InOrder
<1> QED
  BY <1>3, <1>4

LEMMA FilterInvariant == SimpSafety => []FilterInv
<1>1. SimpInit => FilterInv
  BY DEF SimpInit, FilterInv, KeepsInOrder
<1>2. SimpTypeOK /\ MarkInv /\ FilterInv /\ [SimpNext]_simpVars => FilterInv'
  <2> SUFFICES ASSUME SimpTypeOK, MarkInv, FilterInv, [SimpNext]_simpVars PROVE FilterInv'
    OBVIOUS
  <2>1. CASE EndWalk
    BY <2>1, FilterStarts DEF EndWalk, FilterInv
  <2>2. CASE FilterLine
    BY <2>2, FilterKeepsOrder DEF FilterLine, FilterInv
  <2>3. CASE SkipVisited \/ TakeNode \/ FollowNull \/ PushSubnode \/ LeaveNode
    <3>1. simplifying = "marking" /\ simplifying' \in {"marking", "crashed"}
          /\ UNCHANGED <<made, in_i, resultLines>>
      BY <2>3 DEF SkipVisited, TakeNode, FollowNull, PushSubnode, LeaveNode, BetweenNodes, MarkInv
    <3> QED
      BY <3>1 DEF FilterInv, KeepsInOrder
  <2>4. CASE EndFilter \/ UNCHANGED simpVars
    <3>1. UNCHANGED <<made, in_i, resultLines, visited>>
      BY <2>4 DEF EndFilter, simpVars
    <3>2. KeptSoFar' = KeptSoFar
      BY <3>1 DEF KeptSoFar, contains, LineNames, uselessNode, Names
    <3>3. KeepsInOrder' /\ (simplifying' = "marking" => simplifying = "marking")
      BY <2>4, <3>1, <3>2 DEF EndFilter, simpVars, FilterInv, KeepsInOrder
    <3> QED
      BY <2>4, <3>1, <3>3 DEF EndFilter, simpVars, FilterInv
  <2> QED
    BY <2>1, <2>2, <2>3, <2>4 DEF SimpNext
<1> QED
  BY <1>1, <1>2, SimpTypeCorrect, MarkInvariant, PTL DEF SimpSafety

(* What simplify returns is the code without the lines that have a useless *)
(* name, in order, for every code and graph.                               *)
THEOREM AlwaysKeepsInOrder == SimpSafety => []KeepsInOrder
<1>1. FilterInv => KeepsInOrder
  BY DEF FilterInv
<1> QED
  BY <1>1, FilterInvariant, PTL

(* A line that was dropped has a useless name, and a kept one has none.    *)
LEMMA KeptLines ==
  ASSUME SimpTypeOK, FilterInv, simplifying = "done"
  PROVE  /\ \A i \in DOMAIN made.code :
              made.code[i] \notin Range(resultLines) => contains(made.code[i])
         /\ \A ln \in Range(resultLines) : ~contains(ln)
<1>1. PICK pos : InOrder(pos)
  BY DEF FilterInv, KeepsInOrder, InOrder
<1>2. \A i \in DOMAIN made.code : i < in_i
  BY OutputTypes DEF FilterInv, SimpTypeOK
<1>3. \A i \in DOMAIN resultLines : resultLines[i] = made.code[pos[i]] /\ ~contains(made.code[pos[i]])
  BY <1>1 DEF InOrder, KeptSoFar
<1>4. ASSUME NEW i \in DOMAIN made.code, ~contains(made.code[i])
      PROVE  made.code[i] \in Range(resultLines)
  <2>1. i \in Range(pos)
    BY <1>1, <1>2, <1>4 DEF InOrder, KeptSoFar
  <2>2. PICK k \in DOMAIN resultLines : pos[k] = i
    BY <2>1, <1>1 DEF InOrder, Range
  <2> QED
    BY <2>2, <1>3 DEF Range
<1> QED
  BY <1>3, <1>4 DEF Range

(* Of a code its graph covers nothing is lost but dead stores, for every   *)
(* code and every graph.                                                   *)
THEOREM OnlyDeadStoresDropped == SimpSafety => []DropsOnlyDeadStores
<1>1. SimpTypeOK /\ MarkInv /\ FilterInv => DropsOnlyDeadStores
  <2> SUFFICES ASSUME SimpTypeOK, MarkInv, FilterInv, simplifying = "done", Covered,
                      NEW i \in DOMAIN made.code, made.code[i] \notin Range(resultLines)
               PROVE  \E d \in Names : /\ StoresOnly(made.code[i], d)
                                       /\ \A ln \in Range(resultLines) : d \notin LineNames(ln)
    BY DEF DropsOnlyDeadStores
  <2>1. ClosedUnder(visited)
    BY WalkOver
  <2>2. PICK u \in Names : u \in LineNames(made.code[i]) /\ u \notin visited
    BY KeptLines DEF contains, uselessNode, LineNames
  <2>3. ~(LineNames(made.code[i]) \subseteq RootNames)
    BY <2>1, <2>2 DEF ClosedUnder
  <2>4. PICK d \in Names : /\ StoresOnly(made.code[i], d)
                           /\ LineNames(made.code[i]) \ {d} \subseteq Range(made.dmap[d])
    BY <2>3 DEF Covered, LineCovered
  <2>5. d \notin visited
    BY <2>1, <2>2, <2>4 DEF ClosedUnder
  <2>6. \A ln \in Range(resultLines) : d \notin LineNames(ln)
    BY <2>5, KeptLines DEF contains, uselessNode
  <2> QED
    BY <2>4, <2>6
<1> QED
  BY <1>1, SimpTypeCorrect, MarkInvariant, FilterInvariant, PTL

-------------------------------------------------------------------------------
(* What simplify marks and what the roots need are the same names.         *)
LEMMA NeededNames ==
  /\ Needed \subseteq Names
  /\ \A v \in Names : v \in Needed <=> \A S \in SUBSET Names : ClosedUnder(S) => v \in S
BY DEF Needed

(* They are a closed set themselves, the least one.                        *)
LEMMA NeededClosed ==
  ASSUME made \in Outputs
  PROVE  ClosedUnder(Needed)
<1>1. RootNames \subseteq Names
  <2>1. \A n \in Range(made.graphRoots) : n \in NodePointers(Names)
    BY OutputTypes DEF Range
  <2>2. \A n \in NodePointers(Names) : Fresh(n) \subseteq Names
    BY DEF NodePointers, Fresh, Range
  <2> QED  BY <2>1, <2>2 DEF RootNames, NamesOf, Fresh
<1>2. RootNames \subseteq Needed
  BY <1>1, NeededNames DEF ClosedUnder
<1>3. ASSUME NEW v \in Needed PROVE Range(made.dmap[v]) \subseteq Needed
  <2>1. v \in Names /\ Range(made.dmap[v]) \subseteq Names
    BY NeededNames, OutputTypes DEF Range
  <2>2. ASSUME NEW S \in SUBSET Names, ClosedUnder(S) PROVE Range(made.dmap[v]) \subseteq S
    BY <2>1, <2>2, NeededNames DEF ClosedUnder
  <2> QED  BY <2>1, <2>2, NeededNames
<1> QED  BY <1>2, <1>3 DEF ClosedUnder

(* When the walk is over the names marked are those that are needed.       *)
LEMMA MarksAreNeeded ==
  ASSUME SimpTypeOK, MarksExact, simplifying \in {"filtering", "done"}
  PROVE  visited = Needed
<1>1. visited \subseteq Names /\ ClosedUnder(visited)
  BY DEF SimpTypeOK, MarksExact, MarksClosed
<1>2. Needed \subseteq visited
  BY <1>1, NeededNames
<1>3. visited \subseteq Needed
  BY <1>1, NeededNames DEF MarksExact, MarksReachable
<1> QED  BY <1>2, <1>3

-------------------------------------------------------------------------------
(* A line that prog does without is a store of a useless name, and one that*)
(* is kept has no useless name among its operands.                         *)
(* How a quadruple of the front end is printed, kind by kind.              *)
LEMMA PrintedByKind ==
  ASSUME NEW c \in Instr, FrontEndQuad(c)
  PROVE  /\ c.kind \in {"LABEL", "FUNCTION", "ASSIGN", "GOTO", "RETURN", "ARG", "CALL", "PARAM",
                        "READ", "WRITE"} \cup Arith \cup IfKinds
         /\ c.kind = "LABEL" => Printed(c) = <<Word("LABEL"), OpdPrinted(c.labelno), Word(":")>>
         /\ c.kind = "FUNCTION" => Printed(c) = <<Word("FUNCTION"), Word(c.funcname), Word(":")>>
         /\ c.kind = "ASSIGN" => Printed(c) = <<OpdPrinted(c.dst), Word(":="), OpdPrinted(c.a)>>
         /\ c.kind \in Arith => Printed(c) = <<OpdPrinted(c.dst), Word(":="), OpdPrinted(c.a),
                                               Word(ArithSign[c.kind]), OpdPrinted(c.b)>>
         /\ c.kind = "GOTO" => Printed(c) = <<Word("GOTO"), OpdPrinted(c.labelno)>>
         /\ c.kind \in IfKinds => Printed(c) = <<Word("IF"), OpdPrinted(c.a), Word(Relation[c.kind]),
                                     OpdPrinted(c.b), Word("GOTO"), OpdPrinted(c.labelno)>>
         /\ c.kind \in {"RETURN", "ARG", "WRITE"} => Printed(c) = <<Word(c.kind), OpdPrinted(c.a)>>
         /\ c.kind \in {"PARAM", "READ"} => Printed(c) = <<Word(c.kind), OpdPrinted(c.dst)>>
         /\ c.kind = "CALL" => Printed(c) = <<OpdPrinted(c.dst), Word(":="), Word("CALL"), Word(c.funcname)>>
<1>1. c.kind \in {"LABEL", "FUNCTION", "ASSIGN", "GOTO", "RETURN", "ARG", "CALL", "PARAM",
                  "READ", "WRITE"} \cup Arith \cup IfKinds
  BY DEF FrontEndQuad, Instr, Kinds
<1> QED  BY <1>1 DEF Printed, Arith, AddSub, MulDiv, IfKinds

(* A line that gives d a value is of a quadruple that stores into d.       *)
LEMMA OnlyStoresStore ==
  ASSUME NEW c \in Instr, FrontEndQuad(c), NEW d \in Vars, StoresOnly(Printed(c), d)
  PROVE  c.kind \in {"ASSIGN", "READ"} \cup Arith /\ c.dst.char_val = d
<1>1. /\ Len(Printed(c)) \in {2, 3, 5}
      /\ Len(Printed(c)) = 2 => Printed(c) = <<Word("READ"), Word(d)>>
      /\ Len(Printed(c)) # 2 => Printed(c)[1] = Word(d) /\ Printed(c)[2] = Word(":=")
  BY DEF StoresOnly
<1>2. \A x, y : Word(x) = Word(y) => x = y
  BY DEF Word, Tok
<1>3. \A o : IsVariable(o) => OpdPrinted(o) = Word(o.char_val)
  BY DEF OpdPrinted, IsVariable
<1>4. \A o : o.kind = "OP_LABEL" => OpdPrinted(o) # Word(":=")
  BY DEF OpdPrinted, Word, Tok
<1>5. CASE c.kind \in {"GOTO", "RETURN", "ARG", "WRITE", "PARAM"}
  <2>1. Len(Printed(c)) = 2 /\ Printed(c)[1] = Word(c.kind)
    BY <1>5, PrintedByKind
  <2> QED  BY <1>1, <1>2, <1>5, <2>1
<1>6. CASE c.kind = "READ"
  <2>1. Printed(c) = <<Word("READ"), Word(c.dst.char_val)>>
    BY <1>3, <1>6, PrintedByKind DEF FrontEndQuad
  <2> QED  BY <1>1, <1>2, <1>6, <2>1
<1>7. CASE c.kind \in IfKinds \/ c.kind = "CALL"
  <2>1. Len(Printed(c)) \in {4, 6}
    BY <1>7, PrintedByKind
  <2> QED  BY <1>1, <2>1
<1>8. CASE c.kind = "LABEL"
  <2>1. Len(Printed(c)) = 3 /\ Printed(c)[2] = OpdPrinted(c.labelno)
    BY <1>8, PrintedByKind
  <2> QED  BY <1>1, <1>4, <1>8, <2>1 DEF FrontEndQuad
<1>9. CASE c.kind = "FUNCTION"
  <2>1. Len(Printed(c)) = 3 /\ Printed(c)[1] = Word("FUNCTION")
    BY <1>9, PrintedByKind
  <2> QED  BY <1>1, <1>2, <2>1, FunctionIsNoName
<1>10. CASE c.kind \in {"ASSIGN"} \cup Arith
  <2>1. Len(Printed(c)) \in {3, 5} /\ Printed(c)[1] = Word(c.dst.char_val)
    BY <1>3, <1>10, PrintedByKind DEF FrontEndQuad
  <2> QED  BY <1>1, <1>2, <1>10, <2>1
<1> QED
  BY <1>5, <1>6, <1>7, <1>8, <1>9, <1>10, PrintedByKind

(* A dropped line stores a useless name: it has one, and covers it.        *)
LEMMA DroppedStores ==
  ASSUME CodeKnown, NEW i \in DOMAIN prog, i \notin kept
  PROVE  prog[i].kind \in {"ASSIGN"} \cup Arith /\ prog[i].dst.char_val \in useless
<1>1. prog[i] \in Instr /\ FrontEndQuad(prog[i]) /\ ClosedUnder(Needed)
  BY NeededClosed DEF CodeKnown, Simplifiable
<1>2. i \in DOMAIN made.code /\ made.code[i] = Printed(prog[i])
  BY DEF CodeKnown, Simplifiable
<1> DEFINE ln == Printed(prog[i])
<1>3. PICK u \in Names : u \in LineNames(ln) /\ u \notin Needed
  BY DEF CodeKnown, LineNames
<1>4. LineCovered(ln)
  BY <1>2 DEF CodeKnown, Simplifiable, Covered
<1> HIDE DEF ln
<1>5. PICK d \in Names : StoresOnly(ln, d) /\ LineNames(ln) \ {d} \subseteq Range(made.dmap[d])
  BY <1>1, <1>3, <1>4 DEF LineCovered, ClosedUnder
<1>6. d \in useless
  BY <1>1, <1>3, <1>5 DEF ClosedUnder, CodeKnown
<1>7. prog[i].kind \in {"ASSIGN", "READ"} \cup Arith /\ prog[i].dst.char_val = d
  BY <1>1, <1>5, OnlyStoresStore, OutputTypes DEF ln, CodeKnown
<1> QED
  BY <1>6, <1>7 DEF CodeKnown, Simplifiable

(* An operand that a line prints is among its names.                       *)
LEMMA PrintedName ==
  ASSUME NEW ln, NEW k \in DOMAIN ln, NEW o, IsVariable(o), ln[k] = OpdPrinted(o),
         LineNames(ln) \cap useless = {}, useless \subseteq Names
  PROVE  o.char_val \notin useless
<1>1. OpdPrinted(o) = Word(o.char_val)
  BY DEF OpdPrinted, IsVariable
<1>2. \A w : Word(w).name = w /\ Word(w).lead = ""
  BY DEF Word, Tok
<1>3. ln[k].name = o.char_val /\ ln[k].lead = ""
  BY Zenon, <1>1, <1>2
<1> QED  BY <1>3 DEF LineNames

(* The operand is no useless name; a kept line has no other operands.      *)
Useful(o) == IsVariable(o) => o.char_val \notin useless
LEMMA KeptReads ==
  ASSUME CodeKnown, NEW i \in kept
  PROVE  /\ i \in DOMAIN prog
         /\ prog[i].kind \in {"ASSIGN", "CALL", "PARAM", "READ"} \cup Arith => Useful(prog[i].dst)
         /\ prog[i].kind \in {"ASSIGN", "RETURN", "ARG", "WRITE"} \cup Arith \cup IfKinds => Useful(prog[i].a)
         /\ prog[i].kind \in Arith \cup IfKinds => Useful(prog[i].b)
<1> DEFINE c == prog[i]
           ln == Printed(c)
<1>1. /\ i \in DOMAIN prog /\ c \in Instr /\ FrontEndQuad(c)
      /\ LineNames(ln) \cap useless = {} /\ useless \subseteq Names
  BY DEF CodeKnown, Simplifiable
<1>2. \A k \in DOMAIN ln : \A o : ln[k] = OpdPrinted(o) => Useful(o)
  BY <1>1, PrintedName DEF Useful
<1> HIDE DEF c
<1>3. c.kind \in {"ASSIGN"} \cup Arith => Useful(c.dst) /\ Useful(c.a)
  BY <1>1, <1>2, PrintedByKind
<1>4. c.kind \in Arith => Useful(c.b)
  BY <1>1, <1>2, PrintedByKind
<1>5. c.kind \in IfKinds => Useful(c.a) /\ Useful(c.b)
  BY <1>1, <1>2, PrintedByKind
<1>6. c.kind \in {"RETURN", "ARG", "WRITE"} => Useful(c.a)
  BY <1>1, <1>2, PrintedByKind
<1>7. c.kind \in {"PARAM", "READ", "CALL"} => Useful(c.dst)
  BY <1>1, <1>2, PrintedByKind
<1> QED
  BY <1>1, <1>3, <1>4, <1>5, <1>6, <1>7 DEF c
-------------------------------------------------------------------------------
(* The places kept and their numbers.                                      *)
LEMMA KeptFinite ==
  ASSUME CodeKnown
  PROVE  /\ Len(prog) \in Nat /\ DOMAIN prog = 1 .. Len(prog)
         /\ kept \subseteq DOMAIN prog /\ kept \subseteq Nat
         /\ IsFiniteSet(kept) /\ Cardinality(kept) \in Nat
<1>1. Len(prog) \in Nat /\ DOMAIN prog = 1 .. Len(prog) /\ kept \subseteq 1 .. Len(prog)
  BY DEF CodeKnown
<1>2. IsFiniteSet(1 .. Len(prog))
  BY <1>1, FS_Interval
<1>3. IsFiniteSet(kept)
  BY <1>1, <1>2, FS_Subset
<1>4. Cardinality(kept) \in Nat
  BY <1>3, FS_CardinalityType
<1> QED  BY <1>1, <1>3, <1>4

Below(i) == {j \in kept : j < i}
(* The kept places below i; a place is numbered by how many there are.     *)
LEMMA BelowFinite ==
  ASSUME CodeKnown, NEW i
  PROVE  /\ Below(i) \in SUBSET kept /\ IsFiniteSet(Below(i)) /\ Cardinality(Below(i)) \in Nat
         /\ Cardinality(Below(i)) <= Cardinality(kept)
         /\ Cardinality(Below(i)) = Cardinality(kept) => Below(i) = kept
         /\ KeptAt(i) = 1 + Cardinality(Below(i))
<1>1. Below(i) \in SUBSET kept
  BY DEF Below
<1>2. /\ IsFiniteSet(Below(i)) /\ Cardinality(Below(i)) <= Cardinality(kept)
      /\ Cardinality(Below(i)) = Cardinality(kept) => Below(i) = kept
  BY <1>1, KeptFinite, FS_Subset
<1> QED  BY <1>1, <1>2, FS_CardinalityType DEF Below, KeptAt

(* Going on by one goes on by one among the kept, or not at all.           *)
LEMMA KeptAtNext ==
  ASSUME CodeKnown, NEW i \in DOMAIN prog
  PROVE  /\ KeptAt(i) \in Nat \ {0}
         /\ i \in kept => KeptAt(i + 1) = KeptAt(i) + 1
         /\ i \notin kept => KeptAt(i + 1) = KeptAt(i)
<1>1. i \in Nat /\ kept \subseteq Nat
  BY KeptFinite
<1>2. i \notin Below(i) /\ Below(i + 1) = IF i \in kept THEN Below(i) \cup {i} ELSE Below(i)
  <2>1. \A j \in kept : j < i + 1 <=> j < i \/ j = i
    BY <1>1
  <2>2. ~(i < i)
    BY <1>1
  <2> QED  BY <2>1, <2>2 DEF Below
<1>3. Cardinality(Below(i) \cup {i}) = Cardinality(Below(i)) + 1
  BY <1>2, BelowFinite, FS_AddElement
<1> QED  BY <1>2, <1>3, BelowFinite

(* A later kept place has a greater number.                                *)
LEMMA KeptAtApart ==
  ASSUME CodeKnown, NEW i \in kept, NEW j \in kept, i < j
  PROVE  KeptAt(i) < KeptAt(j)
<1>1. Below(i) \cup {i} \in SUBSET Below(j) /\ i \notin Below(i)
  BY KeptFinite DEF Below
<1>2. Cardinality(Below(i) \cup {i}) = Cardinality(Below(i)) + 1
  BY <1>1, BelowFinite, FS_AddElement
<1>3. Cardinality(Below(i) \cup {i}) <= Cardinality(Below(j))
  BY <1>1, BelowFinite, FS_Subset
<1>4. Cardinality(Below(i)) \in Nat /\ Cardinality(Below(j)) \in Nat
  BY BelowFinite
<1>5. KeptAt(i) = 1 + Cardinality(Below(i)) /\ KeptAt(j) = 1 + Cardinality(Below(j))
  BY BelowFinite
<1> QED  BY <1>2, <1>3, <1>4, <1>5

(* The kept places and the places of the kept program are one to one.      *)
LEMMA KeptAtBijection ==
  ASSUME CodeKnown
  PROVE  /\ \A i \in kept : KeptAt(i) \in 1 .. Cardinality(kept)
         /\ \A i, j \in kept : KeptAt(i) = KeptAt(j) => i = j
         /\ \A k \in 1 .. Cardinality(kept) : \E i \in kept : KeptAt(i) = k
<1> DEFINE n == Cardinality(kept)
           number == [i \in kept |-> KeptAt(i)]
<1>1. n \in Nat /\ IsFiniteSet(kept) /\ kept \subseteq Nat
  BY KeptFinite
<1>2. ASSUME NEW i \in kept PROVE KeptAt(i) \in 1 .. n
  <2>1. i \notin Below(i)
    BY <1>1 DEF Below
  <2>2. Cardinality(Below(i)) # n
    BY <2>1, BelowFinite
  <2>3. Cardinality(Below(i)) \in Nat /\ Cardinality(Below(i)) <= n
    BY BelowFinite
  <2>4. KeptAt(i) = 1 + Cardinality(Below(i))
    BY BelowFinite
  <2> QED  BY <1>1, <2>2, <2>3, <2>4
<1>3. ASSUME NEW i \in kept, NEW j \in kept, KeptAt(i) = KeptAt(j) PROVE i = j
  <2>1. KeptAt(i) \in Int /\ ~(i < j) /\ ~(j < i)
    BY <1>2, <1>3, KeptAtApart
  <2> QED  BY <1>1, <2>1
<1>4. IsFiniteSet(1 .. n) /\ Cardinality(1 .. n) = n
  BY <1>1, FS_Interval
<1>5. number \in Injection(kept, 1 .. n)
  <2>1. number \in [kept -> 1 .. n]
    BY <1>2
  <2>2. \A i, j \in kept : number[i] = number[j] => i = j
    BY <1>3
  <2> QED  BY <2>1, <2>2 DEF Injection, IsInjective
<1>6. number \in Surjection(kept, 1 .. n)
  <2> HIDE DEF number, n
  <2> QED  BY <1>4, <1>5, FS_Injection DEF n
<1>7. \A k \in 1 .. n : \E i \in kept : KeptAt(i) = k
  <2>1. \A k \in 1 .. n : \E i \in kept : number[i] = k
    <3> HIDE DEF number, n
    <3> QED  BY <1>6 DEF Surjection
  <2> QED  BY <2>1
<1> QED  BY <1>2, <1>3, <1>7

(* The kept program has what it keeps where the numbers say.               *)
LEMMA KeptProgAt ==
  ASSUME CodeKnown
  PROVE  /\ KeptProg \in Seq(Instr) /\ DOMAIN KeptProg = 1 .. Cardinality(kept)
         /\ \A i \in kept : KeptAt(i) \in DOMAIN KeptProg /\ KeptProg[KeptAt(i)] = prog[i]
         /\ \A k \in DOMAIN KeptProg : KeptProg[k] \in Instr /\ \E i \in kept : KeptAt(i) = k
<1> DEFINE n == Cardinality(kept)
<1>1. n \in Nat /\ \A i \in kept : prog[i] \in Instr
  BY KeptFinite DEF CodeKnown
<1>2. DOMAIN KeptProg = 1 .. n
  BY DEF KeptProg
<1>3. ASSUME NEW i \in kept PROVE KeptAt(i) \in 1 .. n /\ KeptProg[KeptAt(i)] = prog[i]
  <2>1. KeptAt(i) \in 1 .. n
    BY KeptAtBijection
  <2>2. (CHOOSE j \in kept : KeptAt(j) = KeptAt(i)) = i
    BY KeptAtBijection
  <2> QED  BY <2>1, <2>2 DEF KeptProg
<1>4. \A k \in 1 .. n : \E i \in kept : KeptAt(i) = k
  BY KeptAtBijection
<1>5. \A k \in 1 .. n : KeptProg[k] \in Instr
  BY <1>1, <1>3, <1>4
<1>6. KeptProg \in Seq(Instr)
  <2>1. KeptProg = [k \in 1 .. n |-> KeptProg[k]]
    BY DEF KeptProg
  <2> HIDE DEF n
  <2> QED  BY <1>1, <1>5, <2>1
<1> QED  BY <1>2, <1>3, <1>4, <1>5, <1>6

-------------------------------------------------------------------------------
(* The only place of such a quadruple, if kept, is the only one in the kept*)
(* program.                                                                *)
LEMMA KeptFound ==
  ASSUME CodeKnown, NEW S, NEW i \in kept, \A j \in DOMAIN prog : prog[j] \in S <=> j = i
  PROVE  KeptAt(i) \in DOMAIN KeptProg
         /\ \A k \in DOMAIN KeptProg : KeptProg[k] \in S <=> k = KeptAt(i)
<1>1. KeptAt(i) \in DOMAIN KeptProg /\ KeptProg[KeptAt(i)] \in S
  BY KeptProgAt, KeptFinite
<1>2. ASSUME NEW k \in DOMAIN KeptProg, KeptProg[k] \in S PROVE k = KeptAt(i)
  <2>1. PICK j \in kept : KeptAt(j) = k
    BY KeptProgAt
  <2>2. j \in DOMAIN prog /\ prog[j] \in S
    BY <1>2, <2>1, KeptProgAt, KeptFinite
  <2> QED  BY <2>1, <2>2
<1> QED  BY <1>1, <1>2

-------------------------------------------------------------------------------
(* Labels and functions are never dropped, so they are found in the kept   *)
(* program where the numbers say.                                          *)
LEMMA LabelFound ==
  ASSUME CodeKnown, NEW j \in Labels(prog)
  PROVE  /\ LabelAt(prog, prog[j].labelno.int_val) = j
         /\ LabelAt(KeptProg, prog[j].labelno.int_val) = KeptAt(j)
<1> DEFINE n == prog[j].labelno.int_val
           Has(c) == c.kind = "LABEL" /\ c.labelno.int_val = n
<1>1. j \in kept
  BY DroppedStores DEF Labels, Arith, AddSub, MulDiv
<1>2. ASSUME NEW i \in DOMAIN prog, Has(prog[i]) PROVE i = j
  <2>1. /\ prog[i].labelno \in Opd /\ prog[i].labelno.kind = "OP_LABEL"
        /\ prog[j].labelno \in Opd /\ prog[j].labelno.kind = "OP_LABEL"
    <3>1. prog[i] \in Instr /\ FrontEndQuad(prog[i]) /\ prog[j] \in Instr /\ FrontEndQuad(prog[j])
      BY DEF Labels, CodeKnown, Simplifiable
    <3> QED  BY <1>2, <3>1 DEF Labels, FrontEndQuad, Instr
  <2>2. prog[i].labelno = prog[j].labelno
    BY <1>2, <2>1 DEF Opd
  <2> QED  BY <1>2, <2>2 DEF Labels, CodeKnown, Simplifiable, PlacesResolve
<1>3. Has(prog[j]) /\ j \in DOMAIN prog
  BY DEF Labels
<1>4. (CHOOSE i \in DOMAIN prog : Has(prog[i])) = j
  <2> HIDE DEF Has
  <2> QED  BY <1>2, <1>3
<1>5. (CHOOSE i \in DOMAIN KeptProg : Has(KeptProg[i])) = KeptAt(j)
  <2> HIDE DEF Has
  <2> DEFINE S == {c \in Instr : Has(c)}
  <2>1. \A i \in DOMAIN prog : prog[i] \in S <=> i = j
    BY <1>2, <1>3 DEF CodeKnown
  <2>2. /\ KeptAt(j) \in DOMAIN KeptProg
        /\ \A k \in DOMAIN KeptProg : KeptProg[k] \in S <=> k = KeptAt(j)
    <3> HIDE DEF S
    <3> QED  BY <1>1, <2>1, KeptFound
  <2>3. \A k \in DOMAIN KeptProg : KeptProg[k] \in Instr
    BY KeptProgAt
  <2> QED  BY <2>2, <2>3
<1> QED
  BY <1>4, <1>5 DEF LabelAt

(* Functions likewise.                                                     *)
LEMMA FuncFound ==
  ASSUME CodeKnown, NEW j \in Entries(prog)
  PROVE  /\ FuncAt(prog, prog[j].funcname) = j
         /\ FuncAt(KeptProg, prog[j].funcname) = KeptAt(j)
<1> DEFINE f == prog[j].funcname
           Has(c) == c.kind = "FUNCTION" /\ c.funcname = f
<1>1. j \in kept
  BY DroppedStores DEF Entries, Arith, AddSub, MulDiv
<1>2. ASSUME NEW i \in DOMAIN prog, Has(prog[i]) PROVE i = j
  BY <1>2 DEF Entries, CodeKnown, Simplifiable, PlacesResolve
<1>3. Has(prog[j]) /\ j \in DOMAIN prog
  BY DEF Entries
<1>4. (CHOOSE i \in DOMAIN prog : Has(prog[i])) = j
  <2> HIDE DEF Has
  <2> QED  BY <1>2, <1>3
<1>5. (CHOOSE i \in DOMAIN KeptProg : Has(KeptProg[i])) = KeptAt(j)
  <2> HIDE DEF Has
  <2> DEFINE S == {c \in Instr : Has(c)}
  <2>1. \A i \in DOMAIN prog : prog[i] \in S <=> i = j
    BY <1>2, <1>3 DEF CodeKnown
  <2>2. /\ KeptAt(j) \in DOMAIN KeptProg
        /\ \A k \in DOMAIN KeptProg : KeptProg[k] \in S <=> k = KeptAt(j)
    <3> HIDE DEF S
    <3> QED  BY <1>1, <2>1, KeptFound
  <2>3. \A k \in DOMAIN KeptProg : KeptProg[k] \in Instr
    BY KeptProgAt
  <2> QED  BY <2>2, <2>3
<1> QED
  BY <1>4, <1>5 DEF FuncAt

(* Where a jump, a call and the start lead, in prog and in the kept program.*)
LEMMA JumpsFound ==
  ASSUME CodeKnown, NEW i \in DOMAIN prog, prog[i].kind \in IfKinds \cup {"GOTO"}
  PROVE  /\ LabelAt(prog, prog[i].labelno.int_val) \in DOMAIN prog
         /\ LabelAt(KeptProg, prog[i].labelno.int_val) = KeptAt(LabelAt(prog, prog[i].labelno.int_val))
<1>1. PICK j \in Labels(prog) : prog[i].labelno = prog[j].labelno
  BY DEF CodeKnown, Simplifiable, PlacesResolve, Targets
<1> QED  BY <1>1, LabelFound DEF Labels

(* Calls and the start likewise.                                           *)
LEMMA CallsFound ==
  ASSUME CodeKnown
  PROVE  /\ FuncAt(prog, Main) \in DOMAIN prog
         /\ FuncAt(KeptProg, Main) = KeptAt(FuncAt(prog, Main))
         /\ \A i \in DOMAIN prog : prog[i].kind = "CALL" =>
              /\ FuncAt(prog, prog[i].funcname) \in DOMAIN prog
              /\ FuncAt(KeptProg, prog[i].funcname) = KeptAt(FuncAt(prog, prog[i].funcname))
<1>1. ASSUME NEW f \in {prog[j].funcname : j \in Entries(prog)}
      PROVE  /\ FuncAt(prog, f) \in DOMAIN prog
             /\ FuncAt(KeptProg, f) = KeptAt(FuncAt(prog, f))
  BY <1>1, FuncFound DEF Entries
<1>2. Main \in {prog[j].funcname : j \in Entries(prog)}
  BY DEF CodeKnown, Simplifiable, PlacesResolve
<1>3. ASSUME NEW i \in DOMAIN prog, prog[i].kind = "CALL"
      PROVE  prog[i].funcname \in {prog[j].funcname : j \in Entries(prog)}
  BY <1>3 DEF CodeKnown, Simplifiable, PlacesResolve, Callees
<1> QED  BY <1>1, <1>2, <1>3

-------------------------------------------------------------------------------
(* Both programs take the vocabulary of quadruples from Tac.               *)
LEMMA SameWords ==
  /\ Kept!Arith = Arith /\ Kept!IfKinds = IfKinds
  /\ \A o : Kept!IsConstant(o) <=> IsConstant(o)
  /\ \A k, m, n : Kept!Results(k, m, n) = Results(k, m, n)
  /\ \A k, m, n : Kept!Holds(k, m, n) <=> Holds(k, m, n)
  /\ \A p, n : Kept!LabelAt(p, n) = LabelAt(p, n)
  /\ \A p, f : Kept!FuncAt(p, f) = FuncAt(p, f)
<1>1. Kept!Arith = Arith /\ Kept!IfKinds = IfKinds
  BY DEF Kept!Arith, Kept!AddSub, Kept!MulDiv, Kept!IfKinds, Arith, AddSub, MulDiv, IfKinds
<1>2. \A o : Kept!IsConstant(o) <=> IsConstant(o)
  BY DEF Kept!IsConstant, IsConstant
<1>3. \A m, n : Kept!Quot(m, n) = Quot(m, n)
  BY DEF Kept!Quot, Quot, Kept!AbsVal, AbsVal
<1>4. \A k, m, n : Kept!Results(k, m, n) = Results(k, m, n)
  BY <1>3 DEF Kept!Results, Results
<1>5. \A k, m, n : Kept!Holds(k, m, n) <=> Holds(k, m, n)
  BY DEF Kept!Holds, Holds
<1>6. \A p, n : Kept!LabelAt(p, n) = LabelAt(p, n)
  BY DEF Kept!LabelAt, LabelAt
<1>7. \A p, f : Kept!FuncAt(p, f) = FuncAt(p, f)
  BY DEF Kept!FuncAt, FuncAt
<1> QED
  BY <1>1, <1>2, <1>4, <1>5, <1>6, <1>7

(* Nothing the kept program is found by changes, so its next state is the  *)
(* one of the whole program's.                                             *)
Fixed == UNCHANGED <<made, prog, useless, kept>>
FramesSeen(fs) == [k \in DOMAIN fs |-> [at |-> KeptAt(fs[k].at), env |-> KeptEnv(fs[k].env)]]

(* What is known of the code is known after each step.                     *)
LEMMA CodeStays ==
  ASSUME CodeKnown, Fixed
  PROVE  CodeKnown'
<1>1. made' = made /\ prog' = prog /\ useless' = useless /\ kept' = kept
  BY DEF Fixed
<1>2. Names' = Names /\ RootNames' = RootNames
  BY <1>1 DEF Names, RootNames
<1>3. (\A S : ClosedUnder(S)' <=> ClosedUnder(S)) /\ \A ln : LineNames(ln)' = LineNames(ln)
  BY <1>1, <1>2 DEF ClosedUnder, LineNames
<1>4. Needed' = Needed
  BY <1>2, <1>3 DEF Needed
<1>5. Covered' <=> Covered
  BY <1>1, <1>2, <1>3 DEF Covered, LineCovered
<1>6. Simplifiable' <=> Simplifiable
  BY <1>1, <1>5 DEF Simplifiable
<1> QED
  BY <1>1, <1>2, <1>3, <1>4, <1>6 DEF CodeKnown

(* What is seen of the next state is the next state, seen.                 *)
LEMMA SeenNext ==
  ASSUME Fixed
  PROVE  /\ KeptProg' = KeptProg /\ KeptAt(at)' = KeptAt(at') /\ KeptEnv(env)' = KeptEnv(env')
         /\ KeptFrames = FramesSeen(frames) /\ KeptFrames' = FramesSeen(frames')
         /\ CallPlaces' = CallPlaces
<1>1. made' = made /\ prog' = prog /\ useless' = useless /\ kept' = kept
  BY DEF Fixed
<1>2. KeptAt(at)' = KeptAt(at') /\ KeptEnv(env)' = KeptEnv(env')
  BY <1>1 DEF KeptAt, KeptEnv
<1>3. KeptProg' = KeptProg
  BY <1>1 DEF KeptProg, KeptAt
<1>4. KeptFrames = FramesSeen(frames)
  BY DEF KeptFrames, FramesSeen
<1>5. KeptFrames' = FramesSeen(frames')
  BY <1>1 DEF KeptFrames, FramesSeen, KeptAt, KeptEnv
<1>6. CallPlaces' = CallPlaces
  BY <1>1 DEF CallPlaces
<1> QED
  BY <1>2, <1>3, <1>4, <1>5, <1>6

-------------------------------------------------------------------------------
(* What the whole program's run and the kept one's have in common.         *)
LEMMA ValuesAreInts ==
  ASSUME RunTyped, NEW o \in Opd, IsValue(o)
  PROVE  Val(o) \in Int /\ (Useful(o) => Kept!Val(o) = Val(o))
<1>1. CASE IsConstant(o)
  BY <1>1, SameWords DEF Val, Kept!Val, Opd
<1>2. CASE IsVariable(o)
  <2>1. o.char_val \in Vars /\ ~IsConstant(o)
    BY <1>2 DEF Opd, IsVariable, IsConstant
  <2>2. env \in [Vars -> Int]
    BY DEF RunTyped
  <2>3. Useful(o) => KeptEnv(env)[o.char_val] = env[o.char_val]
    BY <1>2, <2>1, <2>2 DEF KeptEnv, Useful
  <2> QED  BY <2>1, <2>2, <2>3, SameWords DEF Val, Kept!Val
<1> QED  BY <1>1, <1>2 DEF IsValue

(* The operands of the quadruple at hand, by its kind.                     *)
LEMMA Operands ==
  ASSUME RunInv, at \in DOMAIN prog
  PROVE  /\ q \in Instr
         /\ q.kind \in {"ASSIGN", "CALL", "PARAM", "READ"} \cup Arith =>
              q.dst.char_val \in Vars /\ (at \in kept => q.dst.char_val \notin useless)
         /\ q.kind \in {"ASSIGN", "RETURN", "ARG", "WRITE"} \cup Arith \cup IfKinds =>
              Val(q.a) \in Int /\ (at \in kept => Kept!Val(q.a) = Val(q.a))
         /\ q.kind \in Arith \cup IfKinds =>
              Val(q.b) \in Int /\ (at \in kept => Kept!Val(q.b) = Val(q.b))
<1>1. CodeKnown /\ RunTyped /\ q = prog[at]
  BY DEF RunInv, q
<1>2. q \in Instr /\ FrontEndQuad(q)
  BY <1>1 DEF CodeKnown, Simplifiable
<1>3. q.dst \in Opd /\ q.a \in Opd /\ q.b \in Opd
  BY <1>2 DEF Instr
<1>4. \A o \in Opd : IsVariable(o) => o.char_val \in Vars
  BY DEF Opd, IsVariable
<1>5. /\ q.kind \in {"ASSIGN", "CALL", "PARAM", "READ"} \cup Arith =>
           IsVariable(q.dst) /\ (at \in kept => Useful(q.dst))
      /\ q.kind \in {"ASSIGN", "RETURN", "ARG", "WRITE"} \cup Arith \cup IfKinds =>
           IsValue(q.a) /\ (at \in kept => Useful(q.a))
      /\ q.kind \in Arith \cup IfKinds => IsValue(q.b) /\ (at \in kept => Useful(q.b))
  BY <1>1, <1>2, KeptReads DEF FrontEndQuad
<1> QED
  BY <1>1, <1>2, <1>3, <1>4, <1>5, ValuesAreInts DEF Useful

(* At a kept place both are at the same quadruple, and both can run.       *)
LEMMA AtKept ==
  ASSUME RunInv, at \in kept
  PROVE  /\ Kept!q = q /\ KeptAt(at) \in DOMAIN KeptProg
         /\ \A kinds : Running(kinds) => Kept!Running(kinds)
<1>1. Kept!q = q /\ KeptAt(at) \in DOMAIN KeptProg
  BY KeptProgAt DEF RunInv, Kept!q, q
<1> QED
  BY <1>1 DEF Kept!Running, Running

(* Only what stores a useless name is not kept.                            *)
LEMMA AtDropped ==
  ASSUME RunInv, at \in DOMAIN prog, at \notin kept
  PROVE  q.kind \in {"ASSIGN"} \cup Arith /\ q.dst.char_val \in useless
BY DroppedStores DEF RunInv, q

(* A store, seen: the same store, or none if the name is useless.          *)
LEMMA StoresSeen ==
  ASSUME RunTyped, NEW v \in Vars, NEW x
  PROVE  /\ v \notin useless => KeptEnv([env EXCEPT ![v] = x]) = [KeptEnv(env) EXCEPT ![v] = x]
         /\ v \in useless => KeptEnv([env EXCEPT ![v] = x]) = KeptEnv(env)
BY DEF RunTyped, KeptEnv

(* Going on to the next quadruple.                                         *)
LEMMA Advances ==
  ASSUME RunInv, Fixed, at \in DOMAIN prog, ~returned, Advance
  PROVE  /\ at' \in 1 .. Len(prog) + 1 /\ ~returned' /\ returned' \in BOOLEAN
         /\ at \in kept => Kept!Advance
         /\ at \notin kept => KeptAt(at)' = KeptAt(at)
<1>1. at' = at + 1 /\ at \in 1 .. Len(prog) /\ Len(prog) \in Nat
  BY KeptFinite DEF RunInv, Advance
<1>2. KeptAt(at)' = KeptAt(at + 1) /\ KeptProg' = KeptProg
  BY <1>1, SeenNext
<1>3. /\ at \in kept => KeptAt(at + 1) = KeptAt(at) + 1
      /\ at \notin kept => KeptAt(at + 1) = KeptAt(at)
  BY KeptAtNext DEF RunInv
<1>4. UNCHANGED <<returned, halted>> /\ returned \in BOOLEAN
  BY DEF Advance, RunInv, RunTyped
<1>5. at \in kept => Kept!Advance
  BY <1>2, <1>3, <1>4 DEF Kept!Advance
<1>6. at' \in 1 .. Len(prog) + 1
  BY <1>1
<1> QED
  BY <1>2, <1>3, <1>4, <1>5, <1>6

-------------------------------------------------------------------------------
(* One lemma per kind of step: the run keeps its types, and the kept       *)
(* program takes the same step, or stands still at a line it has not.      *)
KeptStill == UNCHANGED Kept!vars
StillSeen == /\ KeptProg' = KeptProg /\ KeptAt(at)' = KeptAt(at) /\ KeptEnv(env)' = KeptEnv(env)
             /\ KeptFrames' = KeptFrames
             /\ UNCHANGED <<returned, args, actuals, value, out, halted>>
LEMMA SeenStill == StillSeen => KeptStill
BY DEF StillSeen, KeptStill, Kept!vars

(* Nothing to do: the same in both.                                        *)
LEMMA SkipKept ==
  ASSUME RunInv, Fixed, Skip
  PROVE  RunTyped' /\ Kept!Skip
<1>1. at \in DOMAIN prog /\ ~returned /\ Running({"LABEL", "FUNCTION", "NONE", "DEC"})
      /\ q.kind \in {"LABEL", "FUNCTION", "NONE", "DEC"}
  BY DEF Skip, Running
<1>2. at \in kept
  BY <1>1, AtDropped DEF Arith, AddSub, MulDiv
<1>3. /\ Advance /\ UNCHANGED <<env, args, actuals, frames, value, out>>
      /\ KeptEnv(env)' = KeptEnv(env) /\ KeptFrames' = KeptFrames
  BY SeenNext DEF Skip
<1>4. Kept!Skip
  BY <1>1, <1>2, <1>3, AtKept, Advances DEF Kept!Skip
<1>5. RunTyped'
  BY <1>1, <1>3, Advances, SeenNext DEF RunInv, RunTyped, Fixed
<1> QED  BY <1>4, <1>5

(* A store: of a name both see, or of one that only the whole program has. *)
LEMMA StoreKept ==
  ASSUME RunInv, Fixed, NEW v \in Vars, NEW x \in Int, env' = [env EXCEPT ![v] = x],
         UNCHANGED frames
  PROVE  /\ env' \in [Vars -> Int]
         /\ v \notin useless => KeptEnv(env)' = [KeptEnv(env) EXCEPT ![v] = x]
         /\ v \in useless => KeptEnv(env)' = KeptEnv(env)
         /\ KeptFrames' = KeptFrames
<1>1. RunTyped /\ KeptEnv(env)' = KeptEnv(env') /\ KeptFrames' = KeptFrames
  BY SeenNext DEF RunInv
<1> QED  BY <1>1, StoresSeen DEF RunTyped

(* A move or an operation: one of a useless name is not noticed.           *)
LEMMA MoveKept ==
  ASSUME RunInv, Fixed, Move
  PROVE  RunTyped' /\ (Kept!Move \/ KeptStill)
<1>1. /\ at \in DOMAIN prog /\ ~returned /\ Running({"ASSIGN"}) /\ q.kind = "ASSIGN" /\ Advance
      /\ env' = [env EXCEPT ![q.dst.char_val] = Val(q.a)]
      /\ UNCHANGED <<args, actuals, frames, value, out>>
  BY DEF Move, Running, Assigned
<1>2. q.dst.char_val \in Vars /\ Val(q.a) \in Int
  BY <1>1, Operands
<1>3. RunTyped'
  BY <1>1, <1>2, Advances, StoreKept, SeenNext DEF RunInv, RunTyped, Fixed
<1>4. CASE at \in kept
  <2>1. q.dst.char_val \notin useless /\ Kept!Val(q.a) = Val(q.a)
    BY <1>1, <1>4, Operands
  <2>2. KeptEnv(env)' = [KeptEnv(env) EXCEPT ![q.dst.char_val] = Val(q.a)] /\ KeptFrames' = KeptFrames
    BY <1>1, <1>2, <2>1, StoreKept
  <2> QED  BY <1>1, <1>3, <1>4, <2>1, <2>2, AtKept, Advances DEF Kept!Move, Kept!Assigned
<1>5. CASE at \notin kept
  <2>1. q.dst.char_val \in useless
    BY <1>1, <1>5, AtDropped
  <2>2. StillSeen
    BY <1>1, <1>2, <1>5, <2>1, StoreKept, Advances, SeenNext DEF StillSeen, Advance
  <2> QED  BY <1>3, <2>2, SeenStill
<1> QED  BY <1>4, <1>5

(* The results of an operation on integers are integers.                   *)
LEMMA ResultsInInt ==
  ASSUME NEW k, NEW m \in Int, NEW n \in Int
  PROVE  Results(k, m, n) \subseteq Int
<1>1. \A i \in Int : AbsVal(i) \in Nat /\ (i # 0 => AbsVal(i) > 0)
  BY DEF AbsVal
<1>2. n # 0 => AbsVal(m) \div AbsVal(n) \in Int
  <2> HAVE n # 0
  <2>1. AbsVal(m) \in Int /\ AbsVal(n) \in Nat \ {0}
    BY <1>1
  <2> QED  BY <2>1
<1>3. n # 0 => Quot(m, n) \in Int
  BY <1>2 DEF Quot
<1>4. m + n \in Int /\ m - n \in Int /\ m * n \in Int
  OBVIOUS
<1> QED
  BY <1>3, <1>4, LeftoversAssumption DEF Results

LEMMA OperateKept ==
  ASSUME RunInv, Fixed, Operate
  PROVE  RunTyped' /\ (Kept!Operate \/ KeptStill)
<1>1. /\ at \in DOMAIN prog /\ ~returned /\ Running(Arith) /\ q.kind \in Arith /\ Advance
      /\ UNCHANGED <<args, actuals, frames, value, out>>
  BY DEF Operate, Running
<1>2. PICK n \in Results(q.kind, Val(q.a), Val(q.b)) : env' = [env EXCEPT ![q.dst.char_val] = n]
  BY DEF Operate, Assigned
<1>3. q.dst.char_val \in Vars /\ n \in Int
  BY <1>1, <1>2, Operands, ResultsInInt
<1>4. RunTyped'
  BY <1>1, <1>2, <1>3, Advances, StoreKept, SeenNext DEF RunInv, RunTyped, Fixed
<1>5. CASE at \in kept
  <2>1. q.dst.char_val \notin useless /\ Kept!Val(q.a) = Val(q.a) /\ Kept!Val(q.b) = Val(q.b)
    BY <1>1, <1>5, Operands
  <2>2. KeptEnv(env)' = [KeptEnv(env) EXCEPT ![q.dst.char_val] = n] /\ KeptFrames' = KeptFrames
    BY <1>1, <1>2, <1>3, <2>1, StoreKept
  <2>3. Kept!q = q /\ Kept!Running(Kept!Arith) /\ Kept!Advance
    BY <1>1, <1>5, AtKept, Advances, SameWords
  <2>4. \E m \in Kept!Results(Kept!q.kind, Kept!Val(Kept!q.a), Kept!Val(Kept!q.b)) :
           Kept!Assigned(Kept!q.dst, m)
    <3>1. n \in Kept!Results(Kept!q.kind, Kept!Val(Kept!q.a), Kept!Val(Kept!q.b))
      BY <1>2, <2>1, <2>3, SameWords
    <3>2. Kept!Assigned(Kept!q.dst, n)
      BY <2>2, <2>3 DEF Kept!Assigned
    <3> QED  BY <3>1, <3>2
  <2> QED  BY <1>1, <1>4, <2>2, <2>3, <2>4 DEF Kept!Operate
<1>6. CASE at \notin kept
  <2>1. q.dst.char_val \in useless
    BY <1>1, <1>6, AtDropped
  <2>2. StillSeen
    BY <1>1, <1>2, <1>3, <1>6, <2>1, StoreKept, Advances, SeenNext DEF StillSeen, Advance
  <2> QED  BY <1>4, <2>2, SeenStill
<1> QED  BY <1>5, <1>6

-------------------------------------------------------------------------------
(* Kinds of quadruples that do not only store are all kept.                *)
NotStores == {"GOTO", "ARG", "CALL", "PARAM", "RETURN", "READ", "WRITE"} \cup IfKinds
LEMMA NotStoresKept ==
  ASSUME RunInv, at \in DOMAIN prog, q.kind \in NotStores
  PROVE  at \in kept
BY AtDropped DEF NotStores, IfKinds, Arith, AddSub, MulDiv

(* A jump leads both to the same label.                                    *)
LEMMA JumpKept ==
  ASSUME RunInv, Fixed, Jump
  PROVE  RunTyped' /\ Kept!Jump
<1>1. /\ at \in DOMAIN prog /\ ~returned /\ q = prog[at] /\ q.kind \in IfKinds \cup {"GOTO"}
      /\ at' = LabelAt(prog, q.labelno.int_val)
      /\ UNCHANGED <<prog, returned, env, args, actuals, frames, value, out, halted>>
  BY DEF Jump, Running, q
<1>2. at \in kept /\ CodeKnown /\ RunTyped
  BY <1>1, NotStoresKept DEF NotStores, RunInv
<1>3. /\ at' \in DOMAIN prog
      /\ LabelAt(KeptProg, q.labelno.int_val) = KeptAt(at')
  BY <1>1, <1>2, JumpsFound
<1>4. /\ KeptAt(at)' = KeptAt(at') /\ KeptProg' = KeptProg /\ KeptEnv(env)' = KeptEnv(env)
      /\ KeptFrames' = KeptFrames /\ CallPlaces' = CallPlaces
  BY <1>1, SeenNext
<1>5. RunTyped'
  <2>1. at' \in 1 .. Len(prog) + 1
    BY <1>2, <1>3, KeptFinite
  <2> QED  BY <1>1, <1>2, <1>4, <2>1 DEF RunTyped
<1>6. \/ Kept!Running({"GOTO"})
      \/ Kept!Running(Kept!IfKinds) /\ Kept!Holds(q.kind, Kept!Val(q.a), Kept!Val(q.b))
  <2>1. CASE Running({"GOTO"})
    BY <2>1, <1>2, AtKept
  <2>2. CASE Running(IfKinds) /\ Holds(q.kind, Val(q.a), Val(q.b))
    <3>1. Kept!Val(q.a) = Val(q.a) /\ Kept!Val(q.b) = Val(q.b)
      BY <1>1, <1>2, <2>2, Operands DEF Running
    <3> QED  BY <2>2, <3>1, <1>2, AtKept, SameWords
  <2> QED  BY <2>1, <2>2 DEF Jump
<1>7. KeptAt(at)' = Kept!LabelAt(KeptProg, q.labelno.int_val)
  BY <1>3, <1>4, SameWords
<1>8. Kept!Jump
  BY <1>1, <1>2, <1>4, <1>6, <1>7, AtKept DEF Kept!Jump
<1> QED  BY <1>5, <1>8

LEMMA FallThroughKept ==
  ASSUME RunInv, Fixed, FallThrough
  PROVE  RunTyped' /\ Kept!FallThrough
<1>1. /\ at \in DOMAIN prog /\ ~returned /\ Running(IfKinds) /\ q.kind \in IfKinds /\ Advance
      /\ ~Holds(q.kind, Val(q.a), Val(q.b))
      /\ UNCHANGED <<env, args, actuals, frames, value, out>>
  BY DEF FallThrough, Running
<1>2. at \in kept
  BY <1>1, NotStoresKept DEF NotStores
<1>3. KeptEnv(env)' = KeptEnv(env) /\ KeptFrames' = KeptFrames
  BY <1>1, SeenNext
<1>4. RunTyped'
  BY <1>1, Advances, SeenNext DEF RunInv, RunTyped, Fixed
<1>5. Kept!Val(q.a) = Val(q.a) /\ Kept!Val(q.b) = Val(q.b)
  BY <1>1, <1>2, Operands
<1>6. Kept!q = q /\ Kept!Running(Kept!IfKinds) /\ Kept!Advance
  BY <1>1, <1>2, AtKept, Advances, SameWords
<1>7. Kept!FallThrough
  BY <1>1, <1>3, <1>5, <1>6, SameWords DEF Kept!FallThrough
<1> QED  BY <1>4, <1>7

(* Arguments, parameters, input and output are the same for both.          *)
LEMMA PassArgKept ==
  ASSUME RunInv, Fixed, PassArg
  PROVE  RunTyped' /\ Kept!PassArg
<1>1. /\ at \in DOMAIN prog /\ ~returned /\ Running({"ARG"}) /\ q.kind = "ARG" /\ Advance
      /\ args' = <<Val(q.a)>> \o args
      /\ UNCHANGED <<env, actuals, frames, value, out>>
  BY DEF PassArg, Running
<1>2. at \in kept
  BY <1>1, NotStoresKept DEF NotStores
<1>3. KeptEnv(env)' = KeptEnv(env) /\ KeptFrames' = KeptFrames
  BY <1>1, SeenNext
<1>4. Val(q.a) \in Int /\ Kept!Val(q.a) = Val(q.a)
  BY <1>1, <1>2, Operands
<1>5. args' \in Seq(Int)
  BY <1>1, <1>4 DEF RunInv, RunTyped
<1>6. RunTyped'
  BY <1>1, <1>5, Advances, SeenNext DEF RunInv, RunTyped, Fixed
<1>7. Kept!PassArg
  BY <1>1, <1>2, <1>3, <1>4, AtKept, Advances DEF Kept!PassArg
<1> QED  BY <1>6, <1>7

LEMMA TakeParamKept ==
  ASSUME RunInv, Fixed, TakeParam
  PROVE  RunTyped' /\ Kept!TakeParam
<1>1. /\ at \in DOMAIN prog /\ ~returned /\ Running({"PARAM"}) /\ q.kind = "PARAM" /\ Advance
      /\ actuals # << >> /\ actuals' = Tail(actuals)
      /\ env' = [env EXCEPT ![q.dst.char_val] = Head(actuals)]
      /\ UNCHANGED <<args, frames, value, out>>
  BY DEF TakeParam, Running, Assigned
<1>2. at \in kept
  BY <1>1, NotStoresKept DEF NotStores
<1>3. q.dst.char_val \in Vars /\ q.dst.char_val \notin useless
  BY <1>1, <1>2, Operands
<1>4. Head(actuals) \in Int /\ Tail(actuals) \in Seq(Int)
  BY <1>1 DEF RunInv, RunTyped
<1>5. /\ env' \in [Vars -> Int] /\ KeptFrames' = KeptFrames
      /\ KeptEnv(env)' = [KeptEnv(env) EXCEPT ![q.dst.char_val] = Head(actuals)]
  BY <1>1, <1>3, <1>4, StoreKept
<1>6. RunTyped'
  BY <1>1, <1>4, <1>5, Advances, SeenNext DEF RunInv, RunTyped, Fixed
<1>7. Kept!TakeParam
  BY <1>1, <1>2, <1>5, AtKept, Advances DEF Kept!TakeParam, Kept!Assigned
<1> QED  BY <1>6, <1>7

LEMMA InputKept ==
  ASSUME RunInv, Fixed, Input
  PROVE  RunTyped' /\ Kept!Input
<1>1. /\ at \in DOMAIN prog /\ ~returned /\ Running({"READ"}) /\ q.kind = "READ" /\ Advance
      /\ UNCHANGED <<args, actuals, frames, value, out>>
  BY DEF Input, Running
<1>2. PICK n \in Inputs : env' = [env EXCEPT ![q.dst.char_val] = n]
  BY DEF Input, Assigned
<1>3. at \in kept
  BY <1>1, NotStoresKept DEF NotStores
<1>4. q.dst.char_val \in Vars /\ q.dst.char_val \notin useless /\ n \in Int
  BY <1>1, <1>3, Operands, CodeAssumption
<1>5. /\ env' \in [Vars -> Int] /\ KeptFrames' = KeptFrames
      /\ KeptEnv(env)' = [KeptEnv(env) EXCEPT ![q.dst.char_val] = n]
  BY <1>1, <1>2, <1>4, StoreKept
<1>6. RunTyped'
  BY <1>1, <1>5, Advances, SeenNext DEF RunInv, RunTyped, Fixed
<1>7. Kept!Input
  BY <1>1, <1>2, <1>3, <1>5, AtKept, Advances DEF Kept!Input, Kept!Assigned
<1> QED  BY <1>6, <1>7

LEMMA OutputKept ==
  ASSUME RunInv, Fixed, Output
  PROVE  RunTyped' /\ Kept!Output
<1>1. /\ at \in DOMAIN prog /\ ~returned /\ Running({"WRITE"}) /\ q.kind = "WRITE" /\ Advance
      /\ out' = Append(out, Val(q.a))
      /\ UNCHANGED <<env, args, actuals, frames, value>>
  BY DEF Output, Running
<1>2. at \in kept
  BY <1>1, NotStoresKept DEF NotStores
<1>3. KeptEnv(env)' = KeptEnv(env) /\ KeptFrames' = KeptFrames
  BY <1>1, SeenNext
<1>4. Kept!Val(q.a) = Val(q.a)
  BY <1>1, <1>2, Operands
<1>5. RunTyped'
  BY <1>1, Advances, SeenNext DEF RunInv, RunTyped, Fixed
<1>6. Kept!Output
  BY <1>1, <1>2, <1>3, <1>4, AtKept, Advances DEF Kept!Output
<1> QED  BY <1>5, <1>6

(* The activations, one by one.                                            *)
Frame == [at : CallPlaces, env : [Vars -> Int]]
FrameSeen(f) == [at |-> KeptAt(f.at), env |-> KeptEnv(f.env)]
FrameShown == [at : Nat, env : [Vars -> Int]]
(* The suspended activations, seen, are as many.                           *)
LEMMA FramesKnown ==
  ASSUME CodeKnown, NEW fs \in Seq(Frame)
  PROVE  /\ FramesSeen(fs) \in Seq(FrameShown) /\ Len(FramesSeen(fs)) = Len(fs)
         /\ \A k \in 1 .. Len(fs) : FramesSeen(fs)[k] = FrameSeen(fs[k])
         /\ \A f \in Frame : FrameSeen(f) \in FrameShown
<1>1. \A f \in Frame : FrameSeen(f) \in FrameShown
  <2> SUFFICES ASSUME NEW f \in Frame PROVE FrameSeen(f) \in FrameShown
    OBVIOUS
  <2>1. f.at \in DOMAIN prog /\ f.env \in [Vars -> Int]
    BY DEF Frame, CallPlaces
  <2>2. KeptAt(f.at) \in Nat
    BY <2>1, KeptAtNext
  <2>3. KeptEnv(f.env) \in [Vars -> Int]
    BY <2>1 DEF KeptEnv
  <2> QED  BY <2>2, <2>3 DEF FrameSeen, FrameShown
<1>2. FramesSeen(fs) = [k \in 1 .. Len(fs) |-> FrameSeen(fs[k])]
  BY DEF FramesSeen, FrameSeen
<1> HIDE DEF Frame, FrameShown
<1>3. \A k \in 1 .. Len(fs) : FrameSeen(fs[k]) \in FrameShown
  BY <1>1
<1> QED  BY <1>1, <1>2, <1>3

(* One more is seen as one more,                                           *)
LEMMA FramesPushed ==
  ASSUME CodeKnown, NEW fs \in Seq(Frame), NEW f \in Frame
  PROVE  FramesSeen(Append(fs, f)) = Append(FramesSeen(fs), FrameSeen(f))
<1> DEFINE new == Append(fs, f)
           a == FramesSeen(new)
           b == Append(FramesSeen(fs), FrameSeen(f))
<1>1. new \in Seq(Frame) /\ Len(new) = Len(fs) + 1 /\ Len(fs) \in Nat
  OBVIOUS
<1>2. a \in Seq(FrameShown) /\ Len(a) = Len(fs) + 1
  BY <1>1, FramesKnown
<1>3. b \in Seq(FrameShown) /\ Len(b) = Len(fs) + 1
  BY FramesKnown
<1>4. \A k \in 1 .. Len(fs) + 1 : a[k] = b[k]
  <2> TAKE k \in 1 .. Len(fs) + 1
  <2>1. a[k] = FrameSeen(new[k])
    BY <1>1, FramesKnown
  <2>2. CASE k = Len(fs) + 1
    <3>1. new[k] = f /\ b[k] = FrameSeen(f)
      BY <2>2, FramesKnown
    <3> QED  BY <2>1, <3>1
  <2>3. CASE k # Len(fs) + 1
    <3>1. k \in 1 .. Len(fs) /\ new[k] = fs[k]
      BY <2>3
    <3>2. b[k] = FrameSeen(fs[k])
      BY <3>1, FramesKnown
    <3> QED  BY <2>1, <3>1, <3>2
  <2> QED  BY <2>2, <2>3
<1> HIDE DEF a, b
<1>5. a = b
  BY <1>2, <1>3, <1>4
<1> QED  BY <1>5 DEF a, b

(* and one less as one less.                                               *)
LEMMA FramesPopped ==
  ASSUME CodeKnown, NEW fs \in Seq(Frame), fs # << >>
  PROVE  FramesSeen(SubSeq(fs, 1, Len(fs) - 1)) = SubSeq(FramesSeen(fs), 1, Len(FramesSeen(fs)) - 1)
<1> DEFINE n == Len(fs) - 1
           new == SubSeq(fs, 1, n)
           a == FramesSeen(new)
           b == SubSeq(FramesSeen(fs), 1, n)
<1>1. n \in Nat /\ new \in Seq(Frame) /\ Len(new) = n /\ \A k \in 1 .. n : new[k] = fs[k]
  <2>1. n \in Nat /\ Len(fs) = n + 1
    OBVIOUS
  <2>2. \A k \in 1 .. n : fs[k] \in Frame
    BY <2>1
  <2> HIDE DEF n
  <2>3. new = [k \in 1 .. n |-> fs[k]]
    BY <2>1
  <2> HIDE DEF new
  <2> QED  BY <2>1, <2>2, <2>3
<1>2. a \in Seq(FrameShown) /\ Len(a) = n /\ \A k \in 1 .. n : a[k] = FrameSeen(fs[k])
  BY <1>1, FramesKnown
<1>3. FramesSeen(fs) \in Seq(FrameShown) /\ Len(FramesSeen(fs)) = n + 1
      /\ \A k \in 1 .. n : FramesSeen(fs)[k] = FrameSeen(fs[k])
  BY <1>1, FramesKnown
<1>4. b \in Seq(FrameShown) /\ Len(b) = n /\ \A k \in 1 .. n : b[k] = FramesSeen(fs)[k]
  <2> HIDE DEF n
  <2> QED  BY <1>1, <1>3
<1> HIDE DEF a, b
<1>5. a = b
  BY <1>1, <1>2, <1>3, <1>4
<1> QED  BY <1>1, <1>3, <1>5 DEF a, b

-------------------------------------------------------------------------------
(* A call suspends the same activation in both.                            *)
LEMMA InvokeKept ==
  ASSUME RunInv, Fixed, Invoke
  PROVE  RunTyped' /\ Kept!Invoke
<1> DEFINE f == [at |-> at, env |-> env]
<1>1. /\ at \in DOMAIN prog /\ ~returned /\ Running({"CALL"}) /\ q.kind = "CALL" /\ q = prog[at]
      /\ at' = FuncAt(prog, q.funcname)
      /\ frames' = Append(frames, f) /\ actuals' = args /\ args' = << >>
      /\ UNCHANGED <<prog, returned, env, value, out, halted>>
  BY DEF Invoke, Running, q
<1>2. CodeKnown /\ RunTyped /\ at \in kept
  BY <1>1, NotStoresKept DEF NotStores, RunInv
<1>3. f \in Frame /\ frames \in Seq(Frame)
  BY <1>1, <1>2 DEF Frame, CallPlaces, RunTyped
<1>4. at' \in DOMAIN prog /\ FuncAt(KeptProg, q.funcname) = KeptAt(at')
  BY <1>1, <1>2, CallsFound
<1>5. /\ KeptAt(at)' = KeptAt(at') /\ KeptProg' = KeptProg /\ KeptEnv(env)' = KeptEnv(env)
      /\ KeptFrames = FramesSeen(frames) /\ KeptFrames' = FramesSeen(frames')
      /\ CallPlaces' = CallPlaces
  BY <1>1, SeenNext
<1>6. RunTyped'
  <2>1. at' \in 1 .. Len(prog) + 1
    BY <1>2, <1>4, KeptFinite
  <2>2. frames' \in Seq(Frame)
    <3> HIDE DEF f
    <3> QED  BY <1>1, <1>3
  <2>3. args' \in Seq(Int) /\ actuals' \in Seq(Int)
    BY <1>1, <1>2 DEF RunTyped
  <2> QED  BY <1>1, <1>2, <1>5, <2>1, <2>2, <2>3 DEF RunTyped, Frame
<1>7. KeptFrames' = Append(KeptFrames, [at |-> KeptAt(at), env |-> KeptEnv(env)])
  <2>1. FramesSeen(Append(frames, f)) = Append(FramesSeen(frames), FrameSeen(f))
    <3> HIDE DEF f
    <3> QED  BY <1>2, <1>3, FramesPushed
  <2> QED  BY <1>1, <1>5, <2>1 DEF FrameSeen
<1>8. KeptAt(at)' = Kept!FuncAt(KeptProg, q.funcname)
  BY <1>4, <1>5, SameWords
<1>9. Kept!q = q /\ Kept!Running({"CALL"})
  BY <1>1, <1>2, AtKept
<1>10. Kept!Invoke
  BY <1>1, <1>5, <1>7, <1>8, <1>9 DEF Kept!Invoke
<1> QED  BY <1>6, <1>10

(* The frame control returns to, as both see it.                           *)
LEMMA LastFrame ==
  ASSUME CodeKnown, RunTyped, frames # << >>
  PROVE  /\ frames \in Seq(Frame) /\ Len(frames) \in Nat \ {0}
         /\ frames[Len(frames)] \in Frame /\ frames[Len(frames)].at \in kept
         /\ KeptFrames = FramesSeen(frames) /\ KeptFrames # << >>
         /\ KeptFrames[Len(KeptFrames)] = FrameSeen(frames[Len(frames)])
<1>1. frames \in Seq(Frame)
  BY DEF RunTyped, Frame
<1>2. Len(frames) \in Nat \ {0} /\ frames[Len(frames)] \in Frame
  <2> HIDE DEF Frame
  <2> QED  BY <1>1
<1>3. frames[Len(frames)].at \in kept
  <2>1. frames[Len(frames)].at \in CallPlaces
    BY <1>2 DEF Frame
  <2> QED  BY <2>1, DroppedStores DEF CallPlaces, Arith, AddSub, MulDiv
<1>4. KeptFrames = FramesSeen(frames)
  BY DEF KeptFrames, FramesSeen
<1>5. /\ Len(KeptFrames) = Len(frames) /\ KeptFrames \in Seq(FrameShown)
      /\ KeptFrames[Len(frames)] = FrameSeen(frames[Len(frames)])
  BY <1>1, <1>2, <1>4, FramesKnown
<1> QED  BY <1>1, <1>2, <1>3, <1>4, <1>5

(* A return gives both the same value, to the same call.                   *)
LEMMA GiveBackKept ==
  ASSUME RunInv, Fixed, GiveBack
  PROVE  RunTyped' /\ Kept!GiveBack
<1>1. /\ at \in DOMAIN prog /\ ~returned /\ Running({"RETURN"}) /\ q.kind = "RETURN"
      /\ UNCHANGED <<prog, env, args, actuals, frames, out>>
  BY DEF GiveBack, Running
<1>2. CodeKnown /\ RunTyped /\ at \in kept
  BY <1>1, NotStoresKept DEF NotStores, RunInv
<1>3. /\ KeptAt(at)' = KeptAt(at') /\ KeptProg' = KeptProg /\ KeptEnv(env)' = KeptEnv(env)
      /\ KeptFrames = FramesSeen(frames) /\ KeptFrames' = KeptFrames
      /\ CallPlaces' = CallPlaces
  BY <1>1, SeenNext
<1>4. Kept!q = q /\ Kept!Running({"RETURN"}) /\ Val(q.a) \in Int /\ Kept!Val(q.a) = Val(q.a)
  BY <1>1, <1>2, AtKept, Operands
<1>5. CASE frames = << >>
  <2>1. halted' = TRUE /\ UNCHANGED <<at, returned, value>>
    BY <1>5 DEF GiveBack
  <2>2. RunTyped'
    BY <1>1, <1>2, <1>3, <2>1 DEF RunTyped
  <2>3. KeptFrames = << >> /\ KeptAt(at)' = KeptAt(at)
    BY <1>3, <1>5, <2>1 DEF FramesSeen
  <2>4. Kept!GiveBack
    BY <1>1, <1>3, <1>4, <2>1, <2>3 DEF Kept!GiveBack
  <2> QED  BY <2>2, <2>4
<1>6. CASE frames # << >>
  <2>1. /\ at' = frames[Len(frames)].at /\ returned' = TRUE /\ value' = Val(q.a)
        /\ UNCHANGED halted
    BY <1>6 DEF GiveBack
  <2>2. RunTyped'
    <3>1. frames[Len(frames)].at \in CallPlaces
      BY <1>2, <1>6, LastFrame DEF Frame
    <3>2. at' \in 1 .. Len(prog) + 1
      BY <1>2, <2>1, <3>1, KeptFinite DEF CallPlaces
    <3> QED  BY <1>1, <1>2, <1>3, <1>4, <1>6, <2>1, <3>1, <3>2 DEF RunTyped
  <2>3. KeptFrames # << >> /\ KeptAt(at)' = KeptFrames[Len(KeptFrames)].at
    BY <1>2, <1>3, <1>6, <2>1, LastFrame DEF FrameSeen
  <2>4. Kept!GiveBack
    BY <1>1, <1>3, <1>4, <2>1, <2>3 DEF Kept!GiveBack
  <2> QED  BY <2>2, <2>4
<1> QED  BY <1>5, <1>6

(* The caller goes on in both with its variables and that value.           *)
LEMMA ResumeKept ==
  ASSUME RunInv, Fixed, Resume
  PROVE  RunTyped' /\ Kept!Resume
<1> DEFINE f == frames[Len(frames)]
           v == q.dst.char_val
<1>1. /\ ~halted /\ returned /\ returned' = FALSE /\ at' = at + 1
      /\ env' = [f.env EXCEPT ![v] = value]
      /\ frames' = SubSeq(frames, 1, Len(frames) - 1) /\ value' = 0
      /\ UNCHANGED <<prog, args, actuals, out, halted>>
  BY DEF Resume
<1>2. /\ CodeKnown /\ RunTyped /\ at \in DOMAIN prog /\ frames # << >>
      /\ q.kind = "CALL" /\ value \in Int
  BY <1>1 DEF RunInv, RunTyped, CallPlaces, q
<1>3. at \in kept
  BY <1>2, NotStoresKept DEF NotStores
<1>4. v \in Vars /\ v \notin useless
  BY <1>2, <1>3, Operands
<1>5. /\ frames \in Seq(Frame) /\ f \in Frame /\ Len(frames) \in Nat \ {0}
      /\ KeptFrames = FramesSeen(frames) /\ KeptFrames[Len(KeptFrames)] = FrameSeen(f)
  BY <1>2, LastFrame
<1>6. f.env \in [Vars -> Int]
  BY <1>5 DEF Frame
<1>7. /\ KeptAt(at)' = KeptAt(at') /\ KeptProg' = KeptProg /\ KeptEnv(env)' = KeptEnv(env')
      /\ KeptFrames' = FramesSeen(frames') /\ CallPlaces' = CallPlaces
  BY SeenNext
<1> HIDE DEF f, v
<1>8. KeptEnv(env') = [KeptEnv(f.env) EXCEPT ![v] = value] /\ env' \in [Vars -> Int]
  BY <1>1, <1>2, <1>4, <1>6 DEF KeptEnv
<1>9. KeptFrames' = SubSeq(KeptFrames, 1, Len(KeptFrames) - 1)
  BY <1>1, <1>2, <1>5, <1>7, FramesPopped
<1>10. KeptAt(at)' = KeptAt(at) + 1
  BY <1>1, <1>2, <1>3, <1>7, KeptAtNext
<1>11. Kept!q = q
  BY <1>3, AtKept
<1>12. Kept!Resume
  <2>1. KeptFrames[Len(KeptFrames)].env = KeptEnv(f.env)
    BY <1>5 DEF FrameSeen
  <2> QED  BY <1>1, <1>7, <1>8, <1>9, <1>10, <1>11, <2>1 DEF Kept!Resume, v
<1>13. RunTyped'
  <2>1. at' \in 1 .. Len(prog) + 1
    BY <1>1, <1>2, KeptFinite
  <2>2. frames' \in Seq(Frame)
    BY <1>1, <1>5
  <2>3. /\ returned' = FALSE /\ value' \in Int /\ prog' = prog
        /\ args' \in Seq(Int) /\ actuals' \in Seq(Int)
    BY <1>1, <1>2 DEF RunTyped
  <2>4. frames' \in Seq([at : CallPlaces', env : [Vars -> Int]])
    BY <1>7, <2>2 DEF Frame
  <2>5. env' \in [Vars -> Int]
    BY <1>8
  <2> QED  BY <2>1, <2>3, <2>4, <2>5 DEF RunTyped
<1> QED  BY <1>12, <1>13

-------------------------------------------------------------------------------
(* The programs that simplify gets are known, and where their runs start.  *)
LEMMA RunStarts ==
  ASSUME KrInit
  PROVE  RunInv /\ Kept!Init
<1>1. /\ made \in Outputs /\ prog \in Seq(Instr) /\ Simplifiable
      /\ at = FuncAt(prog, Main) /\ returned = FALSE /\ env = [v \in Vars |-> 0]
      /\ args = << >> /\ actuals = << >> /\ frames = << >> /\ value = 0
      /\ out = << >> /\ halted = FALSE
  BY CodeAssumption DEF KrInit, SimpInit, Init
<1>2. CodeKnown
  BY <1>1 DEF KrInit, CodeKnown
<1>3. at \in DOMAIN prog /\ KeptAt(at) = FuncAt(KeptProg, Main)
  BY <1>1, <1>2, CallsFound
<1>4. RunTyped
  <2>1. at \in 1 .. Len(prog) + 1
    BY <1>2, <1>3, KeptFinite
  <2>2. env \in [Vars -> Int] /\ value \in Int
    BY <1>1
  <2>5. returned \in BOOLEAN /\ ~returned
    BY Zenon, <1>1
  <2>3. args \in Seq(Int) /\ actuals \in Seq(Int)
    BY <1>1
  <2>4. frames \in Seq(Frame)
    BY <1>1
  <2> QED  BY <2>1, <2>2, <2>3, <2>4, <2>5 DEF RunTyped, Frame
<1>5. Kept!Init
  <2>1. KeptProg \in Seq(Instr)
    BY <1>2, KeptProgAt
  <2>2. KeptAt(at) = Kept!FuncAt(KeptProg, Main)
    BY <1>3, SameWords
  <2>3. KeptEnv(env) = [v \in Vars |-> 0]
    BY <1>1 DEF KeptEnv
  <2>4. KeptFrames = << >>
    BY <1>1 DEF KeptFrames
  <2> QED  BY <1>1, <2>1, <2>2, <2>3, <2>4 DEF Kept!Init
<1> QED  BY <1>2, <1>4, <1>5 DEF RunInv

(* Every step keeps the invariant and is one of the kept program.          *)
LEMMA RunSteps ==
  ASSUME RunInv, SimpTypeOK, [KrNext]_krVars
  PROVE  RunInv' /\ [Kept!Next]_(Kept!vars)
<1>1. Fixed
  <2>1. CASE Simplifies
    BY <2>1 DEF Simplifies, SimpNext, SkipVisited, TakeNode, FollowNull, PushSubnode, LeaveNode,
       EndWalk, FilterLine, EndFilter, vars, Fixed
  <2>2. CASE Executes
    BY <2>2 DEF Executes, Next, Skip, Move, Operate, Jump, FallThrough, PassArg, Invoke, TakeParam,
       GiveBack, Resume, Input, Output, Advance, simpVars, Fixed
  <2>3. CASE UNCHANGED krVars
    BY <2>3 DEF krVars, simpVars, vars, Fixed
  <2> QED  BY <2>1, <2>2, <2>3 DEF KrNext
<1>2. CodeKnown'
  BY <1>1, CodeStays DEF RunInv
<1>3. CASE UNCHANGED vars
  <2>1. UNCHANGED <<at, returned, env, args, actuals, frames, value, out, halted>>
    BY <1>3 DEF vars
  <2>2. StillSeen
    BY <1>1, <2>1, SeenNext DEF StillSeen
  <2>3. RunTyped'
    BY <1>1, <2>1, SeenNext DEF RunInv, RunTyped, Fixed
  <2> QED  BY <1>2, <2>2, <2>3, SeenStill DEF RunInv, KeptStill
<1>4. CASE Next
  <2>1. CASE Skip \/ Move \/ Operate \/ Jump \/ FallThrough \/ PassArg
    BY <1>1, <1>2, <2>1, SkipKept, MoveKept, OperateKept, JumpKept, FallThroughKept, PassArgKept
       DEF RunInv, Kept!Next, KeptStill
  <2>2. CASE Invoke \/ TakeParam \/ GiveBack \/ Resume \/ Input \/ Output
    BY <1>1, <1>2, <2>2, InvokeKept, TakeParamKept, GiveBackKept, ResumeKept, InputKept, OutputKept
       DEF RunInv, Kept!Next
  <2> QED  BY <1>4, <2>1, <2>2 DEF Next
<1> QED
  BY <1>3, <1>4 DEF KrNext, Simplifies, Executes, krVars

(* simplify runs here as it does on its own.                               *)
LEMMA SimplifyRuns == KrSpec => SimpSafety
<1>1. KrInit => SimpInit
  BY DEF KrInit
<1>2. [KrNext]_krVars => [SimpNext]_simpVars
  BY DEF KrNext, Simplifies, Executes, krVars, simpVars
<1> QED
  BY <1>1, <1>2, PTL DEF KrSpec, SimpSafety

(* The code stays what it is, the run keeps its types, and control returns *)
(* only to calls.                                                          *)
THEOREM RunInvariant == KrSpec => []RunInv
<1>1. KrInit => RunInv
  BY RunStarts
<1>2. RunInv /\ SimpTypeOK /\ [KrNext]_krVars => RunInv'
  BY RunSteps
<1> QED
  BY <1>1, <1>2, SimplifyRuns, SimpTypeCorrect, PTL DEF KrSpec

(* Dead code elimination keeps the meaning of every program whose graph    *)
(* covers its lines: each step of the whole program is the same step of the*)
(* kept one, or the store of a useless name, which the kept one does not   *)
(* notice.                                                                 *)
THEOREM SimplifyKeepsMeaning == KrSpec => SimplifiedMeans
<1>1. KrInit => Kept!Init
  BY RunStarts
<1>2. RunInv /\ SimpTypeOK /\ [KrNext]_krVars => [Kept!Next]_(Kept!vars)
  BY RunSteps
<1> QED
  BY <1>1, <1>2, SimplifyRuns, SimpTypeCorrect, RunInvariant, PTL
     DEF KrSpec, SimplifiedMeans, Kept!Spec

-------------------------------------------------------------------------------
(* The kept program is what simplify returns.                              *)
LEMMA CountUp ==
  ASSUME NEW S, NEW n \in Nat, NEW p \in [1 .. n -> S],
         \A s \in S : \E k \in 1 .. n : p[k] = s,
         \A k, l \in 1 .. n : p[k] = p[l] => k = l
  PROVE  Cardinality(S) = n
<1>1. IsFiniteSet(1 .. n) /\ Cardinality(1 .. n) = n
  BY FS_Interval
<1>2. p \in Surjection(1 .. n, S) /\ p \in Injection(1 .. n, S)
  BY DEF Surjection, Injection, IsInjective
<1> QED  BY <1>1, <1>2, FS_Surjection

(* Places in order that are all the kept ones are numbered in that order.  *)
LEMMA KeptInOrder ==
  ASSUME CodeKnown, NEW m \in Nat, NEW pos \in [1 .. m -> kept],
         \A i \in kept : \E k \in 1 .. m : pos[k] = i,
         \A k, l \in 1 .. m : k < l => pos[k] < pos[l]
  PROVE  m = Cardinality(kept) /\ \A k \in 1 .. m : KeptAt(pos[k]) = k
<1>1. kept \subseteq Nat /\ \A k \in 1 .. m : pos[k] \in kept /\ pos[k] \in Nat
  BY KeptFinite
<1>2. \A k, l \in 1 .. m : pos[k] = pos[l] => k = l
  <2> SUFFICES ASSUME NEW k \in 1 .. m, NEW l \in 1 .. m, pos[k] = pos[l] PROVE k = l
    OBVIOUS
  <2>1. ~(k < l) /\ ~(l < k)
    BY <1>1
  <2> QED  BY <2>1
<1>3. Cardinality(kept) = m
  BY <1>2, CountUp
<1>4. ASSUME NEW k \in 1 .. m PROVE KeptAt(pos[k]) = k
  <2> DEFINE p == [j \in 1 .. k - 1 |-> pos[j]]
  <2>1. p \in [1 .. k - 1 -> Below(pos[k])]
    <3>1. ASSUME NEW j \in 1 .. k - 1 PROVE pos[j] \in Below(pos[k])
      BY <1>1 DEF Below
    <3> QED  BY <3>1
  <2>2. ASSUME NEW i \in Below(pos[k]) PROVE \E j \in 1 .. k - 1 : p[j] = i
    <3>1. i \in kept /\ i < pos[k] /\ i \in Nat
      BY <1>1 DEF Below
    <3>2. PICK j \in 1 .. m : pos[j] = i
      BY <3>1
    <3>3. ~(k < j) /\ j # k
      BY <1>1, <3>1, <3>2
    <3> QED  BY <3>2, <3>3
  <2>3. \A j, l \in 1 .. k - 1 : p[j] = p[l] => j = l
    BY <1>2
  <2>4. Cardinality(Below(pos[k])) = k - 1
    <3> HIDE DEF p
    <3> QED  BY <2>1, <2>2, <2>3, CountUp
  <2> QED  BY <2>4, BelowFinite
<1> QED  BY <1>3, <1>4

(* So the lines that simplify returns are those of the kept program.       *)
LEMMA ResultKept ==
  ASSUME RunInv, SimpTypeOK, MarksExact, FilterInv
  PROVE  ResultIsKept
<1> SUFFICES ASSUME simplifying = "done"
             PROVE  resultLines = [k \in DOMAIN KeptProg |-> Printed(KeptProg[k])]
  BY DEF ResultIsKept
<1>1. CodeKnown /\ DOMAIN made.code = DOMAIN prog /\ \A i \in DOMAIN prog : made.code[i] = Printed(prog[i])
  BY DEF RunInv, CodeKnown, Simplifiable
<1>2. uselessNode = useless
  BY <1>1, MarksAreNeeded DEF uselessNode, CodeKnown
<1>3. \A i \in DOMAIN prog : i < in_i
  BY <1>1, KeptFinite DEF FilterInv, SimpTypeOK
<1>4. KeptSoFar = kept
  BY <1>1, <1>2, <1>3 DEF KeptSoFar, contains, CodeKnown
<1>5. PICK pos : InOrder(pos)
  BY DEF FilterInv, KeepsInOrder, InOrder
<1> DEFINE m == Len(resultLines)
<1>6. m \in Nat /\ DOMAIN resultLines = 1 .. m
  BY DEF SimpTypeOK
<1>7. /\ pos \in [1 .. m -> kept]
      /\ \A i \in kept : \E k \in 1 .. m : pos[k] = i
      /\ \A k, l \in 1 .. m : k < l => pos[k] < pos[l]
      /\ \A k \in 1 .. m : resultLines[k] = made.code[pos[k]]
  BY <1>4, <1>5, <1>6 DEF InOrder, Range
<1> HIDE DEF m
<1>8. m = Cardinality(kept) /\ \A k \in 1 .. m : KeptAt(pos[k]) = k
  BY <1>1, <1>6, <1>7, KeptInOrder
<1>9. DOMAIN KeptProg = 1 .. m
  BY <1>1, <1>8, KeptProgAt
<1>10. \A k \in 1 .. m : resultLines[k] = Printed(KeptProg[k])
  <2> TAKE k \in 1 .. m
  <2>1. pos[k] \in kept /\ pos[k] \in DOMAIN prog
    BY <1>1, <1>7, KeptFinite
  <2>2. KeptProg[k] = prog[pos[k]]
    BY <1>1, <1>8, <2>1, KeptProgAt
  <2> QED  BY <1>1, <1>7, <2>1, <2>2
<1>11. resultLines = [k \in 1 .. m |-> resultLines[k]]
  BY <1>6 DEF SimpTypeOK
<1> QED
  BY <1>9, <1>10, <1>11

(* What simplify returns is that program, for every program and graph.     *)
THEOREM ResultAlwaysKept == KrSpec => []ResultIsKept
<1>1. RunInv /\ SimpTypeOK /\ MarksExact /\ FilterInv => ResultIsKept
  BY ResultKept
<1> QED
  BY <1>1, RunInvariant, SimplifyRuns, SimpTypeCorrect, AlwaysMarksExact, FilterInvariant, PTL
===============================================================================
