------------------------------- MODULE Simplify -------------------------------
(***************************************************************************)
(* Dead code elimination: Generator::simplify of CodeGenerator.hpp.  While *)
(* it prints IR lines the translator builds a graph of names: dmap has one *)
(* DNode for every variable and temporary, with the names its value is     *)
(* computed from, and graphRoots the nodes that matter whatever happens.   *)
(* simplify walks the graph from the roots and then drops every line that  *)
(* has a word which is the name of a node not visited.                     *)
(***************************************************************************)
EXTENDS DepGraph, Functions

CONSTANT Outputs \* what the translator may leave: code, dmap and graphRoots

ASSUME OutputsAssumption ==
  \A m \in Outputs :
     /\ DOMAIN m.dmap \subseteq Vars
     /\ m.dmap \in [DOMAIN m.dmap -> Seq(DOMAIN m.dmap)]
     /\ m.graphRoots \in Seq(NodePointers(DOMAIN m.dmap))
     /\ m.code \in Seq(Seq(Tokens))

VARIABLES made,        \* the translator's output; nothing here changes it
          graphRoots,  \* the queue of nodes to visit
          curr,        \* the node being visited, Null between two
          sub,         \* the position in its adj
          visited,     \* the names whose node is visited
          in_i,        \* the line the filter has got to
          resultLines, \* the lines kept so far
          simplifying  \* marking, filtering, done, or crashed

simpVars == <<made, graphRoots, curr, sub, visited, in_i, resultLines, simplifying>>

Names == DOMAIN made.dmap
AdjBackwards(n) ==
  LET from == {v \in Names : n.name \in Range(made.dmap[v])}
  IN IF from = {} THEN n.adj ELSE <<CHOOSE v \in from : TRUE>>
AdjOfNamed(n) == IF n.kind = "named" THEN made.dmap[n.name] ELSE << >>
Adj(n) == IF n.kind = "named" THEN made.dmap[n.name] ELSE n.adj

SimpInit ==
  /\ made \in Outputs
  /\ graphRoots = made.graphRoots
  /\ curr = Null /\ sub = 1
  /\ visited = {}
  /\ in_i = 1
  /\ resultLines = << >>
  /\ simplifying = "marking"

-------------------------------------------------------------------------------
(* The walk.                                                               *)
BetweenNodes == simplifying = "marking" /\ curr = Null
Seen(n) == n.kind = "named" /\ n.name \in visited

SkipVisited ==
  /\ BetweenNodes /\ graphRoots # << >> /\ Seen(Head(graphRoots))
  /\ graphRoots' = Tail(graphRoots)
  /\ UNCHANGED <<made, curr, sub, visited, in_i, resultLines, simplifying>>

Marked(n) == visited \cup (IF n.kind = "named" THEN {n.name} ELSE {})
TakeNode ==
  /\ BetweenNodes /\ graphRoots # << >>
  /\ ~Seen(Head(graphRoots)) /\ Head(graphRoots) # Null
  /\ graphRoots' = Tail(graphRoots)
  /\ curr' = Head(graphRoots) /\ sub' = 1
  /\ visited' = Marked(curr')
  /\ UNCHANGED <<made, in_i, resultLines, simplifying>>

FollowNull ==     \* the node of an empty place
  /\ BetweenNodes /\ graphRoots # << >> /\ Head(graphRoots) = Null
  /\ simplifying' = "crashed"
  /\ UNCHANGED <<made, graphRoots, curr, sub, visited, in_i, resultLines>>

PushSubnode ==
  /\ curr # Null /\ sub \in DOMAIN Adj(curr)
  /\ graphRoots' = IF Adj(curr)[sub] \in visited THEN graphRoots
                   ELSE Append(graphRoots, Named(Adj(curr)[sub]))
  /\ sub' = sub + 1
  /\ UNCHANGED <<made, curr, visited, in_i, resultLines, simplifying>>

LeaveNode ==
  /\ curr # Null /\ sub \notin DOMAIN Adj(curr)
  /\ curr' = Null
  /\ UNCHANGED <<made, graphRoots, sub, visited, in_i, resultLines, simplifying>>

EndWalkEarly ==
  /\ BetweenNodes
  /\ simplifying' = "filtering"
  /\ UNCHANGED <<made, graphRoots, curr, sub, visited, in_i, resultLines>>
EndWalk ==
  /\ BetweenNodes /\ graphRoots = << >>
  /\ simplifying' = "filtering"
  /\ UNCHANGED <<made, graphRoots, curr, sub, visited, in_i, resultLines>>

-------------------------------------------------------------------------------
(* The filter.                                                             *)
LineNamesOnRight(ln) == {ln[i].name : i \in {j \in DOMAIN ln : j > 1 /\ ln[j].lead = ""}} \cap Names
LineNames(ln) == {ln[i].name : i \in {j \in DOMAIN ln : ln[j].lead = ""}} \cap Names
uselessNode == Names \ visited
contains(ln) == LineNames(ln) \cap uselessNode # {}

FilterBackwards ==
  /\ simplifying = "filtering" /\ in_i \in DOMAIN made.code
  /\ resultLines' = IF contains(made.code[in_i]) THEN resultLines
                    ELSE <<made.code[in_i]>> \o resultLines
  /\ in_i' = in_i + 1
  /\ UNCHANGED <<made, graphRoots, curr, sub, visited, simplifying>>
FilterLine ==
  /\ simplifying = "filtering" /\ in_i \in DOMAIN made.code
  /\ resultLines' = IF contains(made.code[in_i]) THEN resultLines
                    ELSE Append(resultLines, made.code[in_i])
  /\ in_i' = in_i + 1
  /\ UNCHANGED <<made, graphRoots, curr, sub, visited, simplifying>>

EndFilterBefore ==
  /\ simplifying = "filtering" /\ in_i = Len(made.code)
  /\ simplifying' = "done"
  /\ UNCHANGED <<made, graphRoots, curr, sub, visited, in_i, resultLines>>
EndFilter ==
  /\ simplifying = "filtering" /\ in_i \notin DOMAIN made.code
  /\ simplifying' = "done"
  /\ UNCHANGED <<made, graphRoots, curr, sub, visited, in_i, resultLines>>

SimpNext == \/ SkipVisited \/ TakeNode \/ FollowNull \/ PushSubnode \/ LeaveNode
            \/ EndWalk \/ FilterLine \/ EndFilter

SimpSafety == SimpInit /\ [][SimpNext]_simpVars
SimpSpec == SimpSafety /\ WF_simpVars(SimpNext)

-------------------------------------------------------------------------------
(* The state has its types.                                                *)
SimpTypeOK ==
  /\ made \in Outputs
  /\ graphRoots \in Seq(NodePointers(Names))
  /\ curr \in NodePointers(Names) /\ sub \in Nat \ {0}
  /\ visited \subseteq Names
  /\ in_i \in Nat \ {0}
  /\ resultLines \in Seq(Seq(Tokens))
  /\ simplifying \in {"marking", "filtering", "done", "crashed"}

(* What the marks have to be: a set of names that holds those of the roots *)
(* and, with a name, all that its value is computed from.                  *)
NamesOf(nodes) == UNION {IF n.kind = "named" THEN {n.name} ELSE Range(n.adj) : n \in nodes}
RootNames == NamesOf(Range(made.graphRoots))
ClosedUnder(S) == /\ RootNames \subseteq S
                  /\ \A v \in S \cap Names : Range(made.dmap[v]) \subseteq S

(* When the walk is over, the names visited are closed: nothing a useful   *)
(* name depends on is left out, whatever cycles the graph has and however  *)
(* often a node was pushed.                                                *)
MarksClosed == simplifying \in {"filtering", "done"} => ClosedUnder(visited)

(* And they are the fewest: at no time is a name marked that the roots do  *)
(* not need.                                                               *)
MarksReachable == \A S \in SUBSET Names : ClosedUnder(S) => visited \subseteq S

(* So the names marked are exactly those the roots need: too few would drop*)
(* a line that matters, too many would keep a dead one.                    *)
MarksExact == MarksClosed /\ MarksReachable

(* The line does nothing but give d a value.                               *)
StoresOnly(ln, d) ==
  \/ ln = <<Word("READ"), Word(d)>>
  \/ Len(ln) \in {3, 5} /\ ln[1] = Word(d) /\ ln[2] = Word(":=")

(* The graph covers the code: a line's names all matter, or the line stores*)
(* one name and the others are among those it has edges to.                *)
LineCovered(ln) ==
  \/ LineNames(ln) \subseteq RootNames
  \/ \E d \in Names : /\ StoresOnly(ln, d)
                      /\ LineNames(ln) \ {d} \subseteq Range(made.dmap[d])
Covered == \A i \in DOMAIN made.code : LineCovered(made.code[i])

(* Of a code its graph covers, simplify drops nothing but stores of names  *)
(* that occur in no line it keeps: no jump, call, write or label is lost   *)
(* and no kept line reads a name one of whose stores was dropped.          *)
DropsOnlyDeadStores ==
  simplifying = "done" /\ Covered =>
     \A i \in DOMAIN made.code :
        made.code[i] \notin Range(resultLines) =>
           \E d \in Names : /\ StoresOnly(made.code[i], d)
                           /\ \A ln \in Range(resultLines) : d \notin LineNames(ln)

KeptSoFar == {i \in DOMAIN made.code : i < in_i /\ ~contains(made.code[i])}

(* The lines kept are those that contain no useless name, each as often as *)
(* it stands in the code, and in the order of the code.                    *)
KeepsInOrder ==
  simplifying \in {"filtering", "done"} =>
     \E pos \in [DOMAIN resultLines -> KeptSoFar] :
        /\ Range(pos) = KeptSoFar
        /\ \A i, j \in DOMAIN resultLines : i < j => pos[i] < pos[j]
        /\ \A i \in DOMAIN resultLines : resultLines[i] = made.code[pos[i]]

(* The walk comes to an end, cycles or not, and so does the filter.        *)
SimplifyEnds == <>(simplifying \in {"done", "crashed"})

Pending == NamesOf(Range(graphRoots)) \cup {Adj(curr)[i] : i \in sub .. Len(Adj(curr))}

(* Why the marks come out closed: what a marked name or a root needs is    *)
(* marked or still on its way, in the queue or at curr from sub on.        *)
MarkInv ==
  /\ simplifying # "marking" => curr = Null
  /\ RootNames \subseteq visited \cup Pending
  /\ \A v \in visited : Range(made.dmap[v]) \subseteq visited \cup Pending
  /\ simplifying \in {"filtering", "done"} => graphRoots = << >>
=============================================================================
