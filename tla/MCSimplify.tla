------------------------------ MODULE MCSimplify ------------------------------
(***************************************************************************)
(* simplify on all dependency graphs of three names, with cycles and self  *)
(* loops, each with the code such a graph comes from, and some outputs of  *)
(* the translator whose graph does not cover the code.                     *)
(***************************************************************************)
EXTENDS Simplify

MCVars == {"v0", "t0", "t1"}
MCFuncs == {"main", "f"}
MCLeftovers == {0}

Adjacencies == {<< >>, <<"v0">>, <<"t0">>, <<"t1">>, <<"t0", "t1">>, <<"v0", "t0">>}

Store(D, d) ==
  LET a == D[d]
  IN <<Word(d), Word(":=")>> \o
     CASE Len(a) = 0 -> <<Tok("#", "", 1)>>
       [] Len(a) = 1 -> <<Word(a[1])>>
       [] Len(a) = 2 -> <<Word(a[1]), Word("-"), Word(a[2])>>

(* Where the translator marks roots: a written name, a call's place.       *)
Roots == {<< >>, <<Own(<<"t1">>)>>, <<Own(<<"v0", "t0">>), Named("t0")>>,
          <<Named("v0"), Own(<<"v0">>)>>}
UseOf(n) == IF n.kind = "named" THEN <<Word(n.name), Word(":="), Word("CALL"), Word("f")>>
            ELSE <<Word("IF"), Word(n.adj[1]), Word("<"), Word(n.adj[Len(n.adj)]),
                   Word("GOTO"), Tok("label", "", 0)>>

CodeOf(D, roots) ==
  <<Store(D, "v0"), <<Word("READ"), Word("v0")>>, Store(D, "t0"), Store(D, "t1")>>
  \o [i \in DOMAIN roots |-> UseOf(roots[i])]

Covering == {[code |-> CodeOf(D, r), dmap |-> D, graphRoots |-> r] :
               D \in [MCVars -> Adjacencies], r \in Roots}

NoEdges == [v \in MCVars |-> << >>]
NotCovering ==
  {[code |-> CodeOf([NoEdges EXCEPT !["t0"] = <<"v0">>], <<Own(<<"t0">>)>>),
    dmap |-> NoEdges, graphRoots |-> <<Own(<<"t0">>)>>],
   [code |-> << >>, dmap |-> NoEdges, graphRoots |-> <<Named("v0"), Null, Named("t0")>>]}

MCOutputs == Covering \cup NotCovering
===============================================================================
