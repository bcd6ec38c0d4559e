------------------------------- MODULE DepGraph -------------------------------
(***************************************************************************)
(* What the intermediate code generator hands to its simplify: lines and   *)
(* DNode pointers.                                                         *)
(***************************************************************************)
EXTENDS TacLine

(* A DNode pointer: to the node of a name in dmap, to a node of its own    *)
(* made for a line (write, return, if, arg, param), or null.               *)
Node(kind, name, adj) == [kind |-> kind, name |-> name, adj |-> adj]
Named(v) == Node("named", v, << >>)
Own(adj) == Node("own", NoVar, adj)
Null     == Node("null", NoVar, << >>)

NodePointers(D) ==
  {n \in [kind : {"named", "own", "null"}, name : D \cup {NoVar}, adj : Seq(D)] :
     (n.kind = "named" <=> n.name \in D) /\ (n.kind # "own" => n.adj = << >>)}

Tokens == [lead : STRING, name : STRING, num : Int]

===============================================================================
