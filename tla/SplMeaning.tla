------------------------------ MODULE SplMeaning ------------------------------
(***************************************************************************)
(* What an SPL program means, independently of the compiler: expressions   *)
(* are evaluated from left to right, && and || stop early, relations give  *)
(* 0 or 1, a call has variables of its own beside the global ones, read    *)
(* takes the next integer of the input and write prints one.  The state s  *)
(* has the variables (env), what is left of the input (in), what has been  *)
(* written (out), the last value (val) and how it stands (status):         *)
(*   ok, returned, starved (the input has run out), undefined (a value     *)
(*   never given is used, a division by zero).                             *)
(* The operators are recursive: TLC evaluates them, nothing is proved.     *)
(***************************************************************************)
EXTENDS SplTree, Functions, TLC

LOCAL Abs(m) == IF m < 0 THEN -m ELSE m
Computed(op, m, n) ==
  CASE op = "PLUS"  -> m + n
    [] op = "MINUS" -> m - n
    [] op = "MUL"   -> m * n
    [] op = "DIV"   -> IF (m < 0) = (n < 0) THEN Abs(m) \div Abs(n) ELSE -(Abs(m) \div Abs(n))
    [] op = "LT" -> IF m < n  THEN 1 ELSE 0
    [] op = "LE" -> IF m <= n THEN 1 ELSE 0
    [] op = "GT" -> IF m > n  THEN 1 ELSE 0
    [] op = "GE" -> IF m >= n THEN 1 ELSE 0
    [] op = "NE" -> IF m # n  THEN 1 ELSE 0
    [] op = "EQ" -> IF m = n  THEN 1 ELSE 0

Gives(s, v) == [s EXCEPT !.val = v]
Stops(s, why) == [s EXCEPT !.status = why]
Going(s) == s.status = "ok"

FunOf(P, f) == CHOOSE d \in Range(P) : d.k = "FUN" /\ d.id = f
Globals(P) == {v.id : v \in UNION {Range(Tail(d.sub)) : d \in {e \in Range(P) : e.k = "EXTVARS"}}}

RECURSIVE Eval(_, _, _), EvalArgs(_, _, _, _), Exec(_, _, _), ExecAll(_, _, _)

EvalArgs(P, args, s, vals) ==
  IF args = << >> THEN [s |-> s, vals |-> vals]
  ELSE LET t == Eval(P, Head(args), s)
       IN EvalArgs(P, Tail(args), t, Append(vals, t.val))

Invoked(P, f, s, vals) ==
  LET d == FunOf(P, f)
      shared == Restrict(s.env, DOMAIN s.env \cap Globals(P))
      own == [x \in {Params(d)[i].sub[2].id : i \in DOMAIN Params(d)} |->
                vals[CHOOSE i \in DOMAIN Params(d) : Params(d)[i].sub[2].id = x]]
      t == Exec(P, Body(d), [s EXCEPT !.env = own @@ shared])
  IN [t EXCEPT !.env = Restrict(t.env, DOMAIN t.env \cap Globals(P)) @@ s.env,
               !.status = IF @ = "returned" THEN "ok" ELSE IF @ = "ok" THEN "undefined" ELSE @]

Eval(P, e, s) ==
  IF ~Going(s) THEN s
  ELSE CASE e.k = "INT" -> Gives(s, e.n)
         [] e.k = "ID"  -> IF e.id \in DOMAIN s.env THEN Gives(s, s.env[e.id])
                           ELSE Stops(s, "undefined")
         [] e.k = "PAREN" -> Eval(P, e.sub[1], s)
         [] e.k = "NEG" -> LET t == Eval(P, e.sub[1], s) IN Gives(t, -t.val)
         [] e.k = "NOT" -> LET t == Eval(P, e.sub[1], s) IN Gives(t, IF t.val = 0 THEN 1 ELSE 0)
         [] e.k = "ASSIGN" -> LET t == Eval(P, e.sub[2], s)
                              IN IF Going(t) THEN [t EXCEPT !.env = (e.sub[1].id :> t.val) @@ @] ELSE t
         [] e.k \in {"AND", "OR"} ->
              LET t == Eval(P, e.sub[1], s)
                  u == Eval(P, e.sub[2], t)
              IN IF ~Going(t) THEN t
                 ELSE IF (t.val = 0) = (e.k = "AND") THEN Gives(t, IF e.k = "AND" THEN 0 ELSE 1)
                 ELSE Gives(u, IF u.val = 0 THEN 0 ELSE 1)
         [] e.k \in Relations \cup Arithmetic ->
              LET t == Eval(P, e.sub[1], s)
                  u == Eval(P, e.sub[2], t)
              IN IF ~Going(u) THEN u
                 ELSE IF e.k = "DIV" /\ u.val = 0 THEN Stops(u, "undefined")
                 ELSE Gives(u, Computed(e.k, t.val, u.val))
         [] e.k = "CALL" /\ e.id = "read" ->
              IF s.in = << >> THEN Stops(s, "starved")
              ELSE [s EXCEPT !.val = Head(s.in), !.in = Tail(@)]
         [] e.k = "CALL" /\ e.id = "write" ->
              LET t == Eval(P, e.sub[1], s)
              IN IF Going(t) THEN [t EXCEPT !.out = Append(@, t.val)] ELSE t
         [] OTHER ->
              LET r == EvalArgs(P, e.sub, s, << >>)
              IN IF Going(r.s) THEN Invoked(P, e.id, r.s, r.vals) ELSE r.s

Exec(P, st, s) ==
  IF ~Going(s) THEN s
  ELSE CASE st.k = "EXPS" -> Eval(P, st.sub[1], s)
         [] st.k = "BLOCK" -> ExecAll(P, st.sub, s)
         [] st.k = "DEF" -> ExecAll(P, Tail(st.sub), s)
         [] st.k = "DEC" -> IF Len(st.sub) = 1 THEN s
                            ELSE Eval(P, BIN("ASSIGN", ID(st.sub[1].id), st.sub[2]), s)
         [] st.k = "RETURN" -> LET t == Eval(P, st.sub[1], s)
                               IN IF Going(t) THEN Stops(t, "returned") ELSE t
         [] st.k \in {"IF", "IFELSE"} ->
              LET t == Eval(P, st.sub[1], s)
              IN IF ~Going(t) THEN t
                 ELSE IF t.val # 0 THEN Exec(P, st.sub[2], t)
                 ELSE IF st.k = "IFELSE" THEN Exec(P, st.sub[3], t) ELSE t
         [] st.k = "WHILE" ->
              LET t == Eval(P, st.sub[1], s)
              IN IF Going(t) /\ t.val # 0 THEN Exec(P, st, Exec(P, st.sub[2], t)) ELSE t

ExecAll(P, sts, s) == IF sts = << >> THEN s ELSE ExecAll(P, Tail(sts), Exec(P, Head(sts), s))

(* Program P on input in.                                                  *)
Meaning(P, in) ==
  Invoked(P, "main",
          [env |-> << >>, in |-> in, out |-> << >>, val |-> 0, status |-> "ok"], << >>)

===============================================================================
