------------------------------ MODULE EvalAttrs ------------------------------
(***************************************************************************)
(* Attribute-set literals and `let` (lix/libexpr/eval.cc): ExprAttrs::eval *)
(* for plain and `rec` sets with `__overrides` and dynamic attributes,     *)
(* ExprLet::eval, and the maybeThunk / lookupVar(noEval) shortcut both     *)
(* rely on.  An attribute is bound to a small expression: a constant       *)
(* (a heap cell), a variable bound by the same `rec`/`let`, an `if` and a  *)
(* set literal of constants.  Thunks allocated while the literal is built  *)
(* live in a store s: id -> thunk, black hole or value, so that what is    *)
(* forced during construction stays forced.                                *)
(***************************************************************************)
EXTENDS EvalValues

\* Expressions.
K(c)           == [k |-> "const", c |-> c]
Var(n)         == [k |-> "var", n |-> n]
IfE(c, y, n)   == [k |-> "if", c |-> c, yes |-> y, no |-> n]
SetE(m)        == [k |-> "set", m |-> m]          \* name -> cell

\* A reference to a thunk of the store.
T(id) == [th |-> id]

\* A result with the store it leaves.
Ret(v, s) == IF IsErr(v) THEN [err |-> v.err, s |-> s] ELSE [v |-> v, s |-> s]

\* ExprX::eval of e in env2 (ExprVar::eval: lookupVar, then forceValue;
\* ExprIf::eval: evalBool on the condition; a set literal of constants).
\* forceValue black-holes a thunk while it runs and overwrites it with its
\* value.
RECURSIVE EvalE(_, _, _), ForceRef(_, _, _)
EvalE(e, env2, s) ==
  CASE e.k = "const" -> Ret(Force(C(e.c)), s)
    [] e.k = "var"   -> ForceRef(env2[e.n], env2, s)
    [] e.k = "set"   -> Ret(AttrsV([n \in DOMAIN e.m |-> C(e.m[n])]), s)
    [] e.k = "if"    ->
         LET c == EvalE(e.c, env2, s)
         IN  IF IsErr(c) THEN c
             ELSE IF c.v.t # "bool" THEN [err |-> "TypeError", s |-> c.s]
             ELSE EvalE(IF c.v.b THEN e.yes ELSE e.no, env2, c.s)

ForceRef(r, env2, s) ==
  IF "th" \notin DOMAIN r THEN Ret(Force(r), s)
  ELSE CASE s[r.th].st = "val" -> Ret(s[r.th].v, s)
         [] s[r.th].st = "bh"  -> [err |-> "InfiniteRecursion", s |-> s]
         [] OTHER ->
              LET x == EvalE(s[r.th].e, env2, [s EXCEPT ![r.th] = [st |-> "bh"]])
              IN  IF IsErr(x) THEN x
                  ELSE [v |-> x.v, s |-> [x.s EXCEPT ![r.th] = [st |-> "val", v |-> x.v]]]

\* Expr::maybeThunk: a fresh thunk of e in its environment.
mkThunk(e, id, s) == [ref |-> T(id), s |-> s @@ (id :> [st |-> "thunk", e |-> e])]

\* maybeThunk: a literal is its own value; a variable whose slot is
\* already filled (lookupVar with noEval) is that slot's value; anything
\* else is a fresh thunk.
maybeThunk(e, env2, id, s) ==
  CASE e.k = "const"                     -> [ref |-> C(e.c), s |-> s]
    [] e.k = "var" /\ e.n \in DOMAIN env2 -> [ref |-> env2[e.n], s |-> s]
    [] OTHER                              -> mkThunk(e, id, s)

\* The loop filling env2 in symbol order.  When the set has __overrides
\* every attribute gets a fresh thunk, so that a later override reaches
\* every reference to it.
RecLoopAlwaysMaybeThunk(bs, hasOverrides) ==
  FoldLeft(LAMBDA st, n :
             LET m == maybeThunk(bs[n], st.env2, n, st.s)
             IN  [env2 |-> st.env2 @@ (n :> m.ref), s |-> m.s],
           [env2 |-> <<>>, s |-> <<>>], Order(bs))

RecLoop(bs, hasOverrides) ==
  FoldLeft(LAMBDA st, n :
             LET m == IF hasOverrides THEN mkThunk(bs[n], n, st.s)
                      ELSE maybeThunk(bs[n], st.env2, n, st.s)
             IN  [env2 |-> st.env2 @@ (n :> m.ref), s |-> m.s],
           [env2 |-> <<>>, s |-> <<>>], Order(bs))

\* Force __overrides (in env2 as built) to a set; each of its attributes
\* replaces the binding and the env2 slot of a static attribute of that
\* name, or is added to the set.
ApplyOverrides(st) ==
  LET f == ForceRef(st.env2["__overrides"], st.env2, st.s)
  IN  IF IsErr(f) THEN Err(f.err)
      ELSE IF f.v.t # "attrs" THEN Err("TypeError")
      ELSE LET o == f.v.attrs
           IN  [attrs |-> [n \in DOMAIN st.env2 \cup DOMAIN o |->
                             IF n \in DOMAIN o THEN o[n] ELSE st.env2[n]],
                env2  |-> [n \in DOMAIN st.env2 |->
                             IF n \in DOMAIN o THEN o[n] ELSE st.env2[n]],
                s     |-> f.s]

\* The static part: env2 is the dynamic environment (empty for a plain
\* set, whose attributes are constants or closed set literals).
Built(x) ==
  IF x.kind = "rec"
    THEN LET hasOverrides == "__overrides" \in DOMAIN x.attrs
             st == RecLoop(x.attrs, hasOverrides)
         IN  IF hasOverrides THEN ApplyOverrides(st)
             ELSE [attrs |-> st.env2, env2 |-> st.env2, s |-> st.s]
    ELSE LET st == RecLoop(x.attrs, FALSE)
         IN  [attrs |-> st.env2, env2 |-> <<>>, s |-> st.s]

\* One dynamic attribute: its name is evaluated in the dynamic
\* environment; null skips it; it must be a string without context and a
\* name the set does not have yet; its value is maybeThunk'd there.
DynStep(st, d) ==
  IF IsErr(st) THEN st
  ELSE LET nm == EvalE(d.name, st.env2, st.s)
       IN  IF IsErr(nm) THEN Err(nm.err)
           ELSE IF nm.v.t = "null" THEN [st EXCEPT !.s = nm.s]
           ELSE IF nm.v.t # "string" THEN Err("TypeError")
           ELSE IF nm.v.ctx # {} THEN Err("StringHasContext")
           ELSE IF nm.v.s \in DOMAIN st.attrs THEN Err("AttributeAlreadyDefined")
           ELSE LET m == maybeThunk(d.val, st.env2, "dyn:" \o nm.v.s, nm.s)
                IN  [st EXCEPT !.attrs = @ @@ (nm.v.s :> m.ref), !.s = m.s]

\* ExprAttrs::eval: the set's bindings, its env2 and the thunk store.
ExprAttrsEval(x) ==
  LET b == Built(x)
  IN  IF IsErr(b) THEN b ELSE FoldLeft(DynStep, b, x.dyn)

\* ExprLet::eval: env2 by maybeThunk (`__overrides` means nothing in a
\* let), then the body in env2.
ExprLetEval(x) ==
  LET st == RecLoop(x.attrs, FALSE)
      r  == EvalE(x.body, st.env2, st.s)
  IN  IF IsErr(r) THEN Err(r.err) ELSE r.v

-----------------------------------------------------------------------------
(* Reference: the rules of section 4.6, with no store                      *)

\* A binding already evaluated.
Val(v) == [k |-> "val", v |-> v]

\* The value of e under bindings B, with the names V under evaluation;
\* t is the set of names whose bindings the evaluation needed.
RECURSIVE RefE(_, _, _)
RefE(e, B, V) ==
  CASE e.k = "const" -> [r |-> Force(C(e.c)), t |-> {}]
    [] e.k = "val"   -> [r |-> e.v, t |-> {}]
    [] e.k = "set"   -> [r |-> AttrsV([n \in DOMAIN e.m |-> C(e.m[n])]), t |-> {}]
    [] e.k = "var"   ->
         IF e.n \in V THEN [r |-> Err("InfiniteRecursion"), t |-> {e.n}]
         ELSE LET y == RefE(B[e.n], B, V \cup {e.n}) IN [r |-> y.r, t |-> y.t \cup {e.n}]
    [] e.k = "if"    ->
         LET c == RefE(e.c, B, V)
         IN  IF IsErr(c.r) THEN c
             ELSE IF c.r.t # "bool" THEN [r |-> Err("TypeError"), t |-> c.t]
             ELSE LET y == RefE(IF c.r.b THEN e.yes ELSE e.no, B, V)
                  IN  [r |-> y.r, t |-> c.t \cup y.t]

\* The bindings after __overrides: an override binds its name to its value;
\* an attribute that evaluating __overrides needed keeps the value it had
\* then (it is already forced); every other one keeps its expression.
RefStatic(x) ==
  IF x.kind # "rec" \/ "__overrides" \notin DOMAIN x.attrs THEN [B |-> x.attrs]
  ELSE LET ov     == RefE(x.attrs["__overrides"], x.attrs, {"__overrides"})
           forced == ov.t \cup {"__overrides"}
       IN  IF IsErr(ov.r) THEN ov.r
           ELSE IF ov.r.t # "attrs" THEN Err("TypeError")
           ELSE [B |-> [n \in DOMAIN x.attrs \cup DOMAIN ov.r.attrs |->
                          IF n \in DOMAIN ov.r.attrs THEN K(ov.r.attrs[n].cell)
                          ELSE IF n \in forced THEN Val(RefE(x.attrs[n], x.attrs, {n}).r)
                          ELSE x.attrs[n]]]

\* Then the dynamic attributes, in order, under those bindings.
RefAttrs(x) ==
  LET st == RefStatic(x)
  IN  IF IsErr(st) THEN st
      ELSE FoldLeft(LAMBDA acc, d :
             IF IsErr(acc) THEN acc
             ELSE LET nm == RefE(d.name, st.B, {}).r
                  IN  IF IsErr(nm) THEN nm
                      ELSE IF nm.t = "null" THEN acc
                      ELSE IF nm.t # "string" THEN Err("TypeError")
                      ELSE IF nm.ctx # {} THEN Err("StringHasContext")
                      ELSE IF nm.s \in DOMAIN st.B \cup DOMAIN acc.dyn
                        THEN Err("AttributeAlreadyDefined")
                      ELSE [acc EXCEPT !.dyn = @ @@ (nm.s :> d.val)],
           [B |-> st.B, dyn |-> <<>>], x.dyn)

\* The reference value of attribute n of a literal whose reference is r.
RefAttr(r, n) ==
  IF n \in DOMAIN r.dyn THEN RefE(r.dyn[n], r.B, {}).r ELSE RefE(r.B[n], r.B, {n}).r

====
