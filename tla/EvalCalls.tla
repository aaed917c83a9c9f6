------------------------------ MODULE EvalCalls ------------------------------
(***************************************************************************)
(* Function application and string coercion of the evaluator              *)
(* (lix/libexpr/eval.cc): EvalState::callFunction with matchupFormals,     *)
(* primop application chains and the __functor convention;                 *)
(* coerceToString with __toString, outPath and copyPathToStore; and the    *)
(* overloaded `+` (ExprConcatStrings).  The evaluator applies one operator  *)
(* after another to the cells of a fixed heap; the only state that         *)
(* carries over is srcToStore, the cache of source paths copied to the     *)
(* store.                                                                  *)
(*                                                                         *)
(* A lambda expression is Lambdas[id]: its argument name ("" if none), its *)
(* formals (names in symbol order, the defaults as references, ellipsis)   *)
(* and a body, which is a variable, a closed expression (a reference) or   *)
(* an inner lambda closing over the new environment.  Primops are given by *)
(* name and arity; their native functions are Native.                      *)
(***************************************************************************)
EXTENDS EvalAttrs, TLC

CONSTANTS Lambdas,       \* lambda expression id -> [arg, formals, body]
          StoreOf,       \* source path -> the store path fetchToStore makes
          MaxCallDepth,  \* evalSettings.maxCallDepth
          IntBits,       \* width of NixInt
          MaxAutoHops    \* bound on autoCallFunction's functor rounds

LambdaV(fun, env)        == [t |-> "lambda", fun |-> fun, env |-> env]
PrimOpV(name, arity)     == [t |-> "primop", name |-> name, arity |-> arity]
PrimOpAppV(left, right)  == [t |-> "primopapp", left |-> left, right |-> right]

ErrN(kind, name) == Err(kind \o " " \o name)

-----------------------------------------------------------------------------
(* Lambda application                                                      *)

\* The body, evaluated in env (the new frame over the captured one).
evalBody(body, env) ==
  CASE body.k = "var"    -> Force(env[body.x])
    [] body.k = "ref"    -> Force(body.r)
    [] body.k = "lambda" -> LambdaV(body.fun, env)

\* matchupFormals' loop over the formals: bind the matching argument, else
\* the default, else report the formal as missing.
RECURSIVE MatchLoop(_, _, _, _, _)
MatchLoop(fs, formals, attrs, env, used) ==
  IF fs = <<>> THEN [env |-> env, used |-> used]
  ELSE LET n == Head(fs)
       IN IF n \in DOMAIN attrs
            THEN MatchLoop(Tail(fs), formals, attrs, (n :> attrs[n]) @@ env, used + 1)
          ELSE IF n \in DOMAIN formals.defs
            THEN MatchLoop(Tail(fs), formals, attrs, (n :> formals.defs[n]) @@ env, used)
          ELSE [missing |-> n]

\* Without an ellipsis, an argument set with unused names is reported by
\* its first name (in Bindings order) that is not a formal.
matchupFormals(formals, attrs) ==
  LET m == MatchLoop(formals.names, formals, attrs, <<>>, 0)
  IN IF "missing" \in DOMAIN m THEN m
     ELSE IF ~formals.ellipsis /\ m.used # Cardinality(DOMAIN attrs)
       THEN [unexpected |-> Head(SelectSeq(Order(attrs),
                                           LAMBDA a : a \notin ToSet(formals.names)))]
     ELSE m

\* The lambda branch of callFunction's loop, for one argument.
callLambda(vCur, arg) ==
  LET l == Lambdas[vCur.fun]
  IN IF ~l.formals.has THEN evalBody(l.body, (l.arg :> arg) @@ vCur.env)
     ELSE LET a == Force(arg)
          IN IF IsErr(a) THEN a
             ELSE IF a.t # "attrs" THEN Err("TypeError")
             ELSE LET m    == matchupFormals(l.formals, a.attrs)
                      self == IF l.arg = "" THEN <<>> ELSE (l.arg :> arg)
                  IN IF "missing" \in DOMAIN m THEN ErrN("MissingArgument", m.missing)
                     ELSE IF "unexpected" \in DOMAIN m THEN ErrN("UnexpectedArgument", m.unexpected)
                     ELSE evalBody(l.body, (self @@ m.env) @@ vCur.env)

-----------------------------------------------------------------------------
(* Primop application chains                                               *)

\* makeAppChain: one PrimOpApp per argument, over a copy of the callee.
makeAppChain(vCur, args) == FoldLeft(LAMBDA acc, a : PrimOpAppV(acc, a), vCur, args)

\* Seeded fault: the accumulated arguments collected in reverse.
SpineReversed(v) ==
  LET RECURSIVE Walk(_)
      Walk(w) == IF w.t = "primopapp"
                   THEN LET s == Walk(w.left) IN [op |-> s.op, args |-> <<w.right>> \o s.args]
                   ELSE [op |-> w, args |-> <<>>]
  IN Walk(v)

\* The walk down the left spine: the primop and the arguments already
\* accumulated, first one first (vArgs[--n] = arg->primOpApp.right).
RECURSIVE Spine(_)
Spine(v) ==
  IF v.t = "primopapp"
    THEN LET s == Spine(v.left) IN [op |-> s.op, args |-> Append(s.args, v.right)]
    ELSE [op |-> v, args |-> <<>>]

-----------------------------------------------------------------------------
(* String coercion                                                         *)

\* copyContext: the string's context joins the one being collected.
copyContextNone(v, ctx) == ctx
copyContext(v, ctx) == ctx \cup v.ctx

EndsWithDrv(p) == Len(p) >= 4 /\ SubSeq(p, Len(p) - 3, Len(p)) = ".drv"

\* Seeded fault: the source path cached as its own store path.
copyPathToStoreSelf(p, acc) ==
  IF EndsWithDrv(p) THEN [err |-> "EvalError", cache |-> acc.cache]
  ELSE LET dst == IF p \in DOMAIN acc.cache THEN acc.cache[p] ELSE StoreOf[p]
       IN [s |-> dst, ctx |-> acc.ctx \cup {dst}, cache |-> (p :> p) @@ acc.cache]

\* copyPathToStore: a source path is copied once; later copies of it are
\* answered from srcToStore.  The store path joins the context.
copyPathToStore(p, acc) ==
  IF EndsWithDrv(p) THEN [err |-> "EvalError", cache |-> acc.cache]
  ELSE LET dst == IF p \in DOMAIN acc.cache THEN acc.cache[p] ELSE StoreOf[p]
       IN [s |-> dst, ctx |-> acc.ctx \cup {dst}, cache |-> (p :> dst) @@ acc.cache]

\* std::to_string of an integer and of a double.
IntText(n)   == ToString(n)
FloatText(n) == ToString(n) \o ".000000"

\* An error out of a nested call, with the cache reached so far.
Fail(e, cache) == [err |-> e.err, cache |-> cache]

\* What one pass of callFunction's loop does with the current callee:
\* bind one argument to a lambda, call a primop's native function once
\* its arity is reached (on the arguments of the chain, oldest first, and
\* the new ones), build or extend an application chain, call a functor's
\* __functor with the set and one argument, or fail; `used` is the
\* number of arguments it consumes.
Plan(vCur, args) ==
  CASE vCur.t = "lambda" -> [kind |-> "lambda", used |-> 1]
    [] vCur.t = "primop" ->
         IF Len(args) < vCur.arity THEN [kind |-> "done", res |-> makeAppChain(vCur, args)]
         ELSE [kind |-> "native", name |-> vCur.name, args |-> SubSeq(args, 1, vCur.arity),
               used |-> vCur.arity]
    [] vCur.t = "primopapp" ->
         LET sp       == Spine(vCur)
             argsLeft == sp.op.arity - Len(sp.args)
         IN IF Len(args) < argsLeft THEN [kind |-> "done", res |-> makeAppChain(vCur, args)]
            ELSE [kind |-> "native", name |-> sp.op.name,
                  args |-> sp.args \o SubSeq(args, 1, argsLeft), used |-> argsLeft]
    [] vCur.t = "attrs" /\ "__functor" \in DOMAIN vCur.attrs ->
         [kind |-> "functor", fun |-> vCur.attrs["__functor"], args |-> <<Box(vCur), args[1]>>,
          used |-> 1]
    [] OTHER -> [kind |-> "done", res |-> Err("TypeError")]

\* The functions of the call / coercion cycle:
\*   callFunction(fun, args, depth)    callDepth is `depth` on entry;
\*   CallLoop(vCur, args, depth)        its while (nrArgs > 0) loop;
\*   Native(name, args, depth)          the primops' native functions;
\*   coerceToString(r, acc, fl, depth)  acc = [ctx, cache], fl = [more,
\*                                      copy, canon]; gives [s, ctx, cache]
\*                                      or [err, cache];
\*   CoerceList(elems, n, acc, fl, depth) its loop over a list's elements.
RECURSIVE callFunction(_, _, _), CallLoop(_, _, _), CallStep(_, _, _, _), CallNext(_, _, _),
          Native(_, _, _), coerceToString(_, _, _, _), CoerceList(_, _, _, _, _)

callFunction(fun, args, depth) ==
  IF depth > MaxCallDepth THEN Err("StackOverflow")
  ELSE LET f == Force(fun)
       IN IF IsErr(f) THEN f ELSE CallLoop(f, args, depth + 1)

CallLoop(vCur, args, depth) ==
  IF args = <<>> THEN vCur ELSE CallStep(vCur, args, depth, Plan(vCur, args))

\* One pass of the loop carrying out plan p; the loop goes on with the
\* result and the arguments p did not use, unless it is an error.
CallStep(vCur, args, depth, p) ==
  IF p.kind = "done" THEN p.res
  ELSE CallNext(CASE p.kind = "lambda"  -> callLambda(vCur, args[1])
                  [] p.kind = "native"  -> Native(p.name, p.args, depth)
                  [] p.kind = "functor" -> callFunction(p.fun, p.args, depth),
                SubSeq(args, p.used + 1, Len(args)), depth)

CallNext(r, rest, depth) == IF IsErr(r) THEN r ELSE CallLoop(r, rest, depth)

\* The string value of a coercion's result.
StrResult(r) == IF IsErr(r) THEN Err(r.err) ELSE StrV(r.s, r.ctx)

\* throw forces its message and raises; toString coerces with coerceMore
\* and without copying; any other primop returns its arguments as a list.
Native(name, args, depth) ==
  CASE name = "throw" ->
         LET m == Force(args[1]) IN IF IsErr(m) THEN m ELSE Err("ThrownError")
    [] name = "toString" ->
         StrResult(coerceToString(args[1], [ctx |-> {}, cache |-> <<>>],
                                  [more |-> TRUE, copy |-> FALSE, canon |-> FALSE], depth))
    [] OTHER -> ListV(args)

coerceToString(r, acc, fl, depth) ==
  LET v == Force(r)
  IN IF IsErr(v) THEN Fail(v, acc.cache)
     ELSE CASE v.t = "string" -> [s |-> v.s, ctx |-> copyContext(v, acc.ctx), cache |-> acc.cache]
       [] v.t = "path" ->
            IF fl.copy THEN copyPathToStore(v.p, acc)
            ELSE [s |-> v.p, ctx |-> acc.ctx, cache |-> acc.cache]
       [] v.t = "attrs" /\ ("__toString" \in DOMAIN v.attrs \/ "outPath" \in DOMAIN v.attrs) ->
            \* tryAttrsToString calls __toString with the set and coerces the
            \* result (canonicalizePath defaulted); else outPath is coerced.
            LET ts == "__toString" \in DOMAIN v.attrs
                v1 == IF ts THEN callFunction(v.attrs["__toString"], <<r>>, depth) ELSE No
            IN IF IsErr(v1) THEN Fail(v1, acc.cache)
               ELSE coerceToString(IF ts THEN Box(v1) ELSE v.attrs["outPath"], acc,
                                   IF ts THEN [fl EXCEPT !.canon = TRUE] ELSE fl, depth)
       [] v.t = "attrs" -> Fail(Err("TypeError"), acc.cache)
       [] fl.more /\ v.t = "bool" -> [s |-> IF v.b THEN "1" ELSE "", ctx |-> acc.ctx, cache |-> acc.cache]
       [] fl.more /\ v.t = "int" -> [s |-> IntText(v.n), ctx |-> acc.ctx, cache |-> acc.cache]
       [] fl.more /\ v.t = "float" -> [s |-> FloatText(v.n), ctx |-> acc.ctx, cache |-> acc.cache]
       [] fl.more /\ v.t = "null" -> [s |-> "", ctx |-> acc.ctx, cache |-> acc.cache]
       [] fl.more /\ v.t = "list" -> CoerceList(v.elems, 1, [s |-> "", ctx |-> acc.ctx, cache |-> acc.cache], fl, depth)
       [] OTHER -> Fail(Err("TypeError"), acc.cache)

\* Elements are joined by a space, except after an element that is an
\* empty list ("!!! not quite correct").
CoerceList(elems, n, acc, fl, depth) ==
  IF n > Len(elems) THEN acc
  ELSE LET r == coerceToString(elems[n], acc, fl, depth)
           e == Force(elems[n])
           sep == n < Len(elems) /\ (e.t # "list" \/ e.elems # <<>>)
       IN IF IsErr(r) THEN r
          ELSE CoerceList(elems, n + 1,
                          [s |-> acc.s \o r.s \o (IF sep THEN " " ELSE ""),
                           ctx |-> r.ctx, cache |-> r.cache], fl, depth)

-----------------------------------------------------------------------------
(* autoCallFunction and the overloaded +                                   *)

\* Seeded fault: every automatic argument passed, ellipsis or not.
AutoArgsAll(l, args) == [ok |-> args]

\* The arguments autoCallFunction passes: all of them to a function with
\* an ellipsis, else those the formals name; a formal without a default
\* and without an argument is an error.
AutoArgs(l, args) ==
  IF l.formals.ellipsis THEN [ok |-> args]
  ELSE LET missing == SelectSeq(l.formals.names,
                        LAMBDA n : n \notin DOMAIN args /\ n \notin DOMAIN l.formals.defs)
       IN IF missing # <<>> THEN ErrN("MissingArgumentError", Head(missing))
          ELSE [ok |-> [n \in ToSet(l.formals.names) \cap DOMAIN args |-> args[n]]]

\* autoCallFunction: a functor is called with itself and the result is
\* auto-called in turn (`hops` counts these rounds, up to MaxAutoHops); a
\* function with formals is called with the automatic arguments.
RECURSIVE autoCallFunction(_, _, _), AutoCallNext(_, _, _)
autoCallFunction(args, fun, hops) ==
  LET f == Force(fun)
  IN IF IsErr(f) THEN f
     ELSE IF f.t = "attrs" /\ "__functor" \in DOMAIN f.attrs
       THEN IF hops = MaxAutoHops THEN Err("Unbounded")
            ELSE AutoCallNext(args, callFunction(f.attrs["__functor"], <<fun>>, 0), hops + 1)
     ELSE IF f.t # "lambda" \/ ~Lambdas[f.fun].formals.has THEN f
     ELSE LET a == AutoArgs(Lambdas[f.fun], args)
          IN IF IsErr(a) THEN a ELSE callFunction(fun, <<Box(AttrsV(a.ok))>>, 0)

AutoCallNext(args, v, hops) == IF IsErr(v) THEN v ELSE autoCallFunction(args, Box(v), hops)

IntMin == -(2 ^ (IntBits - 1))
IntMax == 2 ^ (IntBits - 1) - 1

\* The text of a coerced operand appended to the state.
AppendText(st, c) ==
  IF IsErr(c) THEN c ELSE [st EXCEPT !.s = st.s \o c.s, !.ctx = c.ctx, !.cache = c.cache]

\* One operand of ExprConcatStrings::eval.  st holds first, firstType, the
\* integer and float sums n and nf, the text s, the context and srcToStore.
ConcatStep(st, r) ==
  LET v  == Force(r)
      ft == IF st.first THEN v.t ELSE st.firstType
      st1 == [st EXCEPT !.firstType = ft, !.first = FALSE]
  IN IF IsErr(v) THEN Fail(v, st.cache)
     ELSE CASE ft = "int" /\ v.t = "int" ->
                 IF st.n + v.n \in IntMin..IntMax THEN [st1 EXCEPT !.n = st.n + v.n]
                 ELSE Fail(Err("EvalError"), st.cache)
            [] ft = "int" /\ v.t = "float" -> [st1 EXCEPT !.firstType = "float", !.nf = st.n + v.n]
            [] ft = "int" -> Fail(Err("EvalError"), st.cache)
            [] ft = "float" /\ v.t \in {"int", "float"} -> [st1 EXCEPT !.nf = st.nf + v.n]
            [] ft = "float" -> Fail(Err("EvalError"), st.cache)
            [] OTHER ->
                 AppendText(st1, coerceToString(r, [ctx |-> st.ctx, cache |-> st.cache],
                                                [more |-> FALSE, copy |-> ft = "string",
                                                 canon |-> ~st.first], 0))

PS == INSTANCE PathSandbox WITH Links <- <<>>, MaxFollow <- 1

\* A text as the sequence of its characters, and back.
Chars(s) == [k \in 1..Len(s) |-> SubSeq(s, k, k)]
Text(cs) == FoldLeft(LAMBDA acc, c : acc \o c, "", cs)

\* The loop over the operands, stopping at the first error.
RECURSIVE ConcatLoop(_, _, _)
ConcatLoop(pieces, k, st) ==
  IF k > Len(pieces) \/ IsErr(st) THEN st ELSE ConcatLoop(pieces, k + 1, ConcatStep(st, pieces[k]))

\* The value the loop's final state st stands for.
ConcatResult(st) ==
  IF IsErr(st) THEN [res |-> Err(st.err), cache |-> st.cache]
  ELSE [res |-> CASE st.firstType = "int" -> IntV(st.n)
                  [] st.firstType = "float" -> FloatV(st.nf)
                  [] st.firstType = "path" ->
                       IF st.ctx # {} THEN Err("EvalError")
                       ELSE PathV(Text(PS!canonPath(Chars(st.s), FALSE, {}).ok))
                  [] OTHER -> StrV(st.s, st.ctx),
        cache |-> st.cache]

\* ExprConcatStrings::eval: the result and srcToStore after it.  The
\* first operand's type decides the result (a string when forceString).
concatStrings(pieces, forceString, cache) ==
  ConcatResult(ConcatLoop(pieces, 1, [first |-> ~forceString, firstType |-> "string",
                                      n |-> 0, nf |-> 0, s |-> "", ctx |-> {}, cache |-> cache]))

-----------------------------------------------------------------------------
(* The evaluator applying operators to the heap                            *)

CONSTANTS Operands,      \* cells == is applied to
          UpdOperands,   \* cells // is applied to
          ListOperands,  \* cells ++ is applied to
          SelOperands,   \* cells selected from
          SelPaths,      \* attribute paths of e.a.b and e ? a.b
          Defaults,      \* `or` defaults: references, or NoDef
          Funs,          \* cells called
          ArgSeqs,       \* argument lists of a call: sequences of cells
          AutoArgs0,     \* the automatic arguments (--arg): name -> reference
          Pieces,        \* operands of +: sequences of cells
          NeqOperands,   \* operands of !=
          DeepOperands,  \* cells forceValueDeep is applied to
          AttrsLits      \* set, rec set and let literals

VARIABLES srcToStore,  \* EvalState::srcToStore
          last         \* the last operation: its operator, inputs, result

vars == <<srcToStore, last>>

Init == srcToStore = <<>> /\ last = [op |-> "none", in |-> <<>>, res |-> No]

Apply(op, in, res) == last' = [op |-> op, in |-> in, res |-> res] /\ UNCHANGED srcToStore

\* ExprOpEq::eval and ExprOpNEq::eval: both operands are the operator's
\* own temporaries; != negates eqValues.
Negate(r) == IF IsErr(r) THEN r ELSE [b |-> ~r.b]

OpEq == \/ \E a, b \in Operands : Apply("eq", <<a, b>>, eqCells(C(a), C(b), TRUE))
        \/ \E a, b \in NeqOperands : Apply("neq", <<a, b>>, Negate(eqCells(C(a), C(b), TRUE)))

\* builtins.deepSeq and --strict: forceValueDeep on a cell.
DeepSeq == \E a \in DeepOperands : Apply("deepSeq", <<a>>, forceValueDeep(C(a)))

\* ExprAttrs::eval of a (rec) set literal, ExprLet::eval of a let.
OpAttrs ==
  \E x \in AttrsLits :
    Apply(x.kind, <<x>>, IF x.kind = "let" THEN ExprLetEval(x) ELSE ExprAttrsEval(x))

OpUpdate == \E a, b \in UpdOperands : Apply("update", <<a, b>>, update(C(a), C(b)))

OpConcatLists == \E a, b \in ListOperands : Apply("concatLists", <<a, b>>, concatLists(<<C(a), C(b)>>))

Select == \E a \in SelOperands, p \in SelPaths, d \in Defaults :
            Apply("select", <<a, p, d>>, select(C(a), p, d))

OpHasAttr == \E a \in SelOperands, p \in SelPaths : Apply("hasAttr", <<a, p>>, hasAttr(C(a), p))

\* ExprCall::eval: the arguments are the cells themselves (maybeThunk).
Call == \E f \in Funs, as \in ArgSeqs :
          Apply("call", <<f, as>>, callFunction(C(f), [k \in DOMAIN as |-> C(as[k])], 0))

AutoCall == \E f \in Funs : Apply("autoCall", <<f>>, autoCallFunction(AutoArgs0, C(f), 0))

\* ExprConcatStrings::eval; copies of source paths stay in srcToStore even
\* when a later operand fails.
ConcatStrings ==
  \E ps \in Pieces, forceString \in BOOLEAN :
    LET r == concatStrings([k \in DOMAIN ps |-> C(ps[k])], forceString, srcToStore)
    IN /\ last' = [op |-> "concatStrings", in |-> <<ps, forceString>>, res |-> r.res]
       /\ srcToStore' = r.cache

Next == OpEq \/ OpUpdate \/ OpConcatLists \/ Select \/ OpHasAttr \/ Call \/ AutoCall \/ ConcatStrings
        \/ DeepSeq \/ OpAttrs

Spec == Init /\ [][Next]_vars

-----------------------------------------------------------------------------
(* References: the rules of the language, stated on their own             *)

\* The references a value holds directly, as a set.
Components(r) ==
  LET v == Force(r)
  IN CASE ~IsErr(v) /\ v.t = "list"  -> {v.elems[k] : k \in DOMAIN v.elems}
       [] ~IsErr(v) /\ v.t = "attrs" -> {v.attrs[n] : n \in DOMAIN v.attrs}
       [] OTHER -> {}

\* The references reachable from those in S through lists and attribute
\* sets, cycles included: grow S until nothing new is added.
RECURSIVE ReachAll(_)
ReachAll(S) ==
  LET S2 == S \cup UNION {Components(x) : x \in S}
  IN IF S2 = S THEN S ELSE ReachAll(S2)

Reach(r) == ReachAll({r})

NoFail(r) == \A x \in Reach(r) : ~IsErr(Force(x))

IsDrvRef(v) == /\ "type" \in DOMAIN v.attrs
               /\ Force(v.attrs["type"]).t = "string"
               /\ Force(v.attrs["type"]).s = "derivation"

\* Structural equality (section 4.7), for values that force without error.
RECURSIVE RefEq(_, _)
RefEq(r1, r2) ==
  LET v1 == Force(r1)
      v2 == Force(r2)
  IN IF OnHeap(r1) /\ r1 = r2 THEN TRUE
     ELSE IF {v1.t, v2.t} = {"int", "float"} THEN v1.n = v2.n
     ELSE IF v1.t # v2.t THEN FALSE
     ELSE CASE v1.t = "list" ->
                 Len(v1.elems) = Len(v2.elems) /\ \A k \in DOMAIN v1.elems : RefEq(v1.elems[k], v2.elems[k])
            [] v1.t = "attrs" ->
                 IF IsDrvRef(v1) /\ IsDrvRef(v2) /\ "outPath" \in DOMAIN v1.attrs /\ "outPath" \in DOMAIN v2.attrs
                   THEN RefEq(v1.attrs["outPath"], v2.attrs["outPath"])
                   ELSE DOMAIN v1.attrs = DOMAIN v2.attrs
                        /\ \A n \in DOMAIN v1.attrs : RefEq(v1.attrs[n], v2.attrs[n])
            [] IsFunction(v1) -> FALSE
            [] v1.t = "string" -> v1.s = v2.s
            [] OTHER -> v1 = v2

\* The reference a path leads to, through values known to be sets.
RECURSIVE At(_, _)
At(r, p) == IF p = <<>> THEN r ELSE At(Force(r).attrs[Head(p)], Tail(p))

\* A partial application as the primop and the arguments given so far.
RECURSIVE Args(_)
Args(v) == IF v.t = "primopapp" THEN Append(Args(v.left), v.right) ELSE <<>>

RECURSIVE Leaf(_)
Leaf(v) == IF v.t = "primopapp" THEN Leaf(v.left) ELSE v

Norm(v) ==
  IF IsErr(v) \/ v.t # "primopapp" THEN v
  ELSE [t |-> "partial", op |-> Leaf(v), got |-> Args(v)]

Partial(op, got) == [t |-> "partial", op |-> op, got |-> got]

\* Binding one argument to a lambda (section 4.5), with the formals as sets.
RefLambda(v, a) ==
  LET l == Lambdas[v.fun]
      x == Force(a)
  IN IF ~l.formals.has THEN evalBody(l.body, (l.arg :> a) @@ v.env)
     ELSE IF IsErr(x) THEN x
     ELSE IF x.t # "attrs" THEN Err("TypeError")
     ELSE LET given   == DOMAIN x.attrs
              fs      == ToSet(l.formals.names)
              missing == SelectSeq(l.formals.names, LAMBDA n : n \notin given /\ n \notin DOMAIN l.formals.defs)
              extra   == SelectSeq(Order(x.attrs), LAMBDA n : n \notin fs)
              self    == IF l.arg = "" THEN <<>> ELSE (l.arg :> a)
          IN IF missing # <<>> THEN ErrN("MissingArgument", Head(missing))
             ELSE IF ~l.formals.ellipsis /\ extra # <<>> THEN ErrN("UnexpectedArgument", Head(extra))
             ELSE evalBody(l.body, (self @@ [n \in fs |-> IF n \in given THEN x.attrs[n]
                                                         ELSE l.formals.defs[n]]) @@ v.env)

\* Applying a value to one argument at call depth d (section 4.5).
RECURSIVE RefApply(_, _, _)
RefApply(v, a, d) ==
  CASE v.t = "lambda" -> RefLambda(v, a)
    [] v.t = "primop" ->
         IF v.arity = 1 THEN Native(v.name, <<a>>, d) ELSE Partial(v, <<a>>)
    [] v.t = "partial" ->
         IF Len(v.got) + 1 = v.op.arity THEN Native(v.op.name, Append(v.got, a), d)
         ELSE Partial(v.op, Append(v.got, a))
    [] v.t = "primopapp" -> RefApply(Norm(v), a, d)
    [] v.t = "attrs" /\ "__functor" \in DOMAIN v.attrs ->
         IF d > MaxCallDepth THEN Err("StackOverflow")
         ELSE LET g == Force(v.attrs["__functor"])
                  h == IF IsErr(g) THEN g ELSE RefApply(g, Box(v), d + 1)
              IN IF IsErr(h) THEN h ELSE RefApply(h, a, d + 1)
    [] OTHER -> Err("TypeError")

\* A call with several arguments is the curried application of each.
RefCall(f, args) ==
  LET v == Force(f)
  IN IF IsErr(v) THEN v
     ELSE FoldLeft(LAMBDA w, a : IF IsErr(w) THEN w ELSE RefApply(w, a, 1), v, args)

\* Coercion to a string without coerceMore (section 4.8): the text and the
\* context it brings.
RECURSIVE RefStr(_, _)
RefStr(r, copy) ==
  LET v == Force(r)
  IN CASE IsErr(v) -> v
       [] v.t = "string" -> [s |-> v.s, ctx |-> v.ctx]
       [] v.t = "path" /\ copy /\ EndsWithDrv(v.p) -> Err("EvalError")
       [] v.t = "path" /\ copy -> [s |-> StoreOf[v.p], ctx |-> {StoreOf[v.p]}]
       [] v.t = "path" -> [s |-> v.p, ctx |-> {}]
       [] v.t = "attrs" /\ "__toString" \in DOMAIN v.attrs ->
            LET v1 == callFunction(v.attrs["__toString"], <<r>>, 0)
            IN IF IsErr(v1) THEN v1 ELSE RefStr(Box(v1), copy)
       [] v.t = "attrs" /\ "outPath" \in DOMAIN v.attrs -> RefStr(v.attrs["outPath"], copy)
       [] OTHER -> Err("TypeError")

-----------------------------------------------------------------------------
(* Properties                                                              *)

Ops == {"none", "eq", "neq", "deepSeq", "update", "concatLists", "select", "hasAttr", "call",
        "autoCall", "concatStrings", "set", "rec", "let"}

TypeOK ==
  /\ last.op \in Ops
  /\ DOMAIN srcToStore \subseteq DOMAIN StoreOf
  /\ \A p \in DOMAIN srcToStore : srcToStore[p] \in {StoreOf[q] : q \in DOMAIN StoreOf}
  /\ IsErr(last.res) => last.res.err \in STRING

\* `a == b` (eqValues) is structural equality with the int/float promotion
\* and the derivation shortcut, for operands that force without error and
\* are not themselves functions: nested values are compared through any
\* depth of lists and sets, stopping early, and pointer identity only
\* short-cuts a comparison that would come out true anyway.
EqMatchesSpec ==
  last.op \in {"eq", "neq"} =>
    LET a == C(last.in[1])
        b == C(last.in[2])
    IN (NoFail(a) /\ NoFail(b) /\ ~IsFunction(Force(a)))
         => last.res = [b |-> RefEq(a, b) = (last.op = "eq")]

\* A set literal (ExprAttrs::eval) has the names of its static, override
\* and dynamic attributes, or fails exactly when the rules do, and each
\* attribute forces to its reference value: a `rec` attribute sees the
\* __overrides values through every variable that names it, unless
\* evaluating __overrides itself forced it first; dynamic names are
\* evaluated after the overrides and may not repeat a name.  A let
\* (ExprLet::eval) evaluates its body under its bindings.
AttrsMatchesSpec ==
  last.op \in {"set", "rec", "let"} =>
    LET x == last.in[1]
        r == RefAttrs(x)
    IN  IF x.kind = "let" THEN last.res = RefE(x.body, x.attrs, {}).r
        ELSE IF IsErr(r) THEN last.res = r
        ELSE /\ ~IsErr(last.res)
             /\ DOMAIN last.res.attrs = DOMAIN r.B \cup DOMAIN r.dyn
             /\ \A n \in DOMAIN last.res.attrs \ {"__overrides"} :
                  LET got == ForceRef(last.res.attrs[n], last.res.env2, last.res.s)
                  IN  (IF IsErr(got) THEN Err(got.err) ELSE got.v) = RefAttr(r, n)

\* `e.p or d` (ExprSelect::eval) and `e ? p` (ExprOpHasAttr::eval) agree:
\* the selection gives the default exactly when `?` says no, the value at
\* the path (forced) when it says yes, and fails with the error `?` meets
\* on the way.
SelectAgreesWithHasAttr ==
  last.op = "select" =>
    LET a == C(last.in[1])
        p == last.in[2]
        d == last.in[3]
        h == hasAttr(a, p)
    IN CASE IsErr(h)    -> last.res = h
         [] h.b         -> last.res = Force(At(a, p))
         [] d # NoDef   -> last.res = Force(d)
         [] OTHER       -> IsErr(last.res)

\* A call `f a b ...` (EvalState::callFunction) is the application of f to
\* one argument after the other (section 4.5): lambdas bind their formals
\* (MissingArgument before UnexpectedArgument), primops wait for their
\* arity with the arguments in order, functors are called with themselves.
CallMatchesSpec ==
  last.op = "call" =>
    Norm(last.res) = Norm(RefCall(C(last.in[1]), [k \in DOMAIN last.in[2] |-> C(last.in[2][k])]))

\* forceValueDeep (section 4.4: every component forced once, shared values
\* visited once) terminates on a value that contains itself, succeeds
\* with the value exactly when nothing reachable through its lists and sets
\* fails, and otherwise fails with the error of something reachable.
DeepForceMatchesSpec ==
  last.op = "deepSeq" =>
    LET r   == C(last.in[1])
        bad == {x \in Reach(r) : IsErr(Force(x))}
    IN /\ bad = {} => last.res = Force(r)
       /\ bad # {} => last.res \in {Force(x) : x \in bad}

\* What section 4.8 says of the result res of `+` on operands whose
\* coercions are parts and whose values are ns.
ConcatAgrees(forceString, res, parts, ns) ==
  LET sums == [k \in DOMAIN ns |-> FoldLeft(LAMBDA acc, v : acc + v.n, 0, SubSeq(ns, 1, k))]
  IN /\ (~IsErr(res) /\ res.t = "string" /\ (forceString \/ ns[1].t = "string"))
          => res = StrV(FoldLeft(LAMBDA acc, x : acc \o x.s, "", parts),
                        UNION {parts[k].ctx : k \in DOMAIN parts})
     /\ (~forceString /\ \A k \in DOMAIN ns : ~IsErr(ns[k]) /\ ns[k].t = "int")
          => res = IF \A k \in DOMAIN sums : sums[k] \in IntMin..IntMax
                   THEN IntV(sums[Len(sums)]) ELSE Err("EvalError")

\* `+` (ExprConcatStrings::eval): a string result that starts from a
\* string (or is an interpolation) is the operands' texts
\* in order, with the union of the contexts of every string that went into
\* it and the store paths of the paths copied (invariant 3); integers add
\* with overflow an error, never a wrap.
ConcatStringsMatchesSpec ==
  last.op = "concatStrings" =>
    LET ps == [k \in DOMAIN last.in[1] |-> C(last.in[1][k])]
    IN ConcatAgrees(last.in[2], last.res, [k \in DOMAIN ps |-> RefStr(ps[k], TRUE)],
                    [k \in DOMAIN ps |-> Force(ps[k])])

====
