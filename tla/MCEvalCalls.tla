----------------------------- MODULE MCEvalCalls -----------------------------
(***************************************************************************)
(* A heap for EvalCalls: numbers at the integer bound, strings with and    *)
(* without context, source paths, a failing thunk, lists with a failing    *)
(* and an empty element, attribute sets that overlap, derivations that     *)
(* share an outPath, a set whose `type` throws, __toString and outPath     *)
(* sets, lambdas with and without formals, defaults, ellipsis and @-name,  *)
(* a functor, a self-referential functor, primops of arity 1 to 3 and a    *)
(* partial application holding two arguments.                              *)
(***************************************************************************)
EXTENDS EvalCalls

NoF == [has |-> FALSE, names |-> <<>>, defs |-> <<>>, ellipsis |-> FALSE]

MCLambdas ==
  ("id"  :> [arg |-> "x", formals |-> NoF, body |-> [k |-> "var", x |-> "x"]]) @@
  ("fm"  :> [arg |-> "", body |-> [k |-> "var", x |-> "b"],
             formals |-> [has |-> TRUE, names |-> <<"a", "b">>, defs |-> ("b" :> C("i2")),
                          ellipsis |-> FALSE]]) @@
  ("fe"  :> [arg |-> "args", body |-> [k |-> "var", x |-> "args"],
             formals |-> [has |-> TRUE, names |-> <<"a">>, defs |-> <<>>, ellipsis |-> TRUE]]) @@
  ("k"   :> [arg |-> "self", formals |-> NoF, body |-> [k |-> "lambda", fun |-> "kx"]]) @@
  ("kx"  :> [arg |-> "x", formals |-> NoF, body |-> [k |-> "var", x |-> "x"]]) @@
  ("tsf" :> [arg |-> "self", formals |-> NoF, body |-> [k |-> "ref", r |-> C("sc")]])

MCHeap ==
  ("i1" :> IntV(1)) @@ ("i2" :> IntV(2)) @@ ("big" :> IntV(7)) @@ ("f1" :> FloatV(1)) @@
  ("s" :> StrV("a", {})) @@ ("sc" :> StrV("b", {"/s/ctx"})) @@ ("tdrv" :> StrV("derivation", {})) @@
  ("p" :> PathV("/p")) @@ ("pd" :> PathV("/x.drv")) @@ ("n" :> NullV) @@
  ("bot" :> Failing("ThrownError")) @@
  ("l0" :> ListV(<<>>)) @@ ("l1" :> ListV(<<C("i1"), C("bot")>>)) @@
  ("l2" :> ListV(<<C("f1"), C("s")>>)) @@ ("l3" :> ListV(<<C("l0"), C("i1")>>)) @@
  ("l4" :> ListV(<<C("i1"), C("s")>>)) @@ ("l5" :> ListV(<<C("i1"), C("i2")>>)) @@
  ("a0" :> AttrsV(<<>>)) @@
  ("a1" :> AttrsV(("a" :> C("i1")) @@ ("b" :> C("bot")))) @@
  ("a2" :> AttrsV("a" :> C("f1"))) @@
  ("ab" :> AttrsV(("a" :> C("i2")) @@ ("b" :> C("s")))) @@
  ("abx" :> AttrsV(("a" :> C("i1")) @@ ("b" :> C("i2")) @@ ("x" :> C("i1")))) @@
  ("nest" :> AttrsV("a" :> C("a2"))) @@
  ("drv1" :> AttrsV(("type" :> C("tdrv")) @@ ("outPath" :> C("s")) @@ ("x" :> C("i1")))) @@
  ("drv2" :> AttrsV(("type" :> C("tdrv")) @@ ("outPath" :> C("s")) @@ ("x" :> C("i2")))) @@
  ("tbad" :> AttrsV("type" :> C("bot"))) @@
  ("ts" :> AttrsV("__toString" :> C("tsf"))) @@ ("tsf" :> LambdaV("tsf", <<>>)) @@
  ("op" :> AttrsV("outPath" :> C("p"))) @@
  ("fn" :> LambdaV("id", <<>>)) @@ ("fm" :> LambdaV("fm", <<>>)) @@ ("fe" :> LambdaV("fe", <<>>)) @@
  ("fun" :> AttrsV("__functor" :> C("k"))) @@ ("k" :> LambdaV("k", <<>>)) @@
  ("rec" :> AttrsV("__functor" :> C("rec"))) @@
  ("cyc" :> AttrsV(("a" :> C("cyc")) @@ ("b" :> C("l5")))) @@
  ("cycl" :> AttrsV(("a" :> C("cycl")) @@ ("x" :> C("l1")))) @@
  ("prim2" :> PrimOpV("pair", 2)) @@ ("prim3" :> PrimOpV("triple", 3)) @@
  ("chain" :> PrimOpAppV(PrimOpAppV(PrimOpV("triple", 3), C("i1")), C("i2"))) @@
  ("tt" :> BoolV(TRUE)) @@ ("ff" :> BoolV(FALSE)) @@ ("sx" :> StrV("x", {})) @@
  ("throwp" :> PrimOpV("throw", 1)) @@ ("tostr" :> PrimOpV("toString", 1))

MCSymOrder == <<"type", "outPath", "__functor", "__overrides", "__toString", "a", "b", "x">>

MCStoreOf == "/p" :> "/nix/store/h-p"

MCOperands == {"i1", "i2", "f1", "s", "sc", "p", "n", "bot", "fn", "l0", "l1", "l2", "l3", "l4", "l5",
               "a0", "a1", "a2", "ab", "nest", "drv1", "drv2", "tbad", "ts", "op"}

MCUpdOperands == {"a0", "a1", "a2", "ab", "nest", "drv1", "i1", "bot"}

MCListOperands == {"l0", "l1", "l2", "l3", "i1", "bot"}

MCSelOperands == {"a1", "a2", "ab", "nest", "drv1", "tbad", "i1", "bot"}

MCSelPaths == {<<"a">>, <<"b">>, <<"a", "a">>, <<"x">>}

MCDefaults == {NoDef, C("i2"), C("bot")}

MCFuns == {"fn", "fm", "fe", "fun", "rec", "prim2", "prim3", "chain", "throwp", "tostr", "i1", "bot"}

MCArgSeqs == {<<"i1">>, <<"i1", "i2">>, <<"i1", "i2", "s">>, <<"ab">>, <<"abx">>, <<"a2">>,
              <<"a0">>, <<"a1">>, <<"l3">>, <<"ts">>, <<"s">>, <<"bot">>, <<"l2">>}

MCAutoArgs == ("a" :> C("i1")) @@ ("x" :> C("i2"))

MCPieces == {<<"s", "sc">>, <<"s", "p">>, <<"p", "s">>, <<"p", "sc">>, <<"p", "p">>,
             <<"i1", "i2">>, <<"big", "i1">>, <<"i1", "f1">>, <<"f1", "i1">>, <<"i1", "s">>,
             <<"s", "op">>, <<"s", "ts">>, <<"s", "pd">>, <<"s", "p", "bot">>, <<"op", "p">>,
             <<"l0", "s">>}
\* Cyclic sets, one reaching a failing list element, shared values and a
\* failing `type`.
MCDeepOperands == {"i1", "bot", "l1", "l3", "a1", "nest", "drv1", "tbad", "fn", "rec", "cyc", "cycl"}
\* != only negates eqValues: a few operands of each kind suffice.
MCNeqOperands == {"i1", "f1", "bot", "l1", "l3", "a1", "ab", "drv1"}
Lit(kind, bs, dyn) == [kind |-> kind, attrs |-> bs, dyn |-> dyn, body |-> K("n")]
Dyn(n, v) == [name |-> n, val |-> v]
NoSet == SetE(<<>>)

\* Set and let literals: an override seen through a variable that
\* maybeThunk could have aliased; an attribute forced by evaluating
\* __overrides before the override it depends on, which also decides a
\* dynamic name; an override added under a name a dynamic attribute then
\* takes; __overrides that is no set or throws; a cycle; a dynamic name
\* read through an aliased variable and a null name; names with context
\* or of the wrong type; lets, one with a cycle and one binding
\* __overrides.
MCAttrsLits ==
  { Lit("rec", ("__overrides" :> SetE("a" :> "i2")) @@ ("a" :> K("i1")) @@ ("b" :> Var("a")), <<>>),
    Lit("rec", ("__overrides" :> IfE(Var("a"), SetE("b" :> "ff"), NoSet)) @@ ("a" :> Var("b"))
               @@ ("b" :> K("tt")) @@ ("x" :> IfE(Var("b"), K("i1"), K("i2"))),
        <<Dyn(IfE(Var("a"), K("sx"), K("n")), Var("b"))>>),
    Lit("rec", ("__overrides" :> SetE("x" :> "i1")) @@ ("a" :> K("i2")), <<Dyn(K("sx"), K("i2"))>>),
    Lit("rec", ("__overrides" :> Var("a")) @@ ("a" :> K("i1")), <<>>),
    Lit("rec", ("__overrides" :> K("bot")) @@ ("a" :> K("i1")), <<>>),
    Lit("rec", ("a" :> Var("b")) @@ ("b" :> Var("a")) @@ ("x" :> IfE(Var("a"), K("i1"), K("i2"))), <<>>),
    Lit("rec", ("a" :> K("sx")) @@ ("b" :> Var("a")),
        <<Dyn(Var("b"), Var("a")), Dyn(K("n"), K("bot"))>>),
    Lit("set", "a" :> K("i1"), <<Dyn(K("sc"), K("i1"))>>),
    Lit("set", <<>>, <<Dyn(K("i1"), K("i1"))>>),
    Lit("set", "b" :> SetE("a" :> "i1"), <<Dyn(K("s"), K("i2")), Dyn(K("s"), K("i1"))>>),
    Lit("set", "b" :> K("bot"), <<Dyn(K("s"), K("i2"))>>),
    [Lit("let", ("a" :> Var("b")) @@ ("b" :> K("i1")), <<>>) EXCEPT !.body = IfE(K("tt"), Var("a"), K("bot"))],
    [Lit("let", "a" :> IfE(Var("a"), K("i1"), K("i2")), <<>>) EXCEPT !.body = Var("a")],
    [Lit("let", ("__overrides" :> K("i1")) @@ ("a" :> Var("__overrides")), <<>>) EXCEPT !.body = Var("a")] }
====
