------------------------------- MODULE LazyEval -------------------------------
(***************************************************************************)
(* The forcing engine of the evaluator (src/lix/libexpr/eval.cc) run on a  *)
(* `let` block of bindings 1..N.  ExprLet::eval allocates one environment  *)
(* slot per binding and fills it with maybeThunk: a literal is stored as   *)
(* its pre-built value, a variable that refers to an EARLIER binding       *)
(* aliases that binding's value cell, everything else becomes a thunk.    *)
(* Forcing a thunk overwrites it with a black hole, evaluates its          *)
(* expression (which may force further cells) and writes the result.      *)
(* The host (REPL, nix-eval-jobs worker) forces bindings one after the     *)
(* other in any order and catches the error of a failed force.            *)
(*                                                                         *)
(* Expressions: integer literal, variable, integer `+`, `if`, `throw`,    *)
(* `(builtins.tryEval x).success`, `!`, `&&`, `||`, `->` and `assert`.     *)
(* Integers are checked against MaxInt,                                    *)
(* the model's width of NixInt.  The cell addresses are binding indices.  *)
(***************************************************************************)
EXTENDS Integers, Sequences, SequencesExt, FiniteSets

CONSTANTS Cells,      \* the binding indices 1..N of the let block
          Programs,   \* the let blocks to check: functions Cells -> Expr
          MaxInt,     \* largest NixInt the model represents
          MaxForces   \* number of top-level forces the host performs

ASSUME Cells = 1..Cardinality(Cells) /\ MaxInt \in Nat /\ MaxForces \in Nat

\* Expression constructors, used by the MC module to build Programs.
Lit(n)       == [k |-> "lit", v |-> [tag |-> "int", n |-> n]]
\* `true`/`false`: variables of the base environment, already values.
LitB(b)      == [k |-> "lit", v |-> [tag |-> "bool", b |-> b]]
Var(x)       == [k |-> "var", x |-> x]
Add(x, y)    == [k |-> "add", x |-> x, y |-> y]
If(c, t, e)  == [k |-> "if", c |-> c, t |-> t, e |-> e]
Throw        == [k |-> "throw"]
TryEval(x)   == [k |-> "try", x |-> x]
Not(x)       == [k |-> "not", x |-> x]
\* `x && y`, `x || y` and `x -> y`: op is "and", "or" or "impl".
Logic(op, x, y) == [k |-> op, x |-> x, y |-> y]
AssertE(c, y) == [k |-> "assert", x |-> c, y |-> y]

\* The left operand of a short-circuiting operator that decides it: `&&`
\* stops at false, `||` at true, `->` at false; and the result then.
LogicOps == {"and", "or", "impl"}
Decides(op)  == op = "or"
Decided(op)  == op # "and"

\* Value cells and error records.
Thunk      == [tag |-> "thunk"]
Blackhole  == [tag |-> "blackhole"]
None       == [tag |-> "none"]
IntV(n)    == [tag |-> "int", n |-> n]
BoolV(b)   == [tag |-> "bool", b |-> b]
Err(k, a)  == [tag |-> "error", kind |-> k, at |-> a]
IsWHNF(v)  == v.tag \in {"int", "bool"}
IsErr(v)   == v.tag = "error"
ErrorKinds == {"thrown", "assert", "infrec", "type", "overflow"}
Values     == {IntV(n) : n \in 0..MaxInt} \cup {BoolV(b) : b \in BOOLEAN}
Errors     == [tag : {"error"}, kind : ErrorKinds, at : Cells]

\* tryEval absorbs an AssertionError, and ThrownError is one; nothing else.
Catchable == {"thrown", "assert"}

VARIABLES prog,      \* the let block being evaluated (fixed after Init)
          heap,      \* value cell of every binding address
          stack,     \* frames of the thunks being forced, innermost last
          ret,       \* outcome of the force that just completed, or None
          cur,       \* binding the host is forcing (0 before the first)
          outcomes,  \* outcomes the host observed for each binding
          roots,     \* bindings the host has forced
          nForces    \* number of top-level forces so far

vars == <<prog, heap, stack, ret, cur, outcomes, roots, nForces>>

Frame == [addr : Cells, vals : Seq(Values)]

-----------------------------------------------------------------------------
(* Environment construction: the value cell binding b refers to.           *)
RECURSIVE Slot(_)
Slot(b) == IF prog[b].k = "var" /\ prog[b].x < b THEN Slot(prog[b].x) ELSE b

\* The outcome of forcing address a on a fresh heap while the addresses in
\* V are being forced, and the addresses whose thunks that force enters.
\* This is the reference: a big-step evaluator without memoisation.
RECURSIVE Ref(_, _)
Ref(a, V) ==
  LET e == prog[a]
      W == V \cup {a}
      Fail(r, k) == [r |-> Err(k, a), t |-> r.t \cup {a}]
      Pass(r)    == [r |-> r.r, t |-> r.t \cup {a}]
  IN
  IF e.k = "lit" THEN [r |-> e.v, t |-> {}]
  ELSE IF a \in V THEN [r |-> Err("infrec", a), t |-> {}]
  ELSE CASE e.k = "var" -> Pass(Ref(Slot(e.x), W))
         [] e.k = "throw" -> [r |-> Err("thrown", a), t |-> {a}]
         [] e.k = "try" ->
              LET r1 == Ref(Slot(e.x), W) IN
              IF IsErr(r1.r) /\ r1.r.kind \notin Catchable THEN Pass(r1)
              ELSE [r |-> BoolV(~IsErr(r1.r)), t |-> r1.t \cup {a}]
         [] e.k = "if" ->
              LET r1 == Ref(Slot(e.c), W) IN
              IF IsErr(r1.r) THEN Pass(r1)
              ELSE IF r1.r.tag # "bool" THEN Fail(r1, "type")
              ELSE LET r2 == Ref(Slot(IF r1.r.b THEN e.t ELSE e.e), W) IN
                   [r |-> r2.r, t |-> r1.t \cup r2.t \cup {a}]
         [] e.k = "not" ->
              LET r1 == Ref(Slot(e.x), W) IN
              IF IsErr(r1.r) THEN Pass(r1)
              ELSE IF r1.r.tag # "bool" THEN Fail(r1, "type")
              ELSE [r |-> BoolV(~r1.r.b), t |-> r1.t \cup {a}]
         [] e.k \in LogicOps \cup {"assert"} ->
              LET r1 == Ref(Slot(e.x), W) IN
              IF IsErr(r1.r) THEN Pass(r1)
              ELSE IF r1.r.tag # "bool" THEN Fail(r1, "type")
              ELSE IF e.k = "assert" /\ ~r1.r.b THEN Fail(r1, "assert")
              ELSE IF e.k \in LogicOps /\ r1.r.b = Decides(e.k)
                THEN [r |-> BoolV(Decided(e.k)), t |-> r1.t \cup {a}]
              ELSE LET r2 == Ref(Slot(e.y), W)
                       t2 == [r |-> r2.r, t |-> r1.t \cup r2.t]
                   IN IF IsErr(r2.r) THEN Pass(t2)
                      ELSE IF e.k \in LogicOps /\ r2.r.tag # "bool" THEN Fail(t2, "type")
                      ELSE [r |-> r2.r, t |-> t2.t \cup {a}]
         [] e.k = "add" ->
              LET r1 == Ref(Slot(e.x), W) IN
              IF IsErr(r1.r) THEN Pass(r1)
              ELSE IF r1.r.tag # "int" THEN Fail(r1, "type")
              ELSE LET r2 == Ref(Slot(e.y), W)
                       t2 == [r |-> r2.r, t |-> r1.t \cup r2.t]
                   IN IF IsErr(r2.r) THEN Pass(t2)
                      ELSE IF r2.r.tag # "int" THEN Fail(t2, "type")
                      ELSE IF r1.r.n + r2.r.n > MaxInt THEN Fail(t2, "overflow")
                      ELSE [r |-> IntV(r1.r.n + r2.r.n), t |-> t2.t \cup {a}]

-----------------------------------------------------------------------------
(* ExprLet::eval with maybeThunk: literals and constants are values, a variable bound to *)
(* an earlier binding aliases it, all other bindings are fresh thunks.     *)
Init ==
  /\ prog \in Programs
  /\ heap = [a \in Cells |-> IF prog[a].k = "lit" THEN prog[a].v ELSE Thunk]
  /\ stack = <<>>
  /\ ret = None
  /\ cur = 0
  /\ outcomes = [b \in Cells |-> {}]
  /\ roots = {}
  /\ nForces = 0

Top == stack[Len(stack)]
TopExpr == prog[Top.addr]

\* Hand a forced operand value to the innermost frame.
GiveOperand(v) == stack' = [stack EXCEPT ![Len(stack)].vals = Append(@, v)]

\* forceValue on a thunk: black-hole it and start evaluating its expression.
PushThunk(a) ==
  /\ heap' = [heap EXCEPT ![a] = Blackhole]
  /\ stack' = Append(stack, [addr |-> a, vals |-> <<>>])

\* The innermost frame's expression throws e.  forceValue propagates it and
\* restores nothing: the frame's cell stays a black hole.
Raise(e) == /\ stack' = Front(stack)
            /\ ret' = e
            /\ UNCHANGED heap

\* The innermost frame's expression yields v, written into its cell.
Return(v) == /\ heap' = [heap EXCEPT ![Top.addr] = v]
             /\ stack' = Front(stack)
             /\ ret' = v

\* Seeded fault: waiting for a black hole to be filled instead of
\* reporting it.
ForceBlackholeAwait(a) == heap[a] = Blackhole /\ UNCHANGED <<heap, stack, ret>>

\* forceValue(*cell a) requested by the innermost frame.  A black hole is a
\* thunk of ExprBlackHole whose evaluation throws InfiniteRecursion; the
\* error's position is fixed up to the position of this force.
ForceThunk(a) == heap[a] = Thunk /\ PushThunk(a) /\ UNCHANGED ret
ForceValue(a) == IsWHNF(heap[a]) /\ GiveOperand(heap[a]) /\ UNCHANGED <<heap, ret>>
ForceBlackhole(a) == heap[a] = Blackhole /\ Raise(Err("infrec", a))
Force(a) == ForceValue(a) \/ ForceThunk(a) \/ ForceBlackhole(a)

\* Evaluation steps of the innermost frame, one action per AST node kind.
\* Each applies only when no child outcome is waiting to be consumed.
EvalVar ==
  /\ TopExpr.k = "var"
  /\ \/ Top.vals = <<>> /\ Force(Slot(TopExpr.x))
     \/ Len(Top.vals) = 1 /\ Return(Top.vals[1])

\* Seeded fault: integer addition with no overflow check.
EvalAddUnchecked ==
  LET e == TopExpr  vs == Top.vals IN
  /\ e.k = "add"
  /\ \/ vs = <<>> /\ Force(Slot(e.x))
     \/ Len(vs) = 1 /\ vs[1].tag # "int" /\ Raise(Err("type", Top.addr))
     \/ Len(vs) = 1 /\ vs[1].tag = "int" /\ Force(Slot(e.y))
     \/ Len(vs) = 2 /\ vs[2].tag # "int" /\ Raise(Err("type", Top.addr))
     \/ Len(vs) = 2 /\ vs[2].tag = "int" /\ Return(IntV(vs[1].n + vs[2].n))

\* Seeded fault: integer addition that wraps instead of reporting overflow.
EvalAddWrap ==
  LET e == TopExpr  vs == Top.vals IN
  /\ e.k = "add"
  /\ \/ vs = <<>> /\ Force(Slot(e.x))
     \/ Len(vs) = 1 /\ vs[1].tag # "int" /\ Raise(Err("type", Top.addr))
     \/ Len(vs) = 1 /\ vs[1].tag = "int" /\ Force(Slot(e.y))
     \/ Len(vs) = 2 /\ vs[2].tag # "int" /\ Raise(Err("type", Top.addr))
     \/ Len(vs) = 2 /\ vs[2].tag = "int"
                    /\ Return(IntV((vs[1].n + vs[2].n) % (MaxInt + 1)))

EvalAdd ==
  LET e == TopExpr  vs == Top.vals IN
  /\ e.k = "add"
  /\ \/ vs = <<>> /\ Force(Slot(e.x))
     \/ Len(vs) = 1 /\ vs[1].tag # "int" /\ Raise(Err("type", Top.addr))
     \/ Len(vs) = 1 /\ vs[1].tag = "int" /\ Force(Slot(e.y))
     \/ Len(vs) = 2 /\ vs[2].tag # "int" /\ Raise(Err("type", Top.addr))
     \/ Len(vs) = 2 /\ vs[2].tag = "int" /\ vs[1].n + vs[2].n > MaxInt
                    /\ Raise(Err("overflow", Top.addr))
     \/ Len(vs) = 2 /\ vs[2].tag = "int" /\ vs[1].n + vs[2].n <= MaxInt
                    /\ Return(IntV(vs[1].n + vs[2].n))

\* Seeded fault: an `if` that forces both branches before choosing.
EvalIfStrict ==
  LET e == TopExpr  vs == Top.vals IN
  /\ e.k = "if"
  /\ \/ vs = <<>> /\ Force(Slot(e.c))
     \/ Len(vs) = 1 /\ vs[1].tag # "bool" /\ Raise(Err("type", Top.addr))
     \/ Len(vs) = 1 /\ vs[1].tag = "bool" /\ Force(Slot(e.t))
     \/ Len(vs) = 2 /\ Force(Slot(e.e))
     \/ Len(vs) = 3 /\ Return(IF vs[1].b THEN vs[2] ELSE vs[3])

EvalIf ==
  LET e == TopExpr  vs == Top.vals IN
  /\ e.k = "if"
  /\ \/ vs = <<>> /\ Force(Slot(e.c))
     \/ Len(vs) = 1 /\ vs[1].tag # "bool" /\ Raise(Err("type", Top.addr))
     \/ Len(vs) = 1 /\ vs[1].tag = "bool" /\ Force(Slot(IF vs[1].b THEN e.t ELSE e.e))
     \/ Len(vs) = 2 /\ Return(vs[2])

EvalThrow == TopExpr.k = "throw" /\ Raise(Err("thrown", Top.addr))

\* evalBool: force the operand, a TypeError if it is not a Boolean.
NotBool(v) == v.tag # "bool" /\ Raise(Err("type", Top.addr))

\* ExprOpNot::eval.
EvalNot ==
  LET vs == Top.vals IN
  /\ TopExpr.k = "not"
  /\ \/ vs = <<>> /\ Force(Slot(TopExpr.x))
     \/ Len(vs) = 1 /\ NotBool(vs[1])
     \/ Len(vs) = 1 /\ vs[1].tag = "bool" /\ Return(BoolV(~vs[1].b))

\* ExprOpAnd, ExprOpOr and ExprOpImpl::eval: the right operand is
\* evaluated only when the left one does not decide (C++ && and ||).
EvalLogic ==
  LET e == TopExpr  vs == Top.vals IN
  /\ e.k \in LogicOps
  /\ \/ vs = <<>> /\ Force(Slot(e.x))
     \/ Len(vs) = 1 /\ NotBool(vs[1])
     \/ Len(vs) = 1 /\ vs[1].tag = "bool" /\ vs[1].b = Decides(e.k) /\ Return(BoolV(Decided(e.k)))
     \/ Len(vs) = 1 /\ vs[1].tag = "bool" /\ vs[1].b # Decides(e.k) /\ Force(Slot(e.y))
     \/ Len(vs) = 2 /\ NotBool(vs[2])
     \/ Len(vs) = 2 /\ vs[2].tag = "bool" /\ Return(vs[2])

\* ExprAssert::eval: an AssertionError when the condition is false, else
\* the body.
EvalAssert ==
  LET e == TopExpr  vs == Top.vals IN
  /\ e.k = "assert"
  /\ \/ vs = <<>> /\ Force(Slot(e.x))
     \/ Len(vs) = 1 /\ NotBool(vs[1])
     \/ Len(vs) = 1 /\ vs[1] = BoolV(FALSE) /\ Raise(Err("assert", Top.addr))
     \/ Len(vs) = 1 /\ vs[1] = BoolV(TRUE) /\ Force(Slot(e.y))
     \/ Len(vs) = 2 /\ Return(vs[2])

EvalTry ==
  /\ TopExpr.k = "try"
  /\ \/ Top.vals = <<>> /\ Force(Slot(TopExpr.x))
     \/ Len(Top.vals) = 1 /\ Return(BoolV(TRUE))

Eval ==
  /\ stack # <<>>
  /\ ret = None
  /\ \/ EvalVar \/ EvalAdd \/ EvalIf \/ EvalThrow \/ EvalTry \/ EvalNot \/ EvalLogic \/ EvalAssert
  /\ UNCHANGED <<prog, cur, outcomes, roots, nForces>>

\* A forced child frame finished with a value: it is the parent's operand.
ChildReturned ==
  /\ stack # <<>>
  /\ IsWHNF(ret)
  /\ GiveOperand(ret)
  /\ ret' = None
  /\ UNCHANGED <<prog, heap, cur, outcomes, roots, nForces>>

\* A forced child frame failed.  tryEval turns a caught error into
\* `success = false`; any other frame fails with the same error.
ChildFailed ==
  /\ stack # <<>>
  /\ IsErr(ret)
  /\ IF TopExpr.k = "try" /\ ret.kind \in Catchable
     THEN Return(BoolV(FALSE))
     ELSE Raise(ret)
  /\ UNCHANGED <<prog, cur, outcomes, roots, nForces>>

\* The host forces binding b at top level.
HostForce(b) ==
  LET a == Slot(b) IN
  /\ stack = <<>>
  /\ ret = None
  /\ nForces < MaxForces
  /\ nForces' = nForces + 1
  /\ cur' = b
  /\ roots' = roots \cup {b}
  /\ \/ IsWHNF(heap[a]) /\ ret' = heap[a] /\ UNCHANGED <<heap, stack>>
     \/ heap[a] = Thunk /\ PushThunk(a) /\ UNCHANGED ret
     \/ heap[a] = Blackhole /\ ret' = Err("infrec", a) /\ UNCHANGED <<heap, stack>>
  /\ UNCHANGED <<prog, outcomes>>

\* The host receives the outcome of its force (catching an error).
HostCatch ==
  /\ stack = <<>>
  /\ ret # None
  /\ outcomes' = [outcomes EXCEPT ![cur] = @ \cup {ret}]
  /\ ret' = None
  /\ UNCHANGED <<prog, heap, stack, cur, roots, nForces>>

Next ==
  \/ Eval
  \/ ChildReturned
  \/ ChildFailed
  \/ \E b \in Cells : HostForce(b)
  \/ HostCatch

\* The evaluator is single-threaded and never blocks: whenever a step is
\* enabled it is taken.
Spec == Init /\ [][Next]_vars /\ WF_vars(Next)

-----------------------------------------------------------------------------
TypeOK ==
  /\ heap \in [Cells -> {Thunk, Blackhole} \cup Values]
  /\ stack \in Seq(Frame)
  /\ ret \in {None} \cup Values \cup Errors
  /\ cur \in 0..Cardinality(Cells)
  /\ outcomes \in [Cells -> SUBSET (Values \cup Errors)]
  /\ roots \subseteq Cells
  /\ nForces \in 0..MaxForces

\* A black hole no frame is evaluating: left by a force that threw.
Stale(a) == heap[a] = Blackhole /\ a \notin {stack[i].addr : i \in DOMAIN stack}

\* Every value the evaluator writes into a cell, and every outcome the host
\* receives for a binding, is the one the reference semantics gives: thunk
\* sharing, aliasing by maybeThunk and black-holing never change a result.
\* The one departure: forceValue restores nothing when a force throws, so a
\* later force that reaches that cell reports InfiniteRecursion at it
\* instead of the original error, and tryEval cannot catch that.
ValueSound ==
  /\ \A a \in Cells : IsWHNF(heap[a]) => heap[a] = Ref(a, {}).r
  /\ \A b \in roots : \A o \in outcomes[b] :
       \/ o = Ref(Slot(b), {}).r
       \/ IsErr(o) /\ o.kind = "infrec" /\ Stale(o.at)

\* Laziness: a thunk is entered only if the reference evaluation of some
\* binding the host forced enters it (the untaken `if` branch never is).
OnlyDemandedForced ==
  \A a \in Cells :
    (prog[a].k # "lit" /\ heap[a] # Thunk) =>
      a \in UNION {Ref(Slot(b), {}).t : b \in roots}

\* Every top-level force is answered: forcing terminates even on cyclic
\* bindings, because a cycle runs into its own black hole.
ForceTerminates == (stack # <<>> \/ ret # None) ~> (stack = <<>> /\ ret = None)
=============================================================================
