------------------------------ MODULE MCLazyEval ------------------------------
(* Every let block of three bindings over the expression forms of LazyEval. *)
EXTENDS LazyEval

MCCells == 1..3

\* All expressions over the bindings of MCCells, with the condition and the
\* two branches of an `if` on distinct bindings.  The only integer literal is
\* 1, so with MaxInt = 2 an overflow needs a chain of two additions; `false`
\* is a constant (`true` is reached through tryEval).
MCExprs ==
  {Lit(1), LitB(FALSE), Throw}
  \cup {Var(x) : x \in MCCells}
  \cup {TryEval(x) : x \in MCCells}
  \cup {Add(x, y) : x, y \in MCCells}
  \cup {i \in {If(c, t, e) : c, t, e \in MCCells} : Cardinality({i.c, i.t, i.e}) = 3}

\* Let blocks with one `!`, `&&`, `||`, `->` or `assert` on two distinct
\* bindings, the others `false`, `throw`, a variable or a tryEval (which
\* gives `true`).
MCLeaves == {LitB(FALSE), Throw} \cup {Var(x) : x \in MCCells} \cup {TryEval(x) : x \in MCCells}

MCLogicExprs ==
  {Not(x) : x \in MCCells}
  \cup {Logic(op, x, y) : op \in LogicOps, x, y \in MCCells}
  \cup {AssertE(c, y) : c, y \in MCCells}

MCLogicPrograms ==
  UNION {{[c \in MCCells |-> IF c = i THEN e ELSE p[c]] :
            e \in {f \in MCLogicExprs : f.x # i /\ ("y" \in DOMAIN f => f.y \notin {i, f.x})},
            p \in [MCCells -> MCLeaves]} : i \in MCCells}

MCPrograms == [MCCells -> MCExprs] \cup MCLogicPrograms
=============================================================================
