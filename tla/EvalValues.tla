------------------------------ MODULE EvalValues ------------------------------
(***************************************************************************)
(* Values of the evaluator and the operations on them that only look at    *)
(* values (lix/libexpr/eval.cc): eqValues with the derivation shortcut,    *)
(* the update operator //, list concatenation, attribute selection with    *)
(* `or`, the has-attribute operator `?` and forceValueDeep.                *)
(*                                                                         *)
(* Values live in cells (Value objects): lists, attribute sets and         *)
(* environments hold references, C(c) to a cell of the heap or Box(v) to a *)
(* value allocated during the operation, so pointer identity is equality  *)
(* of heap references.  A cell holds a value in weak head normal form, or  *)
(* a thunk whose evaluation throws.  Attribute                             *)
(* sets are kept in symbol order (Bindings is sorted by Symbol, which      *)
(* orders names by when they were interned), given by SymOrder.           *)
(***************************************************************************)
EXTENDS Integers, Sequences, SequencesExt, FiniteSets

CONSTANTS Heap,      \* cell -> value or failing thunk
          SymOrder   \* the attribute names in symbol order

Cells == DOMAIN Heap
Names == ToSet(SymOrder)

\* Value constructors (Value::type() is the field t).
IntV(n)         == [t |-> "int", n |-> n]
FloatV(n)       == [t |-> "float", n |-> n]
BoolV(b)        == [t |-> "bool", b |-> b]
NullV           == [t |-> "null"]
StrV(s, ctx)    == [t |-> "string", s |-> s, ctx |-> ctx]
PathV(p)        == [t |-> "path", p |-> p]
ListV(elems)    == [t |-> "list", elems |-> elems]
AttrsV(attrs)   == [t |-> "attrs", attrs |-> attrs]
Failing(kind)   == [t |-> "thunk", err |-> kind]

\* Outcomes: a value, or the error thrown.
Err(kind)  == [err |-> kind]
IsErr(r)   == "err" \in DOMAIN r
Yes        == [b |-> TRUE]
No         == [b |-> FALSE]

\* Functions (lambdas, primops, partial applications) are of type nFunction.
IsFunction(v) == v.t \in {"lambda", "primop", "primopapp"}

\* References to values.
C(c)   == [cell |-> c]
Box(v) == [val |-> v]
OnHeap(r) == "cell" \in DOMAIN r

\* forceValue on the value a reference points to.
Force(r) ==
  IF ~OnHeap(r) THEN r.val
  ELSE IF Heap[r.cell].t = "thunk" THEN Err(Heap[r.cell].err) ELSE Heap[r.cell]

\* The names of an attribute set in Bindings order.
Order(attrs) == SelectSeq(SymOrder, LAMBDA n : n \in DOMAIN attrs)

-----------------------------------------------------------------------------
(* eqValues                                                                *)

\* isDerivation: has a `type` attribute that forces to "derivation".
isDerivation(v) ==
  IF v.t # "attrs" \/ "type" \notin DOMAIN v.attrs THEN No
  ELSE LET ty == Force(v.attrs["type"])
       IN IF IsErr(ty) THEN ty
          ELSE [b |-> ty.t = "string" /\ ty.s = "derivation"]

RECURSIVE eqCells(_, _, _), eqList(_, _, _), eqAttrs(_, _, _)

\* eqValues(v1, v2) on the values of two cells; `top` when they are the
\* operator's own temporaries, which are never the same object.
eqCells(c1, c2, top) ==
  LET v1 == Force(c1)
      v2 == Force(c2)
  IN IF IsErr(v1) THEN v1
     ELSE IF IsErr(v2) THEN v2
     ELSE IF ~top /\ OnHeap(c1) /\ c1 = c2 THEN Yes
     ELSE IF v1.t \in {"int", "float"} /\ v2.t \in {"int", "float"} /\ v1.t # v2.t
       THEN [b |-> v1.n = v2.n]
     ELSE IF v1.t # v2.t THEN No
     ELSE CASE v1.t \in {"int", "float", "bool", "path"} -> [b |-> v1 = v2]
            [] v1.t = "string" -> [b |-> v1.s = v2.s]
            [] v1.t = "null" -> Yes
            [] v1.t = "list" ->
                 IF Len(v1.elems) # Len(v2.elems) THEN No ELSE eqList(v1.elems, v2.elems, 1)
            [] v1.t = "attrs" ->
                 LET d1 == isDerivation(v1)
                     d2 == isDerivation(v2)
                 IN IF IsErr(d1) THEN d1
                    ELSE IF d1.b /\ IsErr(d2) THEN d2
                    ELSE IF d1.b /\ d2.b /\ "outPath" \in DOMAIN v1.attrs
                            /\ "outPath" \in DOMAIN v2.attrs
                      THEN eqCells(v1.attrs["outPath"], v2.attrs["outPath"], FALSE)
                    ELSE IF Cardinality(DOMAIN v1.attrs) # Cardinality(DOMAIN v2.attrs) THEN No
                    ELSE eqAttrs(v1.attrs, v2.attrs, 1)
            [] IsFunction(v1) -> No

\* Seeded fault: only the first elements compared.
eqListFirst(l1, l2, n) == IF n > Len(l1) THEN Yes ELSE eqCells(l1[n], l2[n], FALSE)

\* The loop over list elements, stopping at the first unequal pair.
eqList(l1, l2, n) ==
  IF n > Len(l1) THEN Yes
  ELSE LET r == eqCells(l1[n], l2[n], FALSE)
       IN IF IsErr(r) \/ ~r.b THEN r ELSE eqList(l1, l2, n + 1)

\* The loop over two Bindings side by side.
eqAttrs(a1, a2, n) ==
  LET o1 == Order(a1)
      o2 == Order(a2)
  IN IF n > Len(o1) THEN Yes
     ELSE IF o1[n] # o2[n] THEN No
     ELSE LET r == eqCells(a1[o1[n]], a2[o2[n]], FALSE)
          IN IF IsErr(r) \/ ~r.b THEN r ELSE eqAttrs(a1, a2, n + 1)

-----------------------------------------------------------------------------
(* The update operator //                                                 *)

\* evalAttrs: the operand must force to an attribute set.
evalAttrs(c) ==
  LET v == Force(c)
  IN IF IsErr(v) THEN v ELSE IF v.t # "attrs" THEN Err("TypeError") ELSE v

\* `i->name < j->name` on Symbols.
SymLess(x, y) == \E k \in 1..Len(SymOrder) :
                   SymOrder[k] = x /\ y \in ToSet(SubSeq(SymOrder, k + 1, Len(SymOrder)))

\* One pass of the merge loop: the binding it inserts and what is left.
MergeStep(o1, o2, a1, a2) ==
  IF o1[1] = o2[1] THEN [out |-> <<<<o2[1], a2[o2[1]]>>>>, o1 |-> Tail(o1), o2 |-> Tail(o2)]
  ELSE IF SymLess(o1[1], o2[1])
    THEN [out |-> <<<<o1[1], a1[o1[1]]>>>>, o1 |-> Tail(o1), o2 |-> o2]
  ELSE [out |-> <<<<o2[1], a2[o2[1]]>>>>, o1 |-> o1, o2 |-> Tail(o2)]

\* The merge loop, then the two loops that copy what is left of either side.
RECURSIVE Merge(_, _, _, _)
Merge(o1, o2, a1, a2) ==
  IF o1 = <<>> THEN [k \in 1..Len(o2) |-> <<o2[k], a2[o2[k]]>>]
  ELSE IF o2 = <<>> THEN [k \in 1..Len(o1) |-> <<o1[k], a1[o1[k]]>>]
  ELSE LET st == MergeStep(o1, o2, a1, a2)
       IN st.out \o Merge(st.o1, st.o2, a1, a2)

\* The bindings inserted, as an attribute set.
FromBindings(bs) == [n \in {b[1] : b \in ToSet(bs)} |->
                       (CHOOSE b \in ToSet(bs) : b[1] = n)[2]]

\* ExprOpUpdate::eval: an empty side gives the other side itself.
update(c1, c2) ==
  LET v1 == evalAttrs(c1)
      v2 == evalAttrs(c2)
  IN IF IsErr(v1) THEN v1
     ELSE IF IsErr(v2) THEN v2
     ELSE IF DOMAIN v1.attrs = {} THEN v2
     ELSE IF DOMAIN v2.attrs = {} THEN v1
     ELSE AttrsV(FromBindings(Merge(Order(v1.attrs), Order(v2.attrs), v1.attrs, v2.attrs)))

-----------------------------------------------------------------------------
(* List concatenation ++                                                  *)

\* Seeded fault: a list is reused whenever one of them is non-empty.
concatListsReuseAny(cs) ==
  LET vs == [k \in 1..Len(cs) |-> Force(cs[k])]
      bad == SelectSeq(vs, LAMBDA v : IsErr(v) \/ v.t # "list")
  IN IF bad # <<>> THEN (IF IsErr(bad[1]) THEN bad[1] ELSE Err("TypeError"))
     ELSE LET ne == SelectSeq(vs, LAMBDA v : v.elems # <<>>)
          IN IF ne # <<>> THEN Last(ne)
             ELSE ListV(FoldLeft(LAMBDA acc, v : acc \o v.elems, <<>>, vs))

\* EvalState::concatLists: force every list in order; when all elements
\* come from one non-empty list, that list is the result itself.
concatLists(cs) ==
  LET vs == [k \in 1..Len(cs) |-> Force(cs[k])]
      bad == SelectSeq(vs, LAMBDA v : IsErr(v) \/ v.t # "list")
  IN IF bad # <<>> THEN (IF IsErr(bad[1]) THEN bad[1] ELSE Err("TypeError"))
     ELSE LET len == FoldLeft(LAMBDA acc, v : acc + Len(v.elems), 0, vs)
              ne  == SelectSeq(vs, LAMBDA v : v.elems # <<>>)
          IN IF ne # <<>> /\ len = Len(Last(ne).elems) THEN Last(ne)
             ELSE ListV(FoldLeft(LAMBDA acc, v : acc \o v.elems, <<>>, vs))

-----------------------------------------------------------------------------
(* Selection e.a.b or d, and e ? a.b                                       *)

\* No `or` default.
NoDef == [none |-> TRUE]

\* Seeded fault: a missing attribute is an error even with a default.
RECURSIVE SelectNoDefaultOnMissing(_, _, _)
SelectNoDefaultOnMissing(c, path, def) ==
  LET v == Force(c)
  IN IF path = <<>> THEN v
     ELSE IF IsErr(v) THEN v
     ELSE IF v.t # "attrs" THEN (IF def # NoDef THEN Force(def) ELSE Err("TypeError"))
     ELSE IF Head(path) \notin DOMAIN v.attrs THEN Err("attribute missing")
     ELSE SelectNoDefaultOnMissing(v.attrs[Head(path)], Tail(path), def)

\* The loop of ExprSelect::eval: force the current value, take the default
\* (def = NoDef when there is none) if it is not a set or lacks the name, else
\* step into the attribute; force the value reached.
RECURSIVE SelectFrom(_, _, _)
SelectFrom(c, path, def) ==
  LET v == Force(c)
  IN IF path = <<>> THEN v
     ELSE IF IsErr(v) THEN v
     ELSE IF v.t # "attrs" THEN (IF def # NoDef THEN Force(def) ELSE Err("TypeError"))
     ELSE IF Head(path) \notin DOMAIN v.attrs
       THEN (IF def # NoDef THEN Force(def) ELSE Err("attribute missing"))
     ELSE SelectFrom(v.attrs[Head(path)], Tail(path), def)

select(c, path, def) == SelectFrom(c, path, def)

\* ExprOpHasAttr::eval: forces every value on the path but the last.
RECURSIVE hasAttr(_, _)
hasAttr(c, path) ==
  IF path = <<>> THEN Yes
  ELSE LET v == Force(c)
       IN IF IsErr(v) THEN v
          ELSE IF v.t # "attrs" \/ Head(path) \notin DOMAIN v.attrs THEN No
          ELSE hasAttr(v.attrs[Head(path)], Tail(path))

-----------------------------------------------------------------------------
(* forceValueDeep                                                          *)

\* Seeded fault: lists are not walked.
KidsNoLists(v) ==
  CASE v.t = "attrs" -> [k \in 1..Len(Order(v.attrs)) |-> v.attrs[Order(v.attrs)[k]]]
    [] OTHER         -> <<>>

\* The values forceValueDeep recurses into: a set's attributes in Bindings
\* order, a list's elements in order.
Kids(v) ==
  CASE v.t = "attrs" -> [k \in 1..Len(Order(v.attrs)) |-> v.attrs[Order(v.attrs)[k]]]
    [] v.t = "list"  -> v.elems
    [] OTHER         -> <<>>

\* `recurse` in forceValueDeep: st is [seen |-> the values visited] or the
\* error thrown.  A value already in `seen` is skipped; otherwise it is
\* inserted, forced, and its components walked.
RECURSIVE DeepVisit(_, _)
DeepVisit(r, st) ==
  IF IsErr(st) \/ r \in st.seen THEN st
  ELSE LET v == Force(r)
       IN IF IsErr(v) THEN v
          ELSE FoldLeft(LAMBDA acc, x : DeepVisit(x, acc), [seen |-> st.seen \cup {r}], Kids(v))

DeepOutcome(r, st) == IF IsErr(st) THEN st ELSE Force(r)

\* EvalState::forceValueDeep(v): the error of the first component that
\* throws, else the value itself.
forceValueDeep(r) == DeepOutcome(r, DeepVisit(r, [seen |-> {}]))

====
