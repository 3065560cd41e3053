------------------------------- MODULE Cloning -------------------------------
(***************************************************************************)
(* The native clone (src/src/native.cc): a copy of a value, with copies of *)
(* the objects it leads to, or with those themselves.                      *)
(*                                                                         *)
(* c is a clone in the making: the heap, and which object is the copy of   *)
(* which (0 while it has none); val is the copy of the value.              *)
(***************************************************************************)
EXTENDS Serialization

Made(v, c) == [c EXCEPT !.val = v]

\* A new object with nothing in its members, known as the copy of o.
addCloneInfo(c, o, obj) ==
    [c EXCEPT !.heap = Append(@, [obj EXCEPT !.members = [x \in DOMAIN @ |-> NoValue]]),
              !.info[o] = Len(c.heap) + 1]

RECURSIVE clone(_, _, _), CloneAll(_, _, _, _), cloneBlock(_, _, _, _, _)

\* The elements from the i-th on; keys and values.
CloneAll(parts, i, pairs, c) ==
    IF i > Len(parts) THEN Made(parts, c)
    ELSE LET k == IF pairs THEN clone(parts[i][1], TRUE, c) ELSE c
             d == clone(IF pairs THEN parts[i][2] ELSE parts[i], TRUE, k)
         IN CloneAll([parts EXCEPT ![i] = IF pairs THEN <<k.val, d.val>> ELSE d.val], i + 1, pairs, d)

\* The members of obj, in the order of xs, go to the object to.
cloneBlock(obj, xs, to, recurse, c) ==
    IF xs = <<>> THEN Made(Reference(to), c)
    ELSE LET old == obj.members[xs[1]]
             d == IF recurse THEN clone(old, TRUE, c) ELSE Made(old, c)
         IN cloneBlock(obj, Tail(xs), to, recurse, [d EXCEPT !.heap[to].members[xs[1]] = d.val])

\* Whole numbers of all types become integers, and what has no case none.
clone(v, recurse, c) ==
    CASE v.type \in {"integer", "bool", "char", "byte"} -> Made(Number("integer", v.num), c)
      [] v.type \in {"vector", "map"} ->
            LET d == IF recurse THEN CloneAll(v.parts, 1, v.type = "map", c) ELSE Made(v.parts, c)
            IN Made([v EXCEPT !.parts = d.val], d)
      [] v.type = "object" ->
            IF v.ref = 0 THEN Made(v, c)
            ELSE IF c.info[v.ref] # 0 THEN Made(Reference(c.info[v.ref]), c)
            ELSE cloneBlock(c.heap[v.ref], AllVariables(c.heap[v.ref].class), Len(c.heap) + 1, recurse,
                            addCloneInfo(c, v.ref, c.heap[v.ref]))
      [] v.type \in {"closure", "interface", "memory", "pointer"} -> Made(NoValue, c)
      [] OTHER -> Made(v, c)

cloned(v, heap, recurse) == clone(v, recurse, [val |-> v, heap |-> heap, info |-> [o \in DOMAIN heap |-> 0]])
==============================================================================
