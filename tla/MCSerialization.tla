--------------------------- MODULE MCSerialization ---------------------------
(***************************************************************************)
(* Values of every type, in vectors and maps, and two objects that refer   *)
(* to each other and to themselves: what comes back of them from each      *)
(* format.                                                                 *)
(***************************************************************************)
EXTENDS Integers, Sequences, SequencesExt, FiniteSets, FiniteSetsExt, TLC

\* C has a parameter p and a variable x; D extends it; a nested class H is not
\* found by its name.
TopLevel == {"C", "D"}
Extended == [C |-> "", D |-> "C", H |-> ""]
Variables == [C |-> <<"p", "x">>, D |-> <<"y">>, H |-> <<"x">>]
Parameters == [C |-> {"p"}, D |-> {}, H |-> {}]

INSTANCE Cloning

Atoms == {Number("integer", n) : n \in {0, 5, -1, 64, -8200}} \cup {Number("bool", 1), Number("bool", 0)}
         \cup {Letter(c) : c \in {"a", "<", "\""}} \cup {Number("byte", n) : n \in {7, 200}}
         \cup {Number("real", n) : n \in {20, 25, -5}}
         \cup {String(s) : s \in {<<>>, <<"a", "b">>, <<"a", "<", "b">>, <<"\"">>, <<"\\">>}}
         \cup {Reference(0), Number("function", 0), NoValue,
               Val("bytevector", 0, <<>>, <<1, 200>>, 0), Vector(<<>>), MapOf(<<>>)}

Keys == {String(<<"a">>), String(<<"b">>), Number("integer", 3)}
Compounds == {Vector(<<a>>) : a \in Atoms}
             \cup {Vector(<<a, Number("integer", 1)>>) : a \in Atoms}
             \cup {MapOf(<< <<k, a>> >>) : k \in Keys, a \in Atoms}
             \cup {MapOf(<< <<String(<<"a">>), a>>, <<String(<<"b">>), Number("integer", 1)>> >>) : a \in Atoms}

\* The objects that members and elements refer to are 1 and 2.
Members == {Number("integer", 5), Reference(0), Reference(1), Reference(2), Vector(<<Reference(2)>>)}
ObjectOf(c, isMonitor, p, x) ==
    [class |-> c, monitor |-> isMonitor,
     members |-> [z \in ToSet(AllVariables(c)) |-> CASE z = "p" -> p [] z = "x" -> x [] OTHER -> Number("integer", 7)]]
Heaps == { <<ObjectOf("C", m, p, x), ObjectOf(c, FALSE, q, y)>> :
              m \in BOOLEAN, c \in {"C", "D", "H"}, p \in Members, x \in Members,
              q \in {Number("integer", 0), Reference(1)}, y \in Members }
Graphs == { [val |-> Reference(1), heap |-> h] : h \in Heaps }
          \cup { [val |-> Vector(<<Reference(1), Reference(2), Reference(1)>>), heap |-> h] :
                    h \in {g \in Heaps : g[1].members["p"] = Number("integer", 5)} }

Inputs == { [val |-> a, heap |-> <<>>] : a \in Atoms \cup Compounds } \cup Graphs

-----------------------------------------------------------------------------
\* The objects that v refers to, and those they do.
RECURSIVE Direct(_)
Direct(v) == CASE v.type = "object" -> {v.ref} \ {0}
               [] v.type = "vector" -> UNION {Direct(v.parts[i]) : i \in DOMAIN v.parts}
               [] v.type = "map" -> UNION {Direct(v.parts[i][2]) : i \in DOMAIN v.parts}
               [] OTHER -> {}
DirectOf(heap, o) == UNION {Direct(heap[o].members[x]) : x \in DOMAIN heap[o].members}
RECURSIVE Reached(_, _)
Reached(heap, os) == LET more == os \cup UNION {DirectOf(heap, o) : o \in os}
                     IN IF more = os THEN os ELSE Reached(heap, more)

Acyclic(heap, os) == \A o \in os : o \notin Reached(heap, DirectOf(heap, o))

\* What v is, objects followed to a depth.
RECURSIVE Unfold(_, _, _)
Unfold(heap, v, depth) ==
    [v EXCEPT !.ref = IF v.type = "object" /\ v.ref # 0 THEN 1 ELSE 0,
              !.text = IF v.type = "object" /\ v.ref # 0 THEN <<heap[v.ref].class, heap[v.ref].monitor>> ELSE @,
              !.parts =
       CASE v.type = "vector" -> {<<Number("at", i), Unfold(heap, v.parts[i], depth)>> : i \in DOMAIN v.parts}
         [] v.type = "map" -> {<<v.parts[i][1], Unfold(heap, v.parts[i][2], depth)>> : i \in DOMAIN v.parts}
         [] v.type = "object" /\ v.ref # 0 /\ depth > 0 ->
              {<<String(<<x>>), Unfold(heap, heap[v.ref].members[x], depth - 1)>> :
                  x \in DOMAIN heap[v.ref].members}
         [] v.type = "bytevector" -> {<<Number("at", i), Number("byte", v.parts[i])>> : i \in DOMAIN v.parts}
         [] OTHER -> {}]

\* The same value, of as many objects.
Same(p, q) == /\ Unfold(p.heap, p.val, 4) = Unfold(q.heap, q.val, 4)
              /\ Cardinality(Reached(p.heap, Direct(p.val))) = Cardinality(Reached(q.heap, Direct(q.val)))

-----------------------------------------------------------------------------
(***************************************************************************)
(* What a format brings back, by what its reader does with what its writer *)
(* wrote.                                                                  *)
(***************************************************************************)
Escaped == {"\"", "<", ">", "&"}

AtomReturns(v, format) ==
    CASE format = "xml" -> \/ v.type \in {"bool", "real"}
                           \/ v.type = "integer" /\ v.num >= 0
                           \/ v.type = "char" /\ v.text # <<"\"">>
                           \/ v.type = "string" /\ ToSet(v.text) \cap Escaped = {}
      [] format \in {"json", "export"} ->
           \/ v.type \in {"bool", "integer", "object"}
           \/ v.type = "real" /\ v.num % 10 # 0
           \/ v.type = "string" /\ ToSet(v.text) \cap (Escaped \cup {"\\"}) = {}
      [] format = "binary" -> v.type \notin Formless /\ v.type # "object"

\* All of v does, objects aside.
RECURSIVE Returns(_, _)
Returns(v, format) ==
    CASE v.type = "vector" -> \A i \in DOMAIN v.parts : Returns(v.parts[i], format)
      [] v.type = "map" ->
           /\ \A i \in DOMAIN v.parts : Returns(v.parts[i][1], format) /\ Returns(v.parts[i][2], format)
           /\ format \in {"json", "export"} =>
                 v.parts # <<>> /\ \A i \in DOMAIN v.parts : v.parts[i][1].type = "string"
      [] OTHER -> (v.type = "object" /\ v.ref # 0) \/ AtomReturns(v, format)

\* The objects o refers to, with how often: directly and through vectors.
References(heap, o) == [p \in DOMAIN heap |->
    LET held(x) == heap[o].members[x]
    IN [direct |-> Cardinality({x \in DOMAIN heap[o].members : held(x) = Reference(p)}),
        through |-> Cardinality({x \in DOMAIN heap[o].members : held(x).type = "vector" /\ p \in Direct(held(x))})]]

\* Nobody but p itself, and one other, refers to p; itself as the value of a
\* member.
Tree(heap, os, v) ==
    \A p \in os :
       /\ References(heap, p)[p].through = 0
       /\ FoldSet(LAMBDA o, n : n + References(heap, o)[p].direct + References(heap, o)[p].through,
                  IF v.type = "object" THEN (IF v.ref = p THEN 1 ELSE 0)
                  ELSE Cardinality({i \in DOMAIN v.parts : v.parts[i] = Reference(p)}), os \ {p}) = 1

\* A class is found by its name alone; what an object inherited is lost, and so
\* are references to what is not there yet, and, in JSON, what kind a monitor is.
Kept(x, format) ==
    LET os == Reached(x.heap, Direct(x.val))
    IN /\ Returns(x.val, format)
       /\ \A o \in os :
            LET obj == x.heap[o]
            IN /\ \A z \in DOMAIN obj.members : Returns(obj.members[z], format)
               /\ format # "export" =>
                     /\ obj.class \in TopLevel
                     /\ \A z \in DOMAIN obj.members \ ToSet(Variables[obj.class]) :
                           obj.members[z] = Initial(Owner(obj.class, z), z)
               /\ format = "json" => ~obj.monitor
       /\ format = "json" => Tree(x.heap, os, x.val)
       /\ format \in {"binary", "export"} => Acyclic(x.heap, os)

\* For another program, an object is a map of its members.
RECURSIVE Exported(_, _)
Exported(heap, v) ==
    CASE v.type = "object" /\ v.ref # 0 ->
           MapOf(SetToSeq({<<String(<<z>>), Exported(heap, heap[v.ref].members[z])>> :
                              z \in DOMAIN heap[v.ref].members}))
      [] v.type = "vector" -> Vector([i \in DOMAIN v.parts |-> Exported(heap, v.parts[i])])
      [] v.type = "map" -> MapOf([i \in DOMAIN v.parts |-> <<v.parts[i][1], Exported(heap, v.parts[i][2])>>])
      [] OTHER -> v

\* (r is what was read.)
ComesBack(x, format, r) ==
    /\ r.d.bad = ""
    /\ Same(IF format = "export" THEN [val |-> Exported(x.heap, x.val), heap |-> <<>>] ELSE x,
            [val |-> r.val, heap |-> r.d.heap])

\* What the copy of a value is: whole numbers as integers.
RECURSIVE Copied(_)
Copied(v) == CASE v.type \in {"bool", "char", "byte"} -> Number("integer", v.num)
               [] v.type = "vector" -> Vector([i \in DOMAIN v.parts |-> Copied(v.parts[i])])
               [] v.type = "map" -> MapOf([i \in DOMAIN v.parts |-> <<v.parts[i][1], Copied(v.parts[i][2])>>])
               [] OTHER -> v

\* A deep copy is the same value, of as many objects, all of them new; a shallow
\* one is new at its top and has the parts of the original.  The original stays.
CloneRight(x) ==
    LET Old == DOMAIN x.heap
        held(r, o, z) == r.heap[o].members[z]
    IN \A deep \in {cloned(x.val, x.heap, TRUE)}, flat \in {cloned(x.val, x.heap, FALSE)} :
         /\ Same([x EXCEPT !.val = Copied(@)], deep)
         /\ Reached(deep.heap, Direct(deep.val)) \cap Old = {}
         /\ SubSeq(deep.heap, 1, Len(x.heap)) = x.heap /\ SubSeq(flat.heap, 1, Len(x.heap)) = x.heap
         /\ x.val.type \in {"vector", "map"} => flat.val = x.val
         /\ x.val.type = "object" /\ x.val.ref # 0 =>
               /\ flat.val.ref \notin Old
               /\ \A z \in DOMAIN x.heap[x.val.ref].members :
                     held(flat, flat.val.ref, z) = held(x, x.val.ref, z)

\* Text that the XML parser is to skip: before, after and between elements.
Noise == {<<"<", "?xml", " ", "v", "=", "1", "?", ">", "\n">>,
          <<"\n", "<", "!", "-", "-", " ", "<", "a", ">", "-", " ", "-", "-", ">", " ">>}
=============================================================================
