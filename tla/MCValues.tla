------------------------------ MODULE MCValues ------------------------------
(***************************************************************************)
(* Three values of one kind, and what the operators promise of them.       *)
(***************************************************************************)
EXTENDS FixedTypes

VARIABLES kind, x, y, z

vars == <<kind, x, y, z>>

\* Two enumerations, 1 and 2, and the classes 3 and 4, which extends 3; object
\* 1 has no operators, object 2 two of them.
ModelEnums == << <<0, 1, 3>>, <<1, 1>> >>
ModelSuper == <<0, 0, 0, 3>>
ModelOverloads == << {}, {"==", "<"} >>

V(t, S) == [type : {t}, v : S]

Smallest == -2^(Width - 1)
Wholes == V("integer", (-5)..5 \cup {Smallest, Smallest + 1, 100, -Smallest - 1})
Reals == V("real", {-3, -1, 1, 2, 3})
Chars == V("char", {0, 48, 49})
Bools == V("bool", {0, 1})
Strings == V("string", {<<>>, <<Digit0>>, <<Digit0 + 1>>, <<Minus, Digit0 + 1>>,
                        <<Digit0 + 1, Digit0>>, <<Digit0, LetterX, 97>>})
Constants == {EnumConst(e, i) : e \in {1, 2}, i \in {0, 1}} \cup {EnumConst(1, 2)}
Objects == V("object", {0, 1, 2})
Elements == {Integer(0), Integer(1), Real(1), [type |-> "char", v |-> 1]}
Shiftables == {Vector(s) : s \in SeqOf(Elements, 3)}
              \cup {String(s) : s \in SeqOf({97, 98}, 2)} \cup {Bytes(s) : s \in SeqOf({0, 1}, 2)}
Others == V("byte", {0, 255}) \cup {Vector(<<String(<<>>)>>), Map(<<>>),
           Map(<< <<Integer(1), String(<<>>)>> >>), None,
           [type |-> "stream", v |-> 1], [type |-> "memory", v |-> <<0, 4>>],
           [type |-> "pointer", v |-> <<1, 4>>], [type |-> "closure", v |-> 3],
           [type |-> "class", v |-> 3], [type |-> "class", v |-> 4],
           [type |-> "function", v |-> 3], [type |-> "enum", v |-> 1]}
Few == {Integer(Smallest), Integer(-1), Integer(0), Integer(1), Integer(7), Vector(<<>>),
        Vector(<<Integer(1), Integer(1)>>), Bytes(<<>>), Bytes(<<49>>)}

All == [whole |-> Wholes,
        scalar |-> Few \cup Reals \cup Chars \cup Bools \cup Constants \cup Strings,
        number |-> Wholes \cup Reals \cup Bools,
        string |-> Strings,
        enum |-> {EnumConst(1, i) : i \in 0..2},
        object |-> Objects,
        sequence |-> Shiftables,
        any |-> Few \cup Reals \cup Chars \cup Bools \cup Strings \cup Constants
                \cup Objects \cup Others]

Init == /\ kind = "none"
        /\ x = None /\ y = None /\ z = None

\* Three values are chosen; of sequences, and of values of all types, two.
Choose == /\ kind = "none"
          /\ kind' \in DOMAIN All
          /\ x' \in All[kind'] /\ y' \in All[kind']
          /\ IF kind' \in {"sequence", "any", "scalar", "whole"} THEN z' = None ELSE z' \in All[kind']

Spec == Init /\ [][Choose]_vars

-----------------------------------------------------------------------------
IsTrue(r) == r = Bool(TRUE)
Decides(r) == r.type = "bool"

Datum(r) == CASE r.type = "integer" -> r.v \in Smallest..(-Smallest - 1)
              [] r.type = "bool" -> r.v \in {0, 1}
              [] r.type \in {"string", "bytevector"} -> r.v \in Seq(0..399)
              [] r.type = "enumconst" -> r.v[2] \in 0..(Len(Enums[r.v[1]]) - 1)
              [] r.type = "pointer" -> r.v[1] \in 0..(r.v[2] - 1)
              [] OTHER -> TRUE

\* Whatever two values an operator is given, it gives a value that its type
\* holds, or throws: no pair of types is left without an answer by the switches,
\* integers wrap, pointers stay in their memory and constants in their
\* enumeration.
Closed ==
    kind = "any" =>
        \A r \in {cmpeq(x, y), cmpne(x, y), cmplt(x, y), cmpgt(x, y), cmple(x, y), cmpge(x, y),
                  add(x, y), sub(x, y), mul(x, y), div(x, y), mod(x, y), sra(x, y), srl(x, y),
                  sll(x, y), bitwiseand(x, y), bitwiseor(x, y), bitwisexor(x, y), uminus(x),
                  boolnot(x), comp(x), dosizeof(x), in(x, y), inrange(x, y, y), cast(y, x)} :
            Datum(r)

\* The four orders and the two equalities, which are separate pieces of code,
\* tell the same story: x < y is y > x, <= and >= are their opposites, != is
\* the opposite of ==, and numbers and strings are always in exactly one of
\* the three relations.  A number to the left of a constant is the exception,
\* as > takes it for <.
OrderAgrees ==
    kind \in {"scalar", "number"} /\ ~(x.type \in Whole /\ y.type = "enumconst")
                                  /\ ~(y.type \in Whole /\ x.type = "enumconst") =>
        /\ cmplt(x, y) = cmpgt(y, x)
        /\ cmple(x, y) = cmpge(y, x)
        /\ cmpeq(x, y) = cmpeq(y, x)
        /\ Decides(cmple(x, y)) => IsTrue(cmple(x, y)) = ~IsTrue(cmpgt(x, y))
        /\ Decides(cmpne(x, y)) => IsTrue(cmpne(x, y)) = ~IsTrue(cmpeq(x, y))
        /\ Numbers(x, y) \/ Texts(x, y) =>
              Cardinality({f \in {"<", "=", ">"} :
                  IsTrue(CASE f = "<" -> cmplt(x, y) [] f = "=" -> cmpeq(x, y)
                           [] f = ">" -> cmpgt(x, y))}) = 1

\* A map finds every key that was put in, under the value it was first put in
\* with, as long as the keys are all numbers, all strings, constants of one
\* enumeration or objects: less orders these, and a mixture not.
KeysFound ==
    kind \in {"number", "string", "enum", "object"} =>
        LET m == insert(insert(insert(<<>>, x, Integer(1)), y, Integer(2)), z, Integer(3))
            same(a, b) == ~less(a, b) /\ ~less(b, a)
            value(k) == m[CHOOSE i \in At(m, k) : TRUE][2]
        IN /\ \A k \in {x, y, z} : Cardinality(At(m, k)) = 1
           /\ \A i, j \in DOMAIN m : i < j => less(m[i][1], m[j][1])
           /\ value(x) = Integer(1)
           /\ value(y) = IF same(x, y) THEN Integer(1) ELSE Integer(2)

\* Comparisons are one order, which a map finds its keys by.
ComparisonsAgree == OrderAgrees /\ KeysFound

\* The operators |, & and - on vectors of numbers are the union, the
\* intersection and the symmetric difference of sets: the union has no
\* duplicates, holds what either has, and falls apart in the other two; the
\* operator in, which compares in another way, agrees.
SetLaws ==
    kind = "sequence" /\ Both(x, y, {"vector"}) =>
        LET u == bitwiseor(x, y).v
            i == bitwiseand(x, y).v
            d == sub(x, y).v
        IN /\ \A j, k \in DOMAIN u : Same(u[j], u[k]) => j = k
           /\ \A e \in Elements :
                 /\ Has(u, e) <=> Has(x.v, e) \/ Has(y.v, e)
                 /\ Has(i, e) <=> Has(x.v, e) /\ Has(y.v, e)
                 /\ Has(d, e) <=> Has(u, e) /\ ~Has(i, e)
                 /\ Has(x.v, e) <=> in(e, x) = Integer(1)

\* << drops from the front of a sequence what >> leaves when it drops the rest
\* from the end, so the two give the sequence back; dropping more than there is
\* leaves nothing.
ShiftsSplit ==
    kind = "sequence" =>
        \A k \in 0..(Len(x.v) + 1) :
            LET n == Integer(k)
                back == sra(x, Integer(Len(x.v) - k))
                front == sll(x, n)
            IN IF k <= Len(x.v)
               THEN add(back, front) = x /\ srl(x, Integer(Len(x.v) - k)) = back
               ELSE front.v = <<>> /\ sra(x, n).v = <<>>

\* Going n constants on and n back leads to the same constant; the number may
\* be on either side; n constants on is greater; and no step leaves the
\* enumeration.
EnumSteps ==
    kind = "enum" =>
        \A k \in 0..3 :
            LET n == Integer(k)
                up == add(x, n)
            IN /\ up = add(n, x)
               /\ up # Beyond => sub(up, n) = x /\ (k > 0 => IsTrue(cmplt(x, up)))
               /\ up = Beyond <=> k >= Len(Enums[1]) - x.v[2]
               /\ sub(x, n) = Beyond <=> k > x.v[2]

\* For integers x and y the quotient times y, plus the remainder, is x, and the
\* remainder has x's sign and is less than y; / and % are two functions with
\* checks of their own.
DivisionIdentity ==
    kind = "whole" /\ y.v # 0 /\ ~(x.v = Smallest /\ y.v = -1) =>
        LET q == div(x, y)
            r == mod(x, y)
        IN /\ add(mul(q, y), r) = x
           /\ r.v # 0 => (r.v < 0 <=> x.v < 0)
           /\ r.v < y.v \/ r.v < -y.v

\* What the parser knows of a node's type holds of its value, as long as it holds
\* of the operands, and the instruction chosen for that type, which does not look
\* at the values, gives what the one that does gives; a variable takes it, or
\* refuses it, like any other value, and a return hands it on.  (Remainders are
\* as said at Modulo, those of reals by zero an error for the one instruction and
\* no number for the other; what a class's own ! and sizeof return is not known.)
TypesHold ==
    kind \in {"any", "whole"} =>
        \A op \in Comparing \cup Arithmetic \cup Bitwise2 \cup OneOperand, t \in StaticTypes :
            (t = "none" \/ Alike(x.type, t)) /\ (op \in OneOperand \/ t = "none" \/ Alike(y.type, t)) =>
                \A suffix \in {Opcode(op, t, t)}, static \in {propagateFlags(op, t, t)},
                   general \in {General(op, x, y)}, place \in IF op = "%" THEN Places ELSE {"literal"} :
                   \A r \in {IF suffix = "" THEN general
                             ELSE Fixed(op, suffix, x, IF op \in OneOperand THEN x ELSE y, place)} :
                        /\ \/ r = general \/ general = NotANumber \/ place = "register 0"
                           \/ place = "elsewhere" /\ y.v = 0
                        /\ \/ r.type \in {"error", "called"} \/ static = "none"
                           \/ Alike(r.type, static) /\ Alike(ReturnedAs(static, r).type, r.type)
                        /\ suffix # "" /\ r.type # "error" =>
                              \A old \in {x, y, z} : Given(old, r) = setVariable({"fixed"}, old, r)

\* The laws of the operators on numbers, constants and vectors, whose cases by
\* type are written out one by one in the code.
OperatorLaws == Closed /\ TypesHold /\ SetLaws /\ ShiftsSplit /\ EnumSteps /\ DivisionIdentity

\* What is cast to a string and back is what it was: integers, reals, truth
\* values and constants.  The smallest integer comes back one greater, as its
\* digits are converted without their sign.
CastsReturn ==
    LET To == [integer |-> Integer(0), real |-> Real(0), bool |-> Bool(FALSE),
               enumconst |-> [type |-> "enum", v |-> 1]]
    IN \/ kind \in {"whole", "enum"}
       \/ kind = "number" /\ x.type \in {"real", "bool"}
       \/ kind = "scalar" /\ x.type = "real"
       => \A via \in {String(<<>>)} \cup (IF kind = "enum" THEN {Integer(0)} ELSE {}) :
              cast(To[x.type], cast(via, x)) = IF x = Integer(Smallest) THEN Integer(x.v + 1) ELSE x

=============================================================================
