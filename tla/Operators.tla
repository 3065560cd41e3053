----------------------------- MODULE Operators ------------------------------
(***************************************************************************)
(* The operators that make new values: add to comp, in, dosizeof and       *)
(* convertType of src/src/interpret.cc, with the set operations of         *)
(* src/src/value.cc.  An operator never changes its operands.              *)
(***************************************************************************)
EXTENDS Values, Bitwise

Byte(n) == n % 256

-----------------------------------------------------------------------------
\* Vectors as sets: elements are told apart by Value::operator==.

Has(s, x) == \E i \in DOMAIN s : Same(s[i], x)

\* An element of s comes as often as t has it.
Common(s, t) ==
    FlattenSeq([i \in DOMAIN s |->
        [j \in 1..Cardinality({k \in DOMAIN t : Same(s[i], t[k])}) |-> s[i]]])

\* A mutant: the second operand's duplicates stay.
Union_KeepsDuplicates(s, t) ==
    FoldLeft(LAMBDA r, x : IF Has(r, x) THEN r ELSE Append(r, x), <<>>, s) \o t

Union(s, t) == FoldLeft(LAMBDA r, x : IF Has(r, x) THEN r ELSE Append(r, x), <<>>, s \o t)

\* What is in one of the two only; the elements of s are looked for in what
\* was taken from s.
Difference(s, t) == LET common == Common(s, t)
                    IN SelectSeq(s \o t, LAMBDA x : ~Has(common, x))

\* The bytes of a vector of bytes as values.
AsBytes(s) == [i \in DOMAIN s |-> [type |-> "byte", v |-> s[i]]]
SetOf(op(_, _), x, y) ==
    IF x.type = "vector" THEN Vector(op(x.v, y.v))
    ELSE LET r == op(AsBytes(x.v), AsBytes(y.v)) IN Bytes([i \in DOMAIN r |-> r[i].v])

-----------------------------------------------------------------------------
\* Maps.  std::map finds a key that is neither less nor greater.

At(m, k) == {i \in DOMAIN m : ~less(m[i][1], k) /\ ~less(k, m[i][1])}

\* map::insert: a key that is there keeps its value.
insert(m, k, x) ==
    IF At(m, k) # {} THEN m
    ELSE LET n == Cardinality({i \in DOMAIN m : less(m[i][1], k)})
         IN SubSeq(m, 1, n) \o <<<<k, x>>>> \o SubSeq(m, n + 1, Len(m))

MapSum(s, t) == FoldLeft(LAMBDA m, p : insert(m, p[1], p[2]), <<>>, s \o t)

-----------------------------------------------------------------------------
\* Arithmetic.

Overloaded(op, x, y, r) == IF checkForOperator(x, op) THEN Called(op, x, y) ELSE r

\* A pointer into raw memory of the size v[2], at v[1].
Pointer(n, size) == IF n >= 0 /\ n < size THEN [type |-> "pointer", v |-> <<n, size>>]
                                          ELSE Beyond

\* What goes in front of a vector or a vector of bytes.
Before(x, y) == IF y.type = "vector" THEN Vector(<<x>> \o y.v)
                ELSE Bytes(<<Byte(IF x.type = "real" THEN Quotient(x.v, Unit) ELSE getInt(x))>> \o y.v)

AddWhole(x, y) ==
    CASE y.type \in Whole -> Integer(x.v + y.v)
      [] y.type = "real" -> Real(Scaled(x) + y.v)
      [] y.type = "string" -> String(toString(x) \o y.v)
      [] y.type = "enumconst" -> nextValue(y, x.v)
      [] y.type \in {"vector", "bytevector"} -> Before(x, y)
      [] OTHER -> Illegal

AddReal(x, y) ==
    CASE y.type \in Numeric -> Real(x.v + Scaled(y))
      [] y.type = "string" -> String(toString(x) \o y.v)
      [] y.type \in {"vector", "bytevector"} -> Before(x, y)
      [] OTHER -> Illegal

AddString(x, y) ==
    CASE y.type \in Numeric \cup {"string"} -> String(x.v \o toString(y))
      [] y.type \in Named \cup {"enumconst"} -> String(x.v \o Name(y))
      [] y.type = "none" -> String(x.v \o <<110, 111, 110, 101>>)
      [] y = Null -> String(x.v \o <<110, 117, 108, 108>>)
      [] y.type = "object" /\ y # Null -> Called("toString", y, x)
      [] y.type = "vector" -> Before(x, y)
      [] OTHER -> Illegal

\* Anything goes at the end of a vector.
AddCollection(x, y) ==
    CASE x.type = "vector" -> IF y.type = "vector" THEN Vector(x.v \o y.v)
                              ELSE Vector(Append(x.v, y))
      [] x.type = "bytevector" ->
            IF y.type = "bytevector" THEN Bytes(x.v \o y.v)
            ELSE IF isIntegral(y) THEN Bytes(Append(x.v, Byte(getInt(y)))) ELSE Nothing
      [] x.type = "map" -> IF y.type = "map" THEN Map(MapSum(x.v, y.v)) ELSE Illegal

AddNamed(x, y) ==
    CASE y.type = "string" -> String(Name(x) \o y.v)
      [] y.type = "vector" \/ (y.type = "bytevector" /\ x.type = "enumconst") -> Before(x, y)
      [] x.type = "enumconst" /\ y.type = "integer" -> nextValue(x, y.v)
      [] OTHER -> Illegal

\* The memory, or the pointer, moved by y.
Moved(x, y) ==
    IF isIntegral(y)
    THEN Pointer((IF x.type = "pointer" THEN x.v[1] ELSE 0) + getInt(y), x.v[2])
    ELSE Illegal

add(x, y) == Overloaded("+", x, y,
    CASE x.type \in Whole -> AddWhole(x, y)
      [] x.type = "real" -> AddReal(x, y)
      [] x.type = "string" -> AddString(x, y)
      [] x.type \in {"vector", "bytevector", "map"} -> AddCollection(x, y)
      [] x.type \in Named \cup {"enumconst"} -> AddNamed(x, y)
      [] x.type = "object" /\ y.type = "vector" -> Before(x, y)
      [] x.type \in {"memory", "pointer"} -> Moved(x, y)
      [] OTHER -> Illegal)

\* A pointer less a number is the pointer plus it, and so is raw memory; an
\* object whose class does not define the operator is taken for raw memory.
sub(x, y) == Overloaded("-", x, y,
    CASE Both(x, y, Whole) -> Integer(x.v - y.v)
      [] Numbers(x, y) /\ ~Both(x, y, Whole) -> Real(Scaled(x) - Scaled(y))
      [] x.type \in Whole /\ y.type = "enumconst" -> prevValue(y, x.v)
      [] x.type = "enumconst" /\ y.type = "integer" -> prevValue(x, y.v)
      [] Collections(x, y) /\ x.type # "map" -> SetOf(Difference, x, y)
      [] x.type \in {"memory", "pointer"} -> Moved(x, y)
      [] x.type = "object" /\ isIntegral(y) -> Undefined
      [] OTHER -> Illegal)

mul(x, y) == Overloaded("*", x, y,
    IF Both(x, y, Whole) THEN Integer(x.v * y.v)
    ELSE IF Numbers(x, y) THEN Real(Quotient(Scaled(x) * Scaled(y), Unit))
    ELSE Illegal)

\* The smallest integer divided by -1 is no integer.
Divided(f(_, _), a, b) == IF b = 0 THEN Zero
                          ELSE IF a = -2^(Width - 1) /\ b = -1 THEN Undefined
                          ELSE Integer(f(a, b))

\* A mutant: the quotient is cut downwards.
div_Floor(x, y) ==
    IF Both(x, y, Whole) THEN Divided(LAMBDA a, b : a \div b, x.v, y.v)
    ELSE IF ~Numbers(x, y) THEN Illegal
    ELSE IF y.v = 0 THEN Zero
    ELSE Real(Quotient(Scaled(x) * Unit, Scaled(y)))

div(x, y) == Overloaded("/", x, y,
    IF Both(x, y, Whole) THEN Divided(Quotient, x.v, y.v)
    ELSE IF ~Numbers(x, y) THEN Illegal
    ELSE IF y.v = 0 THEN Zero
    ELSE Real(Quotient(Scaled(x) * Unit, Scaled(y))))

\* A real is divided without the test for zero, and the constant of an
\* enumeration is not looked up.
mod(x, y) == Overloaded("%", x, y,
    IF isIntegral(x) /\ isIntegral(y) THEN Divided(Remainder, getInt(x), getInt(y))
    ELSE IF x.type # "real" \/ y.type \notin Numeric \cup {"enumconst"} THEN Illegal
    ELSE IF y.type = "enumconst" THEN Undefined
    ELSE IF y.v = 0 THEN NotANumber
    ELSE Real(Remainder(Scaled(x), Scaled(y))))

-----------------------------------------------------------------------------
\* Shifts.  The count is the integer field of y, whatever y is; an integer is
\* shifted by less than its width, or by what the machine makes of it.

Sequence(x) == x.type \in {"string", "vector", "bytevector"}

Shifted(op, x, y, whole, seq) ==
    Overloaded(op, x, y,
        IF x.type \notin Whole /\ ~Sequence(x) THEN Illegal
        ELSE IF y.type \notin Whole THEN Undefined
        ELSE IF x.type \in Whole THEN IF y.v \in 0..(Width - 1) THEN Integer(whole) ELSE Undefined
        ELSE IF y.v < 0 THEN IF op = "<<" /\ x.type = "string" THEN String(<<>>)
                             ELSE Undefined
        ELSE [type |-> x.type, v |-> seq])

Least(a, b) == IF a < b THEN a ELSE b
Power(y) == 2^(IF y.type \in Whole /\ y.v \in 0..(Width - 1) THEN y.v ELSE 0)

\* A mutant: one element too many goes.
DropLast_OneMore(x, y) == SubSeq(x.v, 1, Len(x.v) - Least(y.v + 1, Len(x.v)))

\* A sequence without its last, or its first, elements.
DropLast(x, y) == SubSeq(x.v, 1, Len(x.v) - Least(y.v, Len(x.v)))
DropFirst(x, y) == SubSeq(x.v, Least(y.v, Len(x.v)) + 1, Len(x.v))

sra(x, y) == Shifted(">>", x, y, x.v \div Power(y), DropLast(x, y))
srl(x, y) == Shifted(">>>", x, y, (x.v % 2^Width) \div Power(y), DropLast(x, y))
sll(x, y) == Shifted("<<", x, y, x.v * Power(y), DropFirst(x, y))

-----------------------------------------------------------------------------
\* Bits, and the operators with one operand.

Bits(f(_, _), x, y) == Integer(f(getInt(x) % 2^Width, getInt(y) % 2^Width))

bitwiseand(x, y) == Overloaded("&", x, y,
    IF Collections(x, y) /\ x.type # "map" THEN SetOf(Common, x, y)
    ELSE IF isIntegral(x) /\ isIntegral(y) THEN Bits(LAMBDA a, b : a & b, x, y)
    ELSE Illegal)

bitwiseor(x, y) == Overloaded("|", x, y,
    IF Collections(x, y) /\ x.type # "map" THEN SetOf(Union, x, y)
    ELSE IF isIntegral(x) /\ isIntegral(y) THEN Bits(LAMBDA a, b : a | b, x, y)
    ELSE Illegal)

bitwisexor(x, y) == Overloaded("^", x, y,
    IF isIntegral(x) /\ isIntegral(y) THEN Bits(LAMBDA a, b : a ^^ b, x, y)
    ELSE Illegal)

uminus(x) == Overloaded("-", x, None,
    IF x.type = "real" THEN Real(-x.v)
    ELSE IF isIntegral(x) THEN Integer(-getInt(x)) ELSE Illegal)

boolnot(x) == Overloaded("!", x, None,
    IF x.type = "real" THEN Bool(x.v = 0)
    ELSE IF isIntegral(x) THEN Bool(getInt(x) = 0) ELSE Illegal)

comp(x) == Overloaded("~", x, None,
    IF isIntegral(x) THEN Integer(-getInt(x) - 1) ELSE Illegal)

dosizeof(x) == Overloaded("sizeof", x, None,
    CASE x.type \in {"integer", "real"} -> Integer(8)
      [] x.type \in {"bool", "char", "byte"} -> Integer(1)
      [] Sequence(x) \/ x.type = "map" -> Integer(Len(x.v))
      [] x.type = "memory" -> Integer(x.v[2])
      [] x.type = "pointer" -> Integer(x.v[2] - x.v[1])
      [] x.type = "enum" -> Integer(Len(Enums[x.v]))
      [] x.type \in Named \ {"enum"} -> Illegal
      [] OTHER -> Integer(0))

\* x is compared with the elements in turn, up to one that is equal or cannot
\* be compared.
InVector(x, s) ==
    LET stops == {i \in DOMAIN s : cmpeq(x, s[i]) # Bool(FALSE)}
    IN IF stops = {} THEN Integer(0)
       ELSE LET r == cmpeq(x, s[CHOOSE i \in stops : \A j \in stops : i <= j])
            IN IF r = Bool(TRUE) THEN Integer(1) ELSE r

in(x, c) ==
    CASE c.type = "vector" ->
            IF x.type = "vector" THEN Integer(IF Common(x.v, c.v) = <<>> THEN 0 ELSE 1)
                                 ELSE InVector(x, c.v)
      [] c.type = "bytevector" -> Nothing
      [] c.type = "map" -> Bool(At(c.v, x) # {})
      [] c.type = "string" ->
            IF x.type = "string" THEN Bool(\E i \in 0..(Len(c.v) - Len(x.v)) :
                                              SubSeq(c.v, i + 1, i + Len(x.v)) = x.v)
            ELSE IF x.type = "char" THEN Bool(Contains(c.v, Byte(x.v))) ELSE Illegal
      [] c.type = "object" ->
            IF c = Null THEN Integer(0)
            ELSE IF checkForOperator(c, "in") THEN Called("in", c, x)
            ELSE IF x.type = "string" THEN Called("member", c, x) ELSE Illegal
      [] c.type \in Named \ {"interface", "enum"} ->
            IF x.type = "string" THEN Called("member", c, x) ELSE Illegal
      [] OTHER -> Illegal
=============================================================================
