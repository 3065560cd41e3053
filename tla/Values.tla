------------------------------- MODULE Values -------------------------------
(***************************************************************************)
(* The values of the language and the operators on them: the functions     *)
(* cmpeq to comp, in, inrange, dosizeof, cast of src/src/interpret.cc and  *)
(* the operators of Value, vector, bytevector and map of src/src/value.cc. *)
(*                                                                         *)
(* A value is a type and a datum.  An operator that throws gives a result  *)
(* of type "error", as does one whose outcome the language of the source   *)
(* leaves open; the call of an operator a class defines gives "called".    *)
(*                                                                         *)
(* Integers have Width bits.  Reals are kept in units of 1/Unit, and       *)
(* products and quotients are rounded to them.  Characters are their       *)
(* codes, strings and vectors are sequences, a map is a sequence of pairs. *)
(***************************************************************************)
EXTENDS Integers, Sequences, FiniteSets, SequencesExt

CONSTANTS Width,      \* bits of an integer
          Unit,       \* a real is a number of 1/Unit
          Enums,      \* Enums[e]: the values of e's constants, in order
          Super,      \* Super[b]: the class b extends, or 0
          Overloads   \* Overloads[o]: the operators object o's class defines

Blocks == {"class", "interface", "monitor", "function", "package", "thread", "enum"}
Whole == {"integer", "char", "byte", "bool"}     \* kept in the field integer
Numeric == Whole \cup {"real"}
Named == Blocks \cup {"closure"}

Error(what) == [type |-> "error", v |-> what]
Illegal == Error("illegal operation")
Beyond == Error("out of range")
Zero == Error("division by zero")
Undefined == Error("undefined")      \* the C++ program may do anything
NotANumber == Error("not a number")
Nothing == Error("no result")        \* the destination keeps its value

None == [type |-> "none", v |-> 0]
Null == [type |-> "object", v |-> 0]
Bool(b) == [type |-> "bool", v |-> IF b THEN 1 ELSE 0]
String(s) == [type |-> "string", v |-> s]
Vector(s) == [type |-> "vector", v |-> s]
Bytes(s) == [type |-> "bytevector", v |-> s]
Map(s) == [type |-> "map", v |-> s]
Called(op, x, y) == [type |-> "called", v |-> <<op, x, y>>]

\* An integer as Width bits in two's complement keep it.
Wrap(n) == LET m == n % 2^Width IN IF m >= 2^(Width - 1) THEN m - 2^Width ELSE m
\* A mutant: the sum keeps all its bits.
Integer_Unbounded(n) == [type |-> "integer", v |-> n]

Integer(n) == [type |-> "integer", v |-> Wrap(n)]
Real(n) == [type |-> "real", v |-> n]

\* Division of C: the quotient is cut towards zero.
Quotient(a, b) == LET sign == IF (a < 0) # (b < 0) THEN -1 ELSE 1
                      abs(n) == IF n < 0 THEN -n ELSE n
                  IN sign * (abs(a) \div abs(b))
Remainder(a, b) == a - b * Quotient(a, b)

Both(x, y, S) == x.type \in S /\ y.type \in S

-----------------------------------------------------------------------------
\* Parts of values.

EnumConst(e, i) == [type |-> "enumconst", v |-> <<e, i>>]

\* e's constants are numbered from 0.
EnumValue(x) == Enums[x.v[1]][x.v[2] + 1]

isIntegral(x) == x.type \in Whole \cup {"enumconst"}
getInt(x) == IF x.type = "enumconst" THEN EnumValue(x) ELSE x.v

\* A number in units of 1/Unit.
Scaled(x) == IF x.type = "real" THEN x.v ELSE x.v * Unit

\* A mutant: the chain of constants goes round.
nextValue_Cyclic(x, n) ==
    LET e == x.v[1] IN EnumConst(e, (x.v[2] + n) % Len(Enums[e]))

\* The constant n places after x; a negative n runs off the end of the chain.
nextValue(x, n) ==
    LET e == x.v[1]
    IN IF n >= 0 /\ x.v[2] + n < Len(Enums[e]) THEN EnumConst(e, x.v[2] + n) ELSE Beyond

prevValue(x, n) ==
    IF n >= 0 /\ x.v[2] - n >= 0 THEN EnumConst(x.v[1], x.v[2] - n) ELSE Beyond

\* Value::operator bool.  A string's test is true whatever its size; an
\* interface has no case and is false.
Truth(x) == CASE x.type \in Numeric -> x.v # 0
              [] x.type \in {"vector", "bytevector", "map"} -> x.v # <<>>
              [] x.type = "object" -> x.v # 0
              [] OTHER -> x.type \in (Named \ {"interface"})
                                    \cup {"string", "enumconst", "memory", "pointer"}

\* The test of a condition in the program.
toBool(x) == CASE x.type \in Whole -> x.v # 0
               [] x.type \in {"string", "vector", "map"} -> x.v # <<>>
               [] OTHER -> FALSE

-----------------------------------------------------------------------------
\* Text.

Minus == 45
Point == 46
Digit0 == 48

digits[n \in Nat] == IF n < 10 THEN <<Digit0 + n>>
                     ELSE Append(digits[n \div 10], Digit0 + (n % 10))

Decimal(n) == IF n < 0 THEN <<Minus>> \o digits[-n] ELSE digits[n]

\* Value::toString: "%lld", "%g", the character, or the name of a truth value.
toString(x) ==
    CASE x.type = "integer" -> Decimal(x.v)
      [] x.type = "real" ->
            LET whole == Quotient(x.v, Unit)
                rest == Remainder(x.v, Unit)
            IN (IF x.v < 0 /\ whole = 0 THEN <<Minus>> ELSE <<>>) \o Decimal(whole)
               \o (IF rest = 0 THEN <<>>
                   ELSE <<Point>> \o digits[((IF rest < 0 THEN -rest ELSE rest) * 10) \div Unit])
      [] x.type = "byte" -> <<x.v % 256>>
      [] x.type = "char" -> IF x.v % 256 = 0 THEN <<>> ELSE <<x.v % 256>>
      [] x.type = "bool" -> IF x.v = 0 THEN <<102, 97, 108, 115, 101>>
                                       ELSE <<116, 114, 117, 101>>
      [] x.type = "string" -> x.v

\* The name of a block or of a constant, one character that no text has.
Name(x) == IF x.type = "enumconst" THEN <<300 + 10 * x.v[1] + x.v[2]>> ELSE <<200 + x.v>>

StringLess(s, t) == \E k \in 1..Len(t) :
                        /\ k <= Len(s) + 1
                        /\ SubSeq(s, 1, k - 1) = SubSeq(t, 1, k - 1)
                        /\ k = Len(s) + 1 \/ s[k] < t[k]

Numbers(x, y) == Both(x, y, Numeric)
Texts(x, y) == /\ Both(x, y, Numeric \cup {"string"})
               /\ "string" \in {x.type, y.type}
WholeAndConst(x, y) == \/ x.type \in Whole /\ y.type = "enumconst"
                       \/ x.type = "enumconst" /\ y.type \in Whole
Collections(x, y) == x.type = y.type /\ x.type \in {"vector", "bytevector", "map"}

\* A class, or one it extends.
isSuperBlock[b \in DOMAIN Super, c \in DOMAIN Super] ==
    b = c \/ (Super[b] # 0 /\ isSuperBlock[Super[b], c])

\* Operator op of x's class, if it has it.
checkForOperator(x, op) == x.type = "object" /\ x.v # 0 /\ op \in Overloads[x.v]

-----------------------------------------------------------------------------
\* Equality.

\* The elements of vectors are compared by !=, which Value does not have: it is
\* the != of their truth values.
VectorEqual(s, t) == Len(s) = Len(t) /\ \A i \in DOMAIN s : Truth(s[i]) = Truth(t[i])

MapEqual(s, t) == /\ Len(s) = Len(t)
                  /\ \A i \in DOMAIN s : /\ Truth(s[i][1]) = Truth(t[i][1])
                                         /\ Truth(s[i][2]) = Truth(t[i][2])

CollectionEqual(x, y) == CASE x.type = "vector" -> VectorEqual(x.v, y.v)
                           [] x.type = "map" -> MapEqual(x.v, y.v)
                           [] x.type = "bytevector" -> x.v = y.v

\* Value::operator==, which the set operations and the library use.  It never
\* throws, and knows neither a number next to a constant nor none.
Same(x, y) ==
    \/ Numbers(x, y) /\ Scaled(x) = Scaled(y)
    \/ Texts(x, y) /\ toString(x) = toString(y)
    \/ Collections(x, y) /\ CollectionEqual(x, y)
    \/ x.type = y.type /\ x.type \in {"enumconst", "object", "closure"} /\ x.v = y.v
    \/ Both(x, y, Blocks) /\ x.v = y.v

\* The operator == of the program.
cmpeq(x, y) ==
    IF y.type = "none" THEN Bool(x.type = "none")
    ELSE CASE Numbers(x, y) -> Bool(Scaled(x) = Scaled(y))
           [] Texts(x, y) -> Bool(toString(x) = toString(y))
           [] WholeAndConst(x, y) -> Bool(getInt(x) = getInt(y))
           [] Both(x, y, {"enumconst"}) \/ Both(x, y, {"stream"}) -> Bool(x.v = y.v)
           [] Collections(x, y) -> Bool(CollectionEqual(x, y))
           [] x.type \in Named -> Bool(y.type \in Named /\ x.v = y.v)
           [] checkForOperator(x, "==") /\ y # Null -> Called("==", x, y)
           [] Both(x, y, {"object"}) /\ ~(checkForOperator(x, "==") /\ y # Null) ->
                 Bool(x.v = y.v)
           [] Null \in {x, y} /\ "string" \in {x.type, y.type} -> Bool(FALSE)
           [] x.type = "none" -> Bool(FALSE)
           [] x.type \notin Named \cup {"none"} /\ y.type \in Named
                 /\ ~checkForOperator(x, "==") -> Bool(FALSE)
           [] OTHER -> Illegal

Negated(r) == IF r.type \in {"error", "called"} THEN r ELSE Bool(r.v = 0)

cmpne(x, y) == IF checkForOperator(x, "!=") /\ y.type = "object" /\ y # Null
               THEN Called("!=", x, y)
               ELSE Negated(cmpeq(x, y))

-----------------------------------------------------------------------------
\* Order.

\* Value::operator<, the order of a map's keys, where it is not cmplt: it
\* never throws, and compares objects by address.  A class's own < is left out.
less(x, y) == \/ Numbers(x, y) /\ Scaled(x) < Scaled(y)
              \/ Texts(x, y) /\ StringLess(toString(x), toString(y))
              \/ Collections(x, y) /\ x.type # "bytevector" /\ Len(x.v) < Len(y.v)
              \/ Both(x, y, {"enumconst"}) /\ x.v[1] = y.v[1] /\ x.v[2] < y.v[2]
              \/ Both(x, y, {"object"}) /\ x.v < y.v

cmplt(x, y) ==
    CASE Numbers(x, y) -> Bool(Scaled(x) < Scaled(y))
      [] Texts(x, y) -> Bool(StringLess(toString(x), toString(y)))
      [] WholeAndConst(x, y) -> Bool(getInt(x) < getInt(y))
      [] Both(x, y, {"enumconst"}) -> Bool(x.v[1] = y.v[1] /\ x.v[2] < y.v[2])
      [] Collections(x, y) -> Bool(Len(x.v) < Len(y.v))
      [] Both(x, y, Named) -> Bool(isSuperBlock[x.v, y.v])
      [] checkForOperator(x, "<") -> Called("<", x, y)
      [] OTHER -> Illegal

\* A mutant: a string is greater when it is not less.
cmpgt_NotLess(x, y) ==
    CASE Texts(x, y) -> Bool(~StringLess(toString(x), toString(y)))
      [] Numbers(x, y) -> Bool(Scaled(x) > Scaled(y))
      [] OTHER -> cmplt(y, x)

\* A whole number on the left of a constant is tested for being less.
cmpgt(x, y) ==
    CASE Numbers(x, y) -> Bool(Scaled(x) > Scaled(y))
      [] Texts(x, y) -> Bool(StringLess(toString(y), toString(x)))
      [] x.type \in Whole /\ y.type = "enumconst" -> Bool(x.v < getInt(y))
      [] x.type = "enumconst" /\ y.type \in Whole -> Bool(getInt(x) > y.v)
      [] Both(x, y, {"enumconst"}) -> Bool(x.v[1] = y.v[1] /\ x.v[2] > y.v[2])
      [] Collections(x, y) -> Bool(Len(x.v) > Len(y.v))
      [] Both(x, y, Named) -> Bool(isSuperBlock[y.v, x.v])
      [] checkForOperator(x, ">") -> Called(">", x, y)
      [] OTHER -> Illegal

cmple(x, y) == IF checkForOperator(x, "<=") THEN Called("<=", x, y)
               ELSE IF Both(x, y, Named) THEN Bool(isSuperBlock[x.v, y.v])
               ELSE Negated(cmpgt(x, y))

cmpge(x, y) == IF checkForOperator(x, ">=") THEN Called(">=", x, y)
               ELSE IF Both(x, y, Named) THEN Bool(isSuperBlock[y.v, x.v])
               ELSE Negated(cmplt(x, y))

inrange(x, lo, hi) ==
    IF isIntegral(lo)
    THEN IF isIntegral(hi) /\ isIntegral(x)
         THEN LET a == getInt(lo)  b == getInt(hi)
              IN Bool(IF a > b THEN getInt(x) \in b..a ELSE getInt(x) \in a..b)
         ELSE Illegal
    ELSE IF checkForOperator(x, "in") THEN Called("in", x, <<lo, hi>>)
    ELSE Illegal
=============================================================================
