---------------------------- MODULE Conversions -----------------------------
(***************************************************************************)
(* Conversion from one type to another: cast, convertType and              *)
(* convertStringToInt of src/src/interpret.cc.  The target of a conversion *)
(* is a value of the target type; the program names the variables int,     *)
(* string, bytevector and so on, whose values these are, or a class.       *)
(***************************************************************************)
EXTENDS Operators

Fails == Error("illegal cast")

Space == 32
LetterX == 120
LetterB == 98

IsDigit(c) == c \in Digit0..(Digit0 + 9)
DigitValue(c) == IF IsDigit(c) THEN c - Digit0
                 ELSE IF c \in 97..102 THEN c - 87 ELSE 16

\* The part of s after its spaces; the longest prefix of digits of the base.
Unspaced(s) == LET n == CHOOSE k \in 0..Len(s) : /\ \A i \in 1..k : s[i] = Space
                                                 /\ k < Len(s) => s[k + 1] # Space
               IN SubSeq(s, n + 1, Len(s))
DigitsOf(s, base) == LET n == CHOOSE k \in 0..Len(s) :
                                   /\ \A i \in 1..k : DigitValue(s[i]) < base
                                   /\ k < Len(s) => DigitValue(s[k + 1]) >= base
                     IN SubSeq(s, 1, n)
Number(ds, base) == FoldLeft(LAMBDA a, c : a * base + DigitValue(c), 0, ds)

\* The first n characters are c.
Starts(s, c) == s # <<>> /\ s[1] = c
Rest(s) == Tail(s)

\* strtoll skips spaces, takes a sign and 0x, and stays at the ends of the
\* range of an integer.
strtoll(s, base) ==
    LET u == Unspaced(s)
        body == IF Starts(u, Minus) THEN Rest(u) ELSE u
        hex == base = 16 /\ Len(body) > 1 /\ body[1] = Digit0 /\ body[2] = LetterX
        n == Number(DigitsOf(IF hex THEN SubSeq(body, 3, Len(body)) ELSE body, base), base)
        top == 2^(Width - 1)
    IN IF Starts(u, Minus) THEN IF n > top THEN -top ELSE -n
                           ELSE IF n >= top THEN top - 1 ELSE n

\* A mutant: the sign is dropped before the base is known.
convertStringToInt_Unsigned(str) ==
    LET s == Unspaced(str)
        body == IF Starts(s, Minus) THEN Rest(s) ELSE s
    IN IF s = <<>> \/ ~(IsDigit(s[1]) \/ s[1] = Minus) THEN Fails
       ELSE Integer(strtoll(body, 10))

\* A leading 0 makes a number octal, 0x hexadecimal and 0b binary, after a
\* sign as well.
convertStringToInt(str) ==
    LET s == Unspaced(str)
        neg == Starts(s, Minus)
        body == IF neg THEN Rest(s) ELSE s
        second == IF Starts(body, Digit0) /\ Len(body) > 1 THEN body[2] ELSE 0
        r == IF second = LetterX THEN strtoll(body, 16)
             ELSE IF second = LetterB THEN strtoll(SubSeq(body, 3, Len(body)), 2)
             ELSE strtoll(body, IF Starts(body, Digit0) THEN 8 ELSE 10)
    IN IF s = <<>> \/ ~(IsDigit(s[1]) \/ neg) THEN Fails
       ELSE Integer(IF neg THEN -r ELSE r)

\* sscanf of a real: a sign, digits and a fraction.  No exponents here.
ConvertStringToReal(str) ==
    LET s == Unspaced(str)
        body == IF Starts(s, Minus) THEN Rest(s) ELSE s
        whole == DigitsOf(body, 10)
        after == SubSeq(body, Len(whole) + 1, Len(body))
        part == IF Starts(after, Point) THEN DigitsOf(Rest(after), 10) ELSE <<>>
        n == Number(whole, 10) * Unit + (Number(part, 10) * Unit) \div 10^Len(part)
    IN IF whole \o part = <<>> THEN Fails
       ELSE Real(IF Starts(s, Minus) THEN -n ELSE n)

\* What an object gives is for its class to say.
Object(from, method) == IF from = Null THEN Fails ELSE Called(method, from, None)

\* A whole number, as it is kept in a target of another whole type.
ToWhole(from, t) ==
    CASE from.type \in Whole -> [type |-> t, v |-> from.v]
      [] from.type = "real" -> [type |-> t, v |-> Wrap(Quotient(from.v, Unit))]
      [] from.type = "enumconst" -> [type |-> t, v |-> EnumValue(from)]
      [] from.type \in Named \cup {"vector", "bytevector", "map"} -> Fails

\* The eight bytes of an integer, most significant first.
BytesOf(n) == [i \in 1..8 |-> Byte((n \div 2^Least(8 * (8 - i), Width - 1)))]

\* In each of the following, what has no case leaves the target as it is.

Containers == {"vector", "bytevector", "map"}

ToInteger(from, to) ==
    CASE from.type = "string" -> convertStringToInt(from.v)
      [] from.type \in {"memory", "pointer"} -> Undefined
      [] from = Null -> Integer(0)
      [] from.type = "object" /\ from # Null -> Called("toInteger", from, None)
      [] from.type \in {"none", "stream"} -> to
      [] OTHER -> ToWhole(from, "integer")

ToReal(from, to) ==
    CASE from.type \in Numeric -> Real(Scaled(from))
      [] from.type = "enumconst" -> Real(EnumValue(from) * Unit)
      [] from.type = "string" -> ConvertStringToReal(from.v)
      [] from.type = "object" -> Object(from, "toReal")
      [] from.type \in Named \cup Containers -> Fails
      [] OTHER -> to

ToText(from, to) ==
    CASE from.type \in Numeric -> String(toString(from))
      [] from.type = "bytevector" -> String(from.v)
      [] from.type \in Named \cup {"enumconst"} -> String(Name(from))
      [] from = Null -> String(<<110, 117, 108, 108>>)
      [] from.type = "object" /\ from # Null -> Called("toString", from, None)
      [] from.type \in {"vector", "map"} -> Fails
      [] OTHER -> to

\* To char and to byte, which do not cut the number to their size.
ToChar(from, to) ==
    CASE from.type = "string" -> Fails
      [] from.type = "object" -> Object(from, to.type)
      [] from.type \in {"none", "stream", "memory", "pointer"} -> to
      [] OTHER -> ToWhole(from, to.type)

\* Only the lowest bit of a number counts.
ToBool(from, to) ==
    IF from.type = "string" THEN Bool(from.v = toString(Bool(TRUE)))
    ELSE LET r == ToChar(from, to)
         IN IF r = to \/ r.type # "bool" THEN r ELSE Bool(r.v % 2 = 1)

\* The bytes are appended to the target's.
ToBytes(from, to) ==
    CASE from.type = "integer" -> Bytes(to.v \o BytesOf(from.v))
      [] from.type = "real" -> Undefined
      [] from.type \in {"char", "bool", "byte"} -> Bytes(Append(to.v, Byte(from.v)))
      [] from.type = "object" -> Object(from, "toByteVector")
      [] OTHER -> Fails

ToContainer(from, to) == IF from.type = "object" THEN Object(from, to.type) ELSE Fails

\* An object of the class, or a new one made from the value; a function is
\* called with it.
ToBlock(from, to) ==
    CASE to.type \in {"function", "thread"} -> Called("call", to, from)
      [] to.type = "closure" -> Called("as its block", to, from)
      [] OTHER -> IF from = Null THEN from
                  ELSE Called(IF from.type = "object" THEN "compatible" ELSE "new", to, from)

\* The first constant with this value, or with this name.
ToEnum(from, to) ==
    LET e == to.v
        found == {i \in DOMAIN Enums[e] :
                     IF from.type = "string" THEN Name(EnumConst(e, i - 1)) = from.v
                                             ELSE Enums[e][i] = from.v}
    IN CASE from.type \in Whole \cup {"string"} ->
               IF found = {} THEN Fails
               ELSE EnumConst(e, (CHOOSE i \in found : \A j \in found : i <= j) - 1)
         [] from.type = "enumconst" -> IF from.v[1] = e THEN from ELSE Fails
         [] OTHER -> to

convertType(from, to) ==
    IF from.type = to.type THEN from
    ELSE CASE to.type = "integer" -> ToInteger(from, to)
           [] to.type = "real" -> ToReal(from, to)
           [] to.type = "string" -> ToText(from, to)
           [] to.type \in {"char", "byte"} -> ToChar(from, to)
           [] to.type = "bool" -> ToBool(from, to)
           [] to.type \in {"vector", "map"} -> ToContainer(from, to)
           [] to.type = "bytevector" -> ToBytes(from, to)
           [] to.type \in Named \ {"enum"} -> ToBlock(from, to)
           [] to.type = "enum" -> ToEnum(from, to)
           [] to.type = "stream" -> IF checkForOperator(from, "->") THEN from ELSE Fails
           [] OTHER -> Fails

cast(to, from) == Overloaded("cast", from, to, convertType(from, to))
=============================================================================
