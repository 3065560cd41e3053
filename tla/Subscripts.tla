----------------------------- MODULE Subscripts ------------------------------
(***************************************************************************)
(* Subscripts: addrsub to newByteVector of src/src/interpret.cc.           *)
(*                                                                         *)
(* What changes a variable gives its new value, and what the expression    *)
(* stands for.  A pattern is a text without special characters.            *)
(***************************************************************************)
EXTENDS Library

Stores(new, value) == [var |-> new, is |-> value]
Refused(e) == Stores(None, e)

\* The values that have a number of places; all others have any.
Places0(x) == IF x.type = "integer" THEN Width ELSE IF Sequence(x) THEN Len(x.v) ELSE 8
subscriptok(x, i) == x.type \in Whole \cup {"string", "vector", "bytevector"} => i \in 0..(Places0(x) - 1)

Indexed(m, k) == IF At(m, k) = {} THEN None ELSE m[CHOOSE i \in At(m, k) : TRUE][2]

\* Bits lo to hi of a number.
BitsOf(n, lo, hi) == (n \div 2^lo) % 2^(hi - lo + 1)

-----------------------------------------------------------------------------
\* Reading.

\* What is matched: the first and the last character.
Matched(s, p) ==
    LET i == Nearest(Places(s, p), FALSE)
    IN Vector(IF Places(s, p) = {} THEN <<>> ELSE <<[type |-> "match", v |-> <<i - 1, i + Len(p) - 2>>]>>)

\* What is no number and no pattern selects nothing; a vector is read where the
\* bits of the index say.
ByValue(x) == IF x.type \in {"vector", "bytevector"} THEN Undefined ELSE Integer(0)

getsub(x, index) ==
    IF checkForOperator(x, "[]") THEN Called("[]", x, index)
    ELSE IF x.type = "map" THEN Indexed(x.v, index)
    ELSE IF ~isIntegral(index)
    THEN CASE x.type = "string" -> IF index.type = "string" THEN Matched(x.v, index.v) ELSE Illegal
           [] OTHER -> ByValue(x)
    ELSE LET i == getInt(index)
         IN IF ~subscriptok(x, i) THEN Beyond
            ELSE CASE x.type \in Whole -> Integer(BitsOf(x.v, i, i))
                   [] Sequence(x) -> Element(x, i + 1)
                   [] OTHER -> Illegal

\* A range may be given in either order.
Ends(lo, hi) == <<Least(getInt(lo), getInt(hi)), IF getInt(lo) < getInt(hi) THEN getInt(hi) ELSE getInt(lo)>>

\* Of a range of bytes only their truth values are taken.
getrange(x, lo, hi) ==
    IF checkForOperator(x, "[]") THEN Called("[]", x, <<lo, hi>>)
    ELSE IF x.type = "map" \/ ~isIntegral(lo) \/ ~isIntegral(hi) THEN Illegal
    ELSE LET a == Ends(lo, hi)[1]
             b == Ends(lo, hi)[2]
         IN IF ~subscriptok(x, a) \/ ~subscriptok(x, b) THEN Beyond
            ELSE CASE x.type \in Whole -> IF b - a + 1 = Width THEN Undefined ELSE Integer(BitsOf(x.v, a, b))
                   [] x.type \in {"string", "vector"} -> With(x, SubSeq(x.v, a + 1, b + 1))
                   [] x.type = "bytevector" ->
                         With(x, [i \in 1..(b - a + 1) |-> IF x.v[a + i] = 0 THEN 0 ELSE 1])
                   [] OTHER -> Illegal

-----------------------------------------------------------------------------
\* Writing.

\* A number whose bits lo to hi are those of n.  It is an integer then.
SetBits(x, n, lo, hi) ==
    LET w == 2^(hi - lo + 1)
        new == Integer(x.v + ((n % w) - BitsOf(x.v, lo, hi)) * 2^lo)
    IN Stores(new, new)

Put(m, k, val) == IF At(m, k) = {} THEN insert(m, k, val)
                  ELSE [i \in DOMAIN m |-> IF i \in At(m, k) THEN <<m[i][1], val>> ELSE m[i]]

\* The places from lo to hi get what f says.
Given(x, lo, hi, f(_)) ==
    LET y == With(x, [i \in DOMAIN x.v |-> IF i \in lo + 1 .. hi + 1 THEN f(i) ELSE x.v[i]]) IN Stores(y, y)

setsub(x, val, index) ==
    IF x.type = "map" THEN Stores(Map(Put(x.v, index, val)), val)
    ELSE IF ~isIntegral(index) THEN Refused(Illegal)
    ELSE LET i == getInt(index)
         IN IF ~subscriptok(x, i) THEN Refused(Beyond)
            ELSE CASE x.type \in Whole -> IF val.type \in Whole THEN SetBits(x, val.v, i, i) ELSE Refused(Undefined)
                   [] x.type = "string" /\ val.type = "char" -> Given(x, i, i, LAMBDA k : Byte(val.v))
                   [] x.type = "vector" -> Given(x, i, i, LAMBDA k : val)
                   [] x.type = "bytevector" /\ isIntegral(val) -> Given(x, i, i, LAMBDA k : Byte(getInt(val)))
                   [] OTHER -> Refused(Illegal)

\* The elements of a container are taken from the places they go to, not from its
\* beginning.
FromPlaces(x, val, lo, hi) ==
    IF Len(val.v) # hi - lo + 1 THEN Refused(Illegal)
    ELSE IF hi >= Len(val.v) THEN Refused(Undefined)
    ELSE Given(x, lo, hi, LAMBDA k : val.v[k])

\* A range of a string cannot be assigned: the string becomes that range.
setrange(x, val, from, to) ==
    IF x.type = "map" \/ ~isIntegral(from) \/ ~isIntegral(to) THEN Refused(Illegal)
    ELSE LET lo == Ends(from, to)[1]
             hi == Ends(from, to)[2]
             range == With(x, SubSeq(x.v, lo + 1, hi + 1))
         IN IF ~subscriptok(x, lo) \/ ~subscriptok(x, hi) THEN Refused(Beyond)
            ELSE CASE x.type \in Whole ->
                         IF val.type \in Whole /\ hi - lo + 1 < Width THEN SetBits(x, val.v, lo, hi) ELSE Refused(Undefined)
                   [] x.type = "string" /\ lo = hi -> setsub(x, val, Integer(lo))
                   [] x.type = "string" /\ lo # hi /\ val.type = "string" -> Stores(range, range)
                   [] x.type \in {"vector", "bytevector"} /\ val.type = x.type -> FromPlaces(x, val, lo, hi)
                   [] x.type = "vector" /\ val.type # "vector" -> Given(x, lo, hi, LAMBDA k : val)
                   [] x.type = "bytevector" /\ val.type # "bytevector" ->
                         Given(x, lo, hi, LAMBDA k : IF Truth(val) THEN 1 ELSE 0)
                   [] OTHER -> Refused(Illegal)

\* An element of an element is changed where it is; what is no element of a
\* vector or of a map is a copy.
addrsub(x, index) ==
    IF x.type = "map" THEN [value |-> Indexed(x.v, index), inPlace |-> At(x.v, index) # {}]
    ELSE IF ~isIntegral(index) THEN [value |-> Illegal, inPlace |-> FALSE]
    ELSE [value |-> getsub(x, index), inPlace |-> x.type = "vector"]

RECURSIVE setpath(_, _, _)
setpath(x, val, path) ==
    IF Len(path) = 1 THEN setsub(x, val, path[1])
    ELSE LET at == addrsub(x, path[1])
             r == setpath(at.value, val, Tail(path))
         IN IF Failed(at.value) THEN Refused(at.value)
            ELSE IF Failed(r.is) THEN r
            ELSE IF at.inPlace THEN Stores(setsub(x, r.var, path[1]).var, r.is)
            ELSE Stores(x, r.is)

\* Only the last of several subscripts reads a value.
RECURSIVE getpath(_, _)
getpath(x, path) == IF Failed(x) THEN x
                    ELSE IF Len(path) = 1 THEN getsub(x, path[1])
                    ELSE getpath(addrsub(x, path[1]).value, Tail(path))

-----------------------------------------------------------------------------
\* Deleting.  A number of characters of a string goes that is the place itself,
\* or the end of the range.
Erased(s, at, n) == SubSeq(s, 1, at) \o SubSeq(s, at + n + 1, Len(s))

delrange(x, from, to) ==
    LET lo == getInt(from)
        hi == getInt(to)
    IN IF x.type = "map" \/ ~isIntegral(from) \/ ~isIntegral(to) THEN Illegal
       ELSE IF ~subscriptok(x, lo) \/ ~subscriptok(x, hi) THEN Beyond
       ELSE CASE x.type = "string" -> With(x, Erased(x.v, lo, hi))
              [] x.type \in {"vector", "bytevector"} ->
                    IF hi < lo - 1 THEN Undefined ELSE With(x, Erased(x.v, lo, hi - lo + 1))
              [] OTHER -> Illegal

delsub(x, index) ==
    IF x.type # "map" THEN IF isIntegral(index) THEN delrange(x, index, index) ELSE Illegal
    ELSE Map(SelectSeq(x.v, LAMBDA p : less(p[1], index) \/ less(index, p[1])))

-----------------------------------------------------------------------------
(***************************************************************************)
(* New vectors.  sizes are those of the dimensions; with a constructor,    *)
(* made objects have been made so far, and the first of them, made before  *)
(* the vector, is the first element of each row.                           *)
(***************************************************************************)
Instance(n) == [type |-> "object", v |-> n]

RECURSIVE newVector(_, _, _), Rows(_, _, _, _)
Rows(n, sizes, construct, made) ==
    IF n = 0 THEN [rows |-> <<>>, made |-> made]
    ELSE LET row == newVector(sizes, construct, made)
             rest == Rows(n - 1, sizes, construct, row.made)
         IN [rows |-> <<row.is>> \o rest.rows, made |-> rest.made]

newVector(sizes, construct, made) ==
    LET n == getInt(sizes[1])
        rows == Rows(n, Tail(sizes), construct, made)
        bad == {i \in DOMAIN rows.rows : Failed(rows.rows[i])}
    IN IF ~isIntegral(sizes[1]) \/ n < 0 THEN [is |-> Illegal, made |-> made]
       ELSE IF Len(sizes) > 1
       THEN [is |-> IF bad = {} THEN Vector(rows.rows) ELSE rows.rows[Nearest(bad, FALSE)], made |-> rows.made]
       ELSE IF construct
       THEN [is |-> Vector([i \in 1..n |-> Instance(IF i = 1 THEN 1 ELSE made + i - 1)]),
             made |-> IF n = 0 THEN made ELSE made + n - 1]
       ELSE [is |-> Vector([i \in 1..n |-> None]), made |-> made]

\* (Zero bytes: byte has no constructor that gives anything else.)
RECURSIVE newByteVector(_)
newByteVector(sizes) ==
    LET n == getInt(sizes[1])
    IN IF ~isIntegral(sizes[1]) THEN Illegal
       ELSE IF n < 0 THEN Aborts
       ELSE IF Len(sizes) = 1 THEN Bytes([i \in 1..n |-> 0])
       ELSE LET row == newByteVector(Tail(sizes))
            IN IF n > 0 /\ Failed(row) THEN row ELSE Vector([i \in 1..n |-> row])
==============================================================================
