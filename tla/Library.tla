------------------------------- MODULE Library -------------------------------
(***************************************************************************)
(* The natives on containers, text, raw memory and dates, and the expander *)
(* of templates (src/src/native.cc).                                       *)
(*                                                                         *)
(* Values are those of Values.  A native that changes its parameter gives  *)
(* the changed container.  A bytevector that the code takes for a vector   *)
(* of values has a sixteenth of its length.  A function of the program is  *)
(* an operator.                                                            *)
(***************************************************************************)
EXTENDS Conversions

BadParameter == Error("parameter exception")
Thrown == Error("exception")
Aborts == Error("abort")             \* an exception of C++ that nobody catches
Hangs == Error("never returns")

Char(c) == [type |-> "char", v |-> c]
ByteValue(n) == [type |-> "byte", v |-> n]
Failed(x) == x.type \in {"error", "called"}

\* The size of a bytevector, read as that of a vector.
WrongSize(s) == Len(s) \div 16

Size(x) == Len(x.v)

\* What an element of a container becomes as a value, and the other way round
\* where a value is assigned to an unsigned char.
Element(x, i) == CASE x.type = "vector" -> x.v[i]
                   [] x.type = "bytevector" -> ByteValue(x.v[i])
                   [] x.type = "string" -> Char(x.v[i])

With(x, s) == [x EXCEPT !.v = s]

-----------------------------------------------------------------------------
\* Changing a container in place.

Fresh(x) == IF x.type = "vector" THEN None ELSE 0
Resized(x, n) == [i \in 1..n |-> IF i <= Size(x) THEN x.v[i] ELSE Fresh(x)]

\* A value that is assigned to a byte goes by way of a truth value.
Filler(x, val) == CASE x.type = "vector" -> val
                    [] x.type = "bytevector" -> IF Truth(val) THEN 1 ELSE 0
                    [] x.type = "string" -> Byte(getInt(val))

fill(x, val, from, to) ==
    IF ~isIntegral(from) \/ ~isIntegral(to) \/ ~Sequence(x) THEN BadParameter
    ELSE IF x.type = "string" /\ ~isIntegral(val) THEN BadParameter
    ELSE LET a == Least(getInt(from), getInt(to))
             b == IF a = getInt(from) THEN getInt(to) ELSE getInt(from)
             s == IF b > Size(x) THEN Resized(x, b) ELSE x.v
         IN IF a < 0 /\ a < b THEN Undefined
            ELSE With(x, [i \in DOMAIN s |-> IF i > a /\ i <= b THEN Filler(x, val) ELSE s[i]])

resize(x, n) ==
    IF ~isIntegral(n) \/ ~Sequence(x) THEN BadParameter
    ELSE IF getInt(n) < 0 THEN Aborts ELSE With(x, Resized(x, getInt(n)))

clear(x) == IF Sequence(x) \/ x.type = "map" THEN With(x, <<>>) ELSE BadParameter

Text(x) == x.type \in {"string", "char"}
TextOf(x) == IF x.type = "string" THEN x.v ELSE <<Byte(x.v)>>

\* A key of a map is given the value 1.
Mark(m, k) == IF At(m, k) = {} THEN insert(m, k, Integer(1))
              ELSE [i \in DOMAIN m |-> IF i \in At(m, k) THEN <<m[i][1], Integer(1)>> ELSE m[i]]

\* What goes into a container: some elements, or nothing that fits.
Piece(x, val) == CASE x.type = "string" -> TextOf(val)
                   [] x.type = "vector" -> <<val>>
                   [] x.type = "bytevector" -> <<Byte(getInt(val))>>
Fits(x, val) == CASE x.type = "string" -> Text(val)
                  [] x.type = "bytevector" -> isIntegral(val)
                  [] OTHER -> TRUE

append(x, val) ==
    IF x.type = "map" THEN Map(Mark(x.v, val))
    ELSE IF ~Sequence(x) THEN Thrown
    ELSE IF Fits(x, val) THEN With(x, x.v \o Piece(x, val)) ELSE BadParameter

\* A character 0 in a string ends the piece that is inserted.
insertAt(x, val, index) ==
    IF ~isIntegral(index) THEN BadParameter
    ELSE IF x.type = "map" THEN Map(Mark(x.v, val))
    ELSE IF ~Sequence(x) THEN Thrown
    ELSE LET n == getInt(index)
             piece == IF x.type = "string" /\ val.type = "char" /\ Byte(val.v) = 0 THEN <<>> ELSE Piece(x, val)
         IN IF n \notin 0..Size(x) \/ ~Fits(x, val) THEN BadParameter
            ELSE With(x, SubSeq(x.v, 1, n) \o piece \o SubSeq(x.v, n + 1, Size(x)))

-----------------------------------------------------------------------------
\* Looking for something.

\* Where p begins in s.
Places(s, p) == {i \in 1..(Len(s) - Len(p) + 1) : SubSeq(s, i, i + Len(p) - 1) = p}
Nearest(S, back) == CHOOSE i \in S : \A j \in S : IF back THEN j <= i ELSE i <= j
Position(S, back) == Integer(IF S = {} THEN -1 ELSE Nearest(S, back) - 1)

\* A mutant: backwards, the place itself is passed over.
From_Beyond(S, n, back) == {i \in S : IF back THEN i <= n ELSE i > n}

\* Places at or after n, or at or before it.
From(S, n, back) == {i \in S : IF back THEN i <= n + 1 ELSE i > n}

\* The first that is equal, or cannot be compared.
InElements(s, val, n, back) ==
    LET stops == From({i \in DOMAIN s : cmpeq(s[i], val) # Bool(FALSE)}, n, back)
        r == cmpeq(s[Nearest(stops, back)], val)
    IN IF stops = {} \/ r = Bool(TRUE) THEN Position(stops, back) ELSE r

\* Forwards, a bytevector ends where it would as a vector.
InBytes(s, b, n, back) ==
    Position(From({i \in DOMAIN s : s[i] = b /\ (back \/ i <= WrongSize(s))}, n, back), back)

findn(x, val, index, direction) ==
    IF ~isIntegral(index) \/ ~isIntegral(direction) \/ getInt(direction) \notin -1..1 THEN BadParameter
    ELSE LET n == getInt(index)
             back == getInt(direction) < 0
         IN CASE x.type = "vector" ->
                    IF n \in 0..(Size(x) - 1) THEN InElements(x.v, val, n, back) ELSE BadParameter
              [] x.type = "bytevector" ->
                    IF isIntegral(val) /\ n \in 0..(Size(x) - 1)
                    THEN InBytes(x.v, Byte(getInt(val)), n, back) ELSE BadParameter
              [] x.type = "string" ->
                    IF n \notin 0..Size(x) THEN BadParameter
                    ELSE IF val.type \in {"char", "byte", "integer", "string"}
                         THEN Position(From(Places(x.v, IF val.type = "string" THEN val.v ELSE <<Byte(val.v)>>),
                                            n, back), back)
                         ELSE Integer(-1)
              [] x.type = "map" -> IF At(x.v, val) = {} THEN None ELSE x.v[CHOOSE i \in At(x.v, val) : TRUE][2]
              [] x = Null -> Integer(0)
              [] x.type \in Named \ {"interface", "enum"} /\ val.type # "string" -> BadParameter
              [] x.type = "object" \/ x.type \in Named \ {"interface", "enum"} -> Called("find", x, val)
              [] OTHER -> BadParameter

\* Equal values shall have equal hash codes.  Long texts are sampled.
Signed(c) == IF c > 127 THEN c - 256 ELSE c
Codes(s) ==
    LET step == IF Len(s) < 16 THEN 1 ELSE Len(s) \div 8
        factor == IF Len(s) < 16 THEN 37 ELSE 39
    IN FoldLeft(LAMBDA h, k : Wrap(h * factor + s[(k - 1) * step + 1]), 0,
                [k \in 1..((Len(s) + step - 1) \div step) |-> k])

\* An address is the number of what it leads to.
AddressOf(x) == IF x.type \in {"memory", "pointer"} THEN x.v[2] ELSE x.v

\* The iterator over a map is never moved on.
RECURSIVE hashCode(_)
hashCode(x) ==
    CASE x.type = "none" \/ x = Null -> Integer(0)
      [] isIntegral(x) -> Integer(getInt(x))
      [] x.type = "real" -> Integer(Quotient(x.v, Unit))
      [] x.type = "string" -> Integer(Codes([i \in DOMAIN x.v |-> Signed(x.v[i])]))
      [] x.type = "bytevector" -> Integer(Codes(x.v))
      [] x.type = "vector" ->
            FoldLeft(LAMBDA h, y : IF Failed(h) THEN h
                                   ELSE LET r == hashCode(y) IN IF Failed(r) THEN r ELSE Integer(h.v + r.v),
                     Integer(0), x.v)
      [] x.type = "map" -> IF x.v = <<>> THEN Integer(0) ELSE Hangs
      [] checkForOperator(x, "hash") -> Called("hash", x, None)
      [] OTHER -> Integer(AddressOf(x))

-----------------------------------------------------------------------------
\* Taking apart.

\* The elements from each place where a piece starts to the next separator.
CutAt(s, starts, seps) ==
    LET end(i) == IF {j \in seps : j >= i} = {} THEN Len(s) ELSE Nearest({j \in seps : j >= i}, FALSE) - 1
        at == SetToSortSeq(starts, <)
    IN [k \in DOMAIN at |-> SubSeq(s, at[k], end(at[k]))]

\* What is between runs of separators; a run at the end ends the last piece.
Runs(s, isSep(_)) ==
    LET seps == {i \in DOMAIN s : isSep(s[i])}
    IN CutAt(s, {1} \cup {i \in 2..Len(s) : i - 1 \in seps /\ i \notin seps}, seps)

\* What is between occurrences of p.
RECURSIVE Between(_, _)
Between(s, p) ==
    LET i == Nearest(Places(s, p), FALSE)
    IN IF Places(s, p) = {} THEN <<s>>
       ELSE <<SubSeq(s, 1, i - 1)>> \o Between(SubSeq(s, i + Len(p), Len(s)), p)

\* A piece of one element is that element.
Pieces(x, isSep(_)) ==
    Vector([i \in DOMAIN Runs(x.v, isSep) |->
               LET p == Runs(x.v, isSep)[i] IN IF Len(p) = 1 THEN Element(With(x, p), 1) ELSE With(x, p)])

split(x, sep) ==
    CASE x.type = "string" ->
            IF sep.type \in {"integer", "byte", "char"}
            THEN LET runs == Runs(x.v, LAMBDA c : c = Byte(sep.v)) IN Vector([i \in DOMAIN runs |-> String(runs[i])])
            ELSE IF sep.type # "string" THEN BadParameter
            ELSE IF sep.v = <<>> THEN Hangs
            ELSE Vector([i \in DOMAIN Between(x.v, sep.v) |-> String(Between(x.v, sep.v)[i])])
      [] x.type = "vector" ->
            LET odd == {i \in DOMAIN x.v : Failed(cmpeq(x.v[i], sep))}
            IN IF odd # {} THEN cmpeq(x.v[Nearest(odd, FALSE)], sep)
               ELSE Pieces(x, LAMBDA e : cmpeq(e, sep) = Bool(TRUE))
      [] x.type = "bytevector" ->
            IF isIntegral(sep) THEN Pieces(x, LAMBDA e : e = Byte(getInt(sep))) ELSE BadParameter
      [] x = Null -> Integer(0)
      [] x.type = "object" \/ x.type \in Named \ {"interface", "enum"} -> Called("split", x, sep)
      [] OTHER -> BadParameter

Spaces == {Space} \cup 9..13

\* s without what it begins and ends with that is to go.
Trimmed(s, goes(_)) ==
    LET stays == {i \in DOMAIN s : ~goes(s[i])}
    IN IF stays = {} THEN <<>> ELSE SubSeq(s, Nearest(stays, FALSE), Nearest(stays, TRUE))

trim(x) ==
    CASE x.type = "string" -> String(Trimmed(x.v, LAMBDA c : c \in Spaces))
      [] x.type = "vector" -> Vector(Trimmed(x.v, LAMBDA e : e.type = "none"))
      [] x.type = "bytevector" -> IF WrongSize(x.v) = 0 THEN Bytes(<<>>) ELSE Undefined
      [] OTHER -> x

\* Elements that are the one looked for: all of them, or the first.
Exchanged(s, same(_), new, all) ==
    LET hits == {i \in DOMAIN s : same(s[i])}
    IN [i \in DOMAIN s |-> IF i \in hits /\ (all \/ i = Nearest(hits, FALSE)) THEN new ELSE s[i]]

ReplaceText(s, f, r, all) ==
    IF f = <<>> /\ all THEN Hangs
    ELSE IF Places(s, f) = {} THEN String(s)
    ELSE IF all THEN String(FlattenSeq([i \in DOMAIN Between(s, f) |->
                                           IF i = 1 THEN Between(s, f)[1] ELSE r \o Between(s, f)[i]]))
    ELSE LET i == Nearest(Places(s, f), FALSE)
         IN String(SubSeq(s, 1, i - 1) \o r \o SubSeq(s, i + Len(f), Len(s)))

\* Of a bytevector only the beginning is looked at, and only that is returned.
replace(x, f, r, all) ==
    IF ~isIntegral(all) THEN BadParameter
    ELSE CASE x.type = "string" ->
                 IF Text(f) /\ Text(r) THEN ReplaceText(x.v, TextOf(f), TextOf(r), all.v # 0) ELSE BadParameter
           [] x.type = "vector" -> Vector(Exchanged(x.v, LAMBDA e : Same(e, f), r, all.v # 0))
           [] x.type = "bytevector" ->
                 IF isIntegral(f) /\ isIntegral(r)
                 THEN Bytes(Exchanged(SubSeq(x.v, 1, WrongSize(x.v)), LAMBDA e : e = Byte(f.v), Byte(r.v), all.v # 0))
                 ELSE BadParameter
           [] OTHER -> x

-----------------------------------------------------------------------------
\* Order.

Reversed(s) == [i \in DOMAIN s |-> s[Len(s) + 1 - i]]
reverse(x) == IF x.type = "vector" THEN Vector(Reversed(x.v)) ELSE Thrown

\* Vectors that std::sort may leave: any, if < is no order of the elements.
Ordered(s) == \A i, j \in DOMAIN s : i < j => ~less(s[j], s[i])
Arrangements(s) == {[i \in DOMAIN s |-> s[p[i]]] : p \in {q \in [DOMAIN s -> DOMAIN s] : \A i, j \in DOMAIN s : i # j => q[i] # q[j]}}
IsOrder(S) == \A a, b, c \in S : /\ ~(less(a, b) /\ less(b, a))
                                 /\ less(a, c) => less(a, b) \/ less(b, c)
sort(x) == IF x.type # "vector" THEN {BadParameter}
           ELSE {Vector(s) : s \in {t \in Arrangements(x.v) : IsOrder(ToSet(x.v)) => Ordered(t)}}

\* std::merge: of two that are alike the first comes first.
RECURSIVE Merged(_, _)
Merged(s, t) == IF s = <<>> THEN t ELSE IF t = <<>> THEN s
                ELSE IF less(t[1], s[1]) THEN <<t[1]>> \o Merged(s, Tail(t))
                ELSE <<s[1]>> \o Merged(Tail(s), t)
merge(x, y) == IF x.type # "vector" THEN Thrown
               ELSE IF y.type # "vector" THEN Undefined ELSE Vector(Merged(x.v, y.v))

\* std::binary_search halves what may hold the value.
RECURSIVE LowerBound(_, _, _, _)
LowerBound(s, val, first, n) ==
    IF n = 0 THEN first
    ELSE LET half == n \div 2
         IN IF less(s[first + half + 1], val) THEN LowerBound(s, val, first + half + 1, n - half - 1)
                                              ELSE LowerBound(s, val, first, half)
bsearch(x, val) ==
    IF x.type # "vector" THEN BadParameter
    ELSE LET i == LowerBound(x.v, val, 0, Size(x))
         IN Integer(IF i < Size(x) /\ ~less(val, x.v[i + 1]) THEN 1 ELSE 0)

-----------------------------------------------------------------------------
\* Functions of the program over containers.

Untouched == {"map", "class", "function", "thread", "monitor", "package"}

\* A string grows by what the function makes of it and the next character; of
\* a vector the first element is the start.
Extended(r, y) == IF Text(y) THEN String(r.v \o TextOf(y)) ELSE Thrown
reduce(x, f(_, _)) ==
    CASE x.type = "string" ->
            IF x.v = <<>> THEN Thrown
            ELSE FoldLeft(LAMBDA r, c : IF Failed(r) THEN r ELSE Extended(r, f(r, Char(c))), String(<<>>), x.v)
      [] x.type = "vector" -> IF x.v = <<>> THEN Thrown ELSE FoldLeft(f, x.v[1], Tail(x.v))
      [] x.type \in Untouched -> x
      [] OTHER -> f(None, x)

\* What the function makes of the elements becomes a container of the same type.
Shaped(x, made) ==
    CASE x.type = "string" -> IF \A i \in DOMAIN made : made[i].type = "char"
                              THEN String([i \in DOMAIN made |-> Byte(made[i].v)]) ELSE Thrown
      [] x.type = "vector" -> Vector(made)
      [] x.type = "bytevector" -> Bytes([i \in DOMAIN made |-> Byte(made[i].v)])
transform(x, f(_)) ==
    IF Sequence(x) THEN Shaped(x, [i \in DOMAIN x.v |-> f(Element(x, i))])
    ELSE IF x.type \in Untouched THEN x ELSE f(x)

-----------------------------------------------------------------------------
\* Raw memory: bytes, the least significant of a number first.

AddressType(x) == x.type \in {"memory", "pointer"}
Offset(x) == IF x.type = "pointer" THEN x.v[1] ELSE 0

\* The k lowest bytes of n.
Lowest(n, k) == [i \in 1..k |-> Byte(n \div 2^Least(8 * (i - 1), Width - 1))]

\* The bytes that go to memory; of a value that is shorter, what follows it.
Poked(value, size) ==
    IF isIntegral(value) THEN IF size \in {1, 2, 4, 8} THEN Lowest(getInt(value), size) ELSE <<>>
    ELSE SubSeq(value.v, 1, size)

poke(bytes, addr, value, size) ==
    LET n == getInt(size)
        at == Offset(addr)
    IN IF ~isIntegral(size) \/ ~(isIntegral(addr) \/ AddressType(addr))
            \/ ~(isIntegral(value) \/ value.type \in {"bytevector", "string"}) THEN BadParameter
       ELSE IF isIntegral(value) /\ n \notin {1, 2, 4, 8} THEN BadParameter
       ELSE IF isIntegral(addr) \/ at + n > Len(bytes) THEN Undefined
       ELSE IF ~isIntegral(value) /\ n > Size(value) THEN Undefined
       ELSE Bytes([i \in DOMAIN bytes |-> IF i > at /\ i <= at + n THEN Poked(value, n)[i - at] ELSE bytes[i]])

\* The number that bytes make, signed when they are as many as an integer has.
RECURSIVE NumberOf(_)
NumberOf(s) == IF s = <<>> THEN 0 ELSE s[1] + 256 * NumberOf(Tail(s))

peek(bytes, addr, size, asBytes) ==
    LET n == getInt(size)
        at == Offset(addr)
        s == SubSeq(bytes, at + 1, at + n)
    IN IF ~isIntegral(size) \/ ~(isIntegral(addr) \/ AddressType(addr)) THEN BadParameter
       ELSE IF isIntegral(addr) \/ at + n > Len(bytes) THEN Undefined
       ELSE IF asBytes.v # 0 \/ n \notin {1, 2, 4, 8} THEN Bytes(s)
       ELSE IF n = 8 THEN Integer(NumberOf(SubSeq(s, 1, (Width + 7) \div 8))) ELSE [type |-> "integer", v |-> NumberOf(s)]

-----------------------------------------------------------------------------
(***************************************************************************)
(* Formatted text.  A format is a sequence of characters (conv is "text")  *)
(* and directives, with a width and flags.                                 *)
(***************************************************************************)
Directive(conv, left, zero, width) ==
    [conv |-> conv, text |-> 0, left |-> left, zero |-> zero, width |-> width]
Literal(c) == [conv |-> "text", text |-> c, left |-> FALSE, zero |-> FALSE, width |-> 0]

Repeated(c, n) == [i \in 1..n |-> c]

\* sprintf fills up to the width; zeros come after the sign.
Padded(s, d, zero) ==
    LET n == d.width - Len(s)
        sign == IF Starts(s, Minus) THEN <<Minus>> ELSE <<>>
    IN IF d.left THEN s \o Repeated(Space, n)
       ELSE IF zero THEN sign \o Repeated(Digit0, n) \o SubSeq(s, Len(sign) + 1, Len(s))
       ELSE Repeated(Space, n) \o s

\* The digits of n, which is not negative.
DigitCode(k) == IF k < 10 THEN Digit0 + k ELSE 87 + k
RECURSIVE InBase(_, _)
InBase(n, base) == IF n < base THEN <<DigitCode(n)>>
                   ELSE Append(InBase(n \div base, base), DigitCode(n % base))

BaseOf(conv) == CASE conv = "x" -> 16 [] conv = "o" -> 8 [] conv = "b" -> 2

formatNumber(x, d) ==
    LET n == IF x.type = "real" THEN Wrap(Quotient(x.v, Unit)) ELSE getInt(x)
    IN IF ~isIntegral(x) /\ x.type # "real" THEN Thrown
       ELSE String(Padded(IF d.conv = "d" THEN Decimal(n) ELSE InBase(n % 2^Width, BaseOf(d.conv)), d, d.zero))

formatChar(x, d) == IF x.type \in {"integer", "char", "byte", "bool"} THEN String(Padded(<<Byte(x.v)>>, d, FALSE))
                    ELSE Thrown

formatString(x, d) ==
    IF x.type \in {"integer", "char", "byte", "enumconst"} THEN String(Padded(Decimal(getInt(x)), d, FALSE))
    ELSE IF x.type \in {"bool", "string"} THEN String(Padded(toString(x), d, FALSE))
    ELSE IF x.type \in Blocks \ {"interface"} THEN String(Padded(Name(x), d, FALSE))
    ELSE Thrown

\* Binary digits are written by the library itself: from the left, with a space
\* too many behind, or from the right, where digits beyond the width are lost.
formatBinary(x, d) ==
    LET s == InBase(x.v % 2^Width, 2)
        fill0 == Repeated(IF d.zero THEN Digit0 ELSE Space, d.width - Len(s))
        width == IF d.width = 0 THEN Len(s) ELSE d.width
        all == fill0 \o s
    IN IF x.type \notin {"integer", "char", "byte", "bool"} THEN Thrown
       ELSE String(IF d.left THEN s \o Repeated(Space, width - Len(s) + 1)
                   ELSE SubSeq(all, Len(all) - width + 1, Len(all)))

\* The text of one directive; format, unlike vformat, passes over %c.
formatted(x, d) == CASE d.conv \in {"d", "x", "o"} -> formatNumber(x, d)
                     [] d.conv = "c" -> formatChar(x, d)
                     [] d.conv = "s" -> formatString(x, d)
                     [] d.conv = "b" -> formatBinary(x, d)

Formatted(items, args, skipped) ==
    LET step(r, d) ==
            IF Failed(r.is) THEN r
            ELSE IF d.conv = "text" THEN [r EXCEPT !.is = String(Append(@.v, d.text))]
            ELSE IF d.conv \in skipped THEN r
            ELSE IF r.next > Len(args) THEN [r EXCEPT !.is = Undefined]
            ELSE LET s == formatted(args[r.next], d)
                 IN [is |-> IF Failed(s) THEN s ELSE String(r.is.v \o s.v), next |-> r.next + 1]
    IN FoldLeft(step, [is |-> String(<<>>), next |-> 1], items).is

format(items, args) == Formatted(items, args, {"c"})
vformat(items, args) == IF args.type = "vector" THEN Formatted(items, args.v, {}) ELSE BadParameter

-----------------------------------------------------------------------------
(***************************************************************************)
(* Dates.  A token is a number, with the character that follows it, a sign *)
(* or a word; of the words, days are passed over.                          *)
(***************************************************************************)
DateToken(is, n, then) == [is |-> is, n |-> n, then |-> then]
Unset == -1
NoDate == [sec |-> Unset, min |-> Unset, hour |-> Unset, day |-> Unset, mon |-> Unset, year |-> Unset,
           utc |-> FALSE, prev |-> "end", bad |-> FALSE]

Bad(d) == [d EXCEPT !.bad = TRUE]

\* The first of the fields that has no value yet gets n; all set is an error.
Give(d, fields, n) ==
    LET free == {i \in DOMAIN fields : d[fields[i]] = Unset}
        f == fields[Nearest(free, FALSE)]
    IN IF free = {} THEN Bad(d) ELSE [d EXCEPT ![f] = IF f = "mon" THEN n - 1 ELSE n]

\* A number's place follows from what is next to it, and what is known already.
\* A difference from UTC is read and not used.
DateNumber(d, n, then) ==
    IF d.year # Unset /\ (d.prev = "+" \/ (d.prev = "-" /\ d.utc)) THEN d
    ELSE IF d.year # Unset /\ d.prev = "-" THEN Give(d, <<"mon", "day">>, n)
    ELSE IF n >= 70 THEN IF d.year # Unset THEN Bad(d) ELSE [d EXCEPT !.year = IF n < 1900 THEN n ELSE n - 1900]
    ELSE IF then = ":" THEN Give(d, <<"hour", "min">>, n)
    ELSE IF then = "/" THEN Give(d, <<"mon", "day">>, n)
    ELSE IF d.hour # Unset /\ d.min = Unset THEN [d EXCEPT !.min = n]
    ELSE IF d.min # Unset /\ d.sec = Unset THEN [d EXCEPT !.sec = n]
    ELSE Give(d, <<"day">>, n)

DateWord(d, t) ==
    CASE t.is \in {"/", ":", "+", "-"} -> [d EXCEPT !.prev = t.is]
      [] t.is = "weekday" -> d
      [] t.is = "month" -> IF d.mon = Unset THEN [d EXCEPT !.mon = t.n] ELSE Bad(d)
      [] t.is \in {"am", "pm"} /\ d.hour \notin 1..12 -> Bad(d)
      [] t.is = "am" /\ d.hour \in 1..12 -> [d EXCEPT !.hour = (@ % 12)]
      [] t.is = "pm" /\ d.hour \in 1..12 -> [d EXCEPT !.hour = (@ % 12) + 12]
      [] t.is = "utc" -> IF d.utc THEN Bad(d) ELSE [d EXCEPT !.utc = TRUE]
      [] OTHER -> Bad(d)

\* Fields that are not given are those of now; mktime does the rest.
parsedate(tokens, now) ==
    LET d == FoldLeft(LAMBDA e, t : IF e.bad THEN e
                                    ELSE IF t.is = "number" THEN [DateNumber(e, t.n, t.then) EXCEPT !.prev = "number"]
                                    ELSE DateWord(e, t), NoDate, tokens)
    IN IF d.bad THEN Thrown
       ELSE [type |-> "date", v |-> [f \in DOMAIN now |-> IF d[f] = Unset THEN now[f] ELSE d[f]]]

-----------------------------------------------------------------------------
(***************************************************************************)
(* The expander of templates: #{expression} and <% code %> in a text are   *)
(* replaced by the expression's value and the code's output.               *)
(***************************************************************************)
Hash == 35
Brace == 123
Unbrace == 125
Less == 60
Percent == 37
Greater == 62
Equals == 61
EofChar == 255      \* what get returns at the end, as a character

At1(s, i) == IF i <= Len(s) THEN s[i] ELSE EofChar

\* The place after the brace that closes what begins at i, at a depth.
RECURSIVE Closing(_, _, _)
Closing(s, i, depth) ==
    IF i > Len(s) THEN i
    ELSE LET d == depth + (IF s[i] = Brace THEN 1 ELSE IF s[i] = Unbrace THEN -1 ELSE 0)
         IN IF d = 0 THEN i ELSE Closing(s, i + 1, d)

\* Where the code that begins at i has its %>.  A percent sign takes the next
\* character with it.
RECURSIVE CodeEnd(_, _)
CodeEnd(s, i) == IF i >= Len(s) THEN Len(s) + 1
                 ELSE IF s[i] # Percent THEN CodeEnd(s, i + 1)
                 ELSE IF s[i + 1] = Greater THEN i ELSE CodeEnd(s, i + 2)

Part(kind, s) == [kind |-> kind, text |-> s]

\* The parts of a template.  What follows a # that is neither # nor { is lost;
\* an expression in <%= %> has the = for its first character.
RECURSIVE Parts(_)
Parts(s) ==
    LET hash == SubSeq(s, 3, Closing(s, 3, 1) - 1)
        code == SubSeq(s, 3, CodeEnd(s, 4) - 1)
        rest(i) == Parts(SubSeq(s, i, Len(s)))
    IN IF s = <<>> THEN <<>>
       ELSE IF s[1] \notin {Hash, Less} THEN <<Part("text", <<s[1]>>)>> \o rest(2)
       ELSE IF s[1] = Hash
       THEN IF At1(s, 2) # Brace THEN <<Part("text", <<Hash>>)>> \o rest(3)
            ELSE IF Closing(s, 3, 1) > Len(s) THEN <<Part("expression", Append(hash, EofChar))>>
            ELSE <<Part("expression", hash)>> \o rest(Closing(s, 3, 1) + 1)
       ELSE IF At1(s, 2) # Percent THEN <<Part("text", <<Less, At1(s, 2)>>)>> \o rest(3)
       ELSE IF CodeEnd(s, 4) > Len(s) THEN <<Part("unclosed", code)>>
       ELSE <<Part(IF code[1] = Equals THEN "expression" ELSE "code", code)>> \o rest(CodeEnd(s, 4) + 2)

\* What has been made so far, and one part more; an error ends it.
Expanded(r, y) == IF Failed(r) THEN r ELSE IF Failed(y) THEN y ELSE String(r.v \o y.v)
expand(x, eval(_), run(_)) ==
    IF x.type # "string" THEN BadParameter
    ELSE FoldLeft(LAMBDA r, p : Expanded(r, CASE p.kind = "text" -> String(p.text)
                                              [] p.kind = "expression" -> eval(p.text)
                                              [] p.kind = "code" -> run(p.text)
                                              [] p.kind = "unclosed" -> Thrown),
                  String(<<>>), Parts(x.v))
=============================================================================
