------------------------------ MODULE MCLibrary ------------------------------
(***************************************************************************)
(* Small inputs of the natives, and what the natives promise of each other.*)
(* An input names a law and has what the law is about.                     *)
(***************************************************************************)
EXTENDS Subscripts

TextsOf(n) == SeqOf({97, 98, 44}, n)
Scalars == {Integer(n) : n \in 0..2} \cup {Real(1), Real(2), Char(1), Bool(TRUE)}
Sorts == {SeqOf({Integer(0), Integer(2), Real(1), Char(2)}, 3), SeqOf({String(<<97>>), String(<<98>>), String(<<>>)}, 3)}
Holders == {String(s) : s \in SeqOf({97, 98}, 3)} \cup {Bytes(s) : s \in SeqOf({0, 1}, 3)}
               \cup {Vector(s) : s \in SeqOf({Integer(0), String(<<>>), None}, 2)}

Maps == {Map(Put(Put(<<>>, Integer(k), Integer(7)), Integer(l), Char(97))) : k, l \in 0..2} \cup {Map(<<>>)}
Numbers10 == {Integer(n) : n \in {0, 1, -1, 5, 300, -400}} \cup {Char(97), Bool(TRUE), Real(2)}
Nested == {Vector(<<a, b>>) : a, b \in {Vector(<<Integer(1), Integer(2)>>), String(<<97, 97>>), Integer(6), Bool(TRUE)}
                                     \cup {m \in Maps : dosizeof(m) = Integer(2)}}
          \cup {Map(Put(Put(<<>>, Integer(0), Vector(<<Integer(1), Integer(2)>>)), Integer(1), String(<<97, 98>>)))}

\* The number whose lowest bit is the first.
NumberInBits(places) == FoldRight(LAMBDA b, n : getInt(b) + 2 * n, places, 0)

Tag(law, S) == {[law |-> law, of |-> s] : s \in S}

NumberToken(n, then) == [is |-> "number", n |-> n, then |-> then]
Sign(s) == DateToken(s, 0, "")
MonthWord(n) == DateToken("month", n - 1, "")

\* A template as what it is made of: how each part is written, and what is made of it.
Means(p) == CASE p.kind = "text" -> p.text
              [] p.kind = "expression" -> <<1>> \o p.text
              [] p.kind = "code" -> <<2>> \o p.text
Rendered(p) == CASE p.kind = "text" -> p.text
                 [] p.kind = "expression" -> <<Hash, Brace>> \o p.text \o <<Unbrace>>
                 [] p.kind = "code" -> <<Less, Percent>> \o p.text \o <<Percent, Greater>>
TemplateParts == {Part("text", <<97>>), Part("text", <<Unbrace>>), Part("text", <<Less, 97>>),
                  Part("text", <<Percent>>), Part("expression", <<97>>), Part("expression", <<>>),
                  Part("expression", <<Brace, 97, Unbrace>>), Part("expression", <<Less, Percent>>),
                  Part("code", <<97>>), Part("code", <<97, Hash, Brace>>), Part("code", <<97, Percent, 98>>)}

Inputs == Tag("cut", TextsOf(4) \X {<<97>>, <<44, 44>>, <<97, 98>>, <<97, 97, 98>>} \X {<<>>, <<120>>, <<120, 121>>})
    \cup Tag("runs", Holders \X {0, 97})
    \cup Tag("runs", {Vector(s) : s \in SeqOf({Integer(97), Integer(0), Char(97)}, 4)} \X {0, 97})
    \cup Tag("trim", SeqOf({97, Space, 9}, 4))
    \cup Tag("order", UNION {S \X S : S \in Sorts})
    \cup Tag("hash", Scalars \X Scalars)
    \cup Tag("memory", [1..4 -> {0, 255}] \X (0..3) \X {1, 2} \X {-1, 0, 1, 200, 256, 511})
    \cup Tag("digits", {0, 1, 7, 8, 100, 511} \X (0..11) \X BOOLEAN)
    \cup Tag("date", {1, 12, 31} \X {1, 12} \X {70, 99, 1999, 2005} \X {1, 11, 12} \X {0, 59})
    \cup Tag("template", SeqOf(TemplateParts, 3))
    \cup Tag("element", (Holders \cup Maps \cup Numbers10) \X ((-1)..4) \X {Integer(1), Integer(2), Char(98)})
    \cup Tag("range", (Holders \cup Numbers10) \X ((-1)..4) \X (0..4))
    \cup Tag("path", Nested \X (0..1) \X (0..1) \X {Integer(3), Char(98)})
    \cup Tag("new", SeqOf(-1..3, 3) \ {<<>>})
    \cup Tag("place", Holders \X (0..3) \X (0..3))

-----------------------------------------------------------------------------
Found(x, val, back) == findn(x, val, Integer(IF back THEN Size(x) - (IF x.type = "string" THEN 0 ELSE 1) ELSE 0),
                             Integer(IF back THEN -1 ELSE 1))
TextsIn(r) == [i \in DOMAIN r.v |-> r.v[i].v]
Glued(pieces, sep) == FlattenSeq([i \in DOMAIN pieces |-> IF i = 1 THEN pieces[1] ELSE sep \o pieces[i]])
Without(s, goes(_)) == SelectSeq(s, LAMBDA e : ~goes(e))

\* The pieces between separators, put together with them, are the text, and with
\* something else are the text with that in their place; replacing one after the
\* other does the same.  What is found from the end is what is found from the
\* beginning of the text written backwards.
Cut(x, sep, new) ==
    LET p == String(sep)
    IN \A pieces \in {TextsIn(split(x, p))},
          firsts \in {FoldLeft(LAMBDA s, i : replace(s, p, String(new), Integer(0)), x, [i \in 1..Size(x) |-> i])} :
       /\ Glued(pieces, sep) = x.v
       /\ replace(x, p, String(new), Integer(1)).v = Glued(pieces, new)
       /\ new # <<>> => firsts.v = Glued(pieces, new)
       /\ \A i \in DOMAIN pieces : Found(String(pieces[i]), p, FALSE) = Integer(-1)
       /\ Found(x, p, FALSE) = Integer(IF Len(pieces) = 1 THEN -1 ELSE Len(pieces[1]))
       /\ \A mirrored \in {Found(String(Reversed(x.v)), String(Reversed(sep)), FALSE)} :
             Found(x, p, TRUE) = IF mirrored = Integer(-1) THEN mirrored
                                 ELSE Integer(Size(x) - Len(sep) - mirrored.v)

\* A piece between single separators has none in it, only the first is empty, and
\* together they are all the rest.  (A piece of one element is that element.)
Unwrapped(x, e) == IF e.type = x.type THEN e.v
                   ELSE <<IF x.type = "vector" THEN e ELSE e.v>>
RunsRight(x, n) ==
    LET goes(e) == IF x.type = "vector" THEN cmpeq(e, Integer(n)) = Bool(TRUE) ELSE e = n
    IN \A r \in {split(x, Integer(n))} : r.type = "vector" =>
       \A pieces \in {[i \in DOMAIN r.v |-> Unwrapped(x, r.v[i])]} :
         /\ FlattenSeq(pieces) = Without(x.v, goes)
         /\ \A i \in DOMAIN pieces : /\ Without(pieces[i], goes) = pieces[i]
                                     /\ pieces[i] = <<>> => i = 1 /\ (x.v = <<>> \/ goes(x.v[1]))

\* What trim leaves is trimmed, and misses nothing but white space at the ends.
TrimRight(s) ==
    LET goes(c) == c \in Spaces
    IN \A t \in {trim(String(s)).v} :
       /\ trim(String(t)).v = t
       /\ t # <<>> => ~goes(t[1]) /\ ~goes(t[Len(t)])
       /\ Without(t, goes) = Without(s, goes)
       /\ t = <<>> \/ \E i \in 1..Len(s) : SubSeq(s, i, i + Len(t) - 1) = t

\* A sorted vector has the same elements, bsearch finds in it what the operator
\* in finds, and merging two is sorting both.
OrderRight(s, t) ==
    LET Elements == ToSet(s) \cup ToSet(t)
        Times(e, r) == Cardinality({i \in DOMAIN r : r[i] = e})
    IN \A p \in sort(Vector(s)), q \in sort(Vector(t)) :
         /\ \A e \in Elements : /\ Times(e, p.v) = Times(e, s)
                                /\ bsearch(p, e) = in(e, Vector(s))
         /\ LET m == merge(p, q).v
            IN Ordered(m) /\ \A e \in Elements : Times(e, m) = Times(e, s) + Times(e, t)

\* Numbers that are equal have the same hash code.
HashRight(x, y) == cmpeq(x, y) = Bool(TRUE) => hashCode(x) = hashCode(y)

\* What is read from memory is what was written there, cut to its size, and the
\* rest is as it was.
MemoryRight(bytes, at, size, n) ==
    LET p == [type |-> "pointer", v |-> <<at, 4>>]
        all == [type |-> "memory", v |-> <<0, 4>>]
        after == poke(bytes, p, Integer(n), Integer(size))
    IN at + size <= 4 =>
         /\ peek(after.v, p, Integer(size), Integer(0)) = [type |-> "integer", v |-> n % 256^size]
         /\ LET r == peek(after.v, all, Integer(4), Integer(1)).v
            IN \A i \in 1..4 : i \notin at + 1 .. at + size => r[i] = bytes[i]
         /\ poke(after.v, p, peek(bytes, p, Integer(size), Integer(1)), Integer(size)) = Bytes(bytes)

\* Digits written in a base, behind what marks the base in the language, are read
\* as the number, whatever the width they are filled to with zeros; a width that
\* is too small is none, except in binary.
DigitsRight(n, width, zero) ==
    \A conv \in {"d", "x", "o", "b"} :
        LET d == Directive(conv, FALSE, zero, width)
            mark == CASE conv = "d" -> <<>> [] conv = "x" -> <<Literal(Digit0), Literal(LetterX)>>
                      [] conv = "o" -> <<Literal(Digit0)>> [] conv = "b" -> <<Literal(Digit0), Literal(LetterB)>>
            needed == Len(format(<<Directive(conv, FALSE, FALSE, 0)>>, <<Integer(n)>>).v)
            fits == (zero /\ conv # "d") \/ width <= needed
        IN conv # "b" \/ width = 0 \/ width >= needed =>
             /\ fits => convertStringToInt(format(Append(mark, d), <<Integer(n)>>).v) = Integer(n)
             /\ Len(format(<<d>>, <<Integer(n)>>).v) = (IF width > needed THEN width ELSE needed)
             /\ conv = "d" /\ ~zero => convertStringToInt(format(<<d>>, <<Integer(n)>>).v) = Integer(n)

\* A date is understood in each of the ways it may be written, the time before or
\* after it, with a month's name or its number, in 24 hours or twice 12.
DateRight(day, mon, year, hour, min) ==
    LET now == [sec |-> 1, min |-> 2, hour |-> 3, day |-> 4, mon |-> 5, year |-> 6]
        clock(h) == <<NumberToken(h, ":"), Sign(":"), NumberToken(min, ":"), Sign(":"), NumberToken(30, " ")>>
        words == <<NumberToken(day, " "), MonthWord(mon), NumberToken(year, " ")>>
        slashes == <<NumberToken(mon, "/"), Sign("/"), NumberToken(day, "/"), Sign("/"), NumberToken(year, " ")>>
        dashes == <<NumberToken(year, "-"), Sign("-"), NumberToken(mon, "-"), Sign("-"), NumberToken(day, " ")>>
        date == [type |-> "date",
                 v |-> [sec |-> 30, min |-> min, hour |-> hour, day |-> day, mon |-> mon - 1,
                        year |-> IF year < 1900 THEN year ELSE year - 1900]]
        pm == [date EXCEPT !.v.hour = (hour % 12) + 12]
    IN /\ \A d \in {words, slashes, dashes} : /\ parsedate(d \o clock(hour), now) = date
                                              /\ parsedate(clock(hour) \o d, now) = date
                                              /\ parsedate(d \o Append(clock(hour), Sign("pm")), now) = pm
       /\ parsedate(<<DateToken("weekday", 0, "")>> \o words \o clock(hour) \o <<Sign("utc")>>, now) = date
       /\ parsedate(clock(hour) \o clock(hour), now) = Thrown

\* A template is its text, with what the expressions and the code in it are made
\* of in their places.
TemplateRight(ps) ==
    expand(String(FlattenSeq([i \in DOMAIN ps |-> Rendered(ps[i])])),
           LAMBDA t : String(<<1>> \o t), LAMBDA t : String(<<2>> \o t))
      = String(FlattenSeq([i \in DOMAIN ps |-> Means(ps[i])]))

\* What is inserted is found where it was put and nowhere else, at the end it is
\* what append does; what is filled is found everywhere; a container that grows
\* and shrinks again is what it was, and it is turned round twice.
Stuff(x) == CASE x.type = "string" -> Char(120) [] x.type = "bytevector" -> ByteValue(1) [] OTHER -> Char(120)
PlaceRight(x, n, m) ==
    LET a == Least(n, Size(x))
        b == Least(m, Size(x))
    IN \A y \in {insertAt(x, Stuff(x), Integer(a))}, filled \in {fill(x, Stuff(x), Integer(a), Integer(b))} :
       /\ insertAt(x, Stuff(x), Integer(Size(x))) = append(x, Stuff(x))
       /\ x.type # "bytevector" =>
             \A k \in 0..Size(x) :
                /\ findn(y, Stuff(x), Integer(k), Integer(1)) = Integer(IF k <= a THEN a ELSE -1)
                /\ findn(y, Stuff(x), Integer(k), Integer(-1)) = Integer(IF k < a THEN -1 ELSE a)
       /\ filled = fill(x, Stuff(x), Integer(b), Integer(a))
       /\ \A i \in 1..Size(x) : i > Least(a, b) /\ i <= a + b - Least(a, b) => Element(filled, i) = Stuff(x)
       /\ resize(resize(x, Integer(Size(x) + m)), Integer(Size(x))) = x
       /\ x.type = "vector" => /\ reverse(reverse(x)) = x
                               /\ transform(reverse(x), LAMBDA e : Vector(<<e>>)) = reverse(transform(x, LAMBDA e : Vector(<<e>>)))
       /\ x.type = "string" /\ x.v # <<>> => reduce(x, LAMBDA r, c : c) = x
       /\ clear(y) = resize(x, Integer(0))

\* What is stored in a place is found there, cut to a bit or a byte, and all other
\* places are as they were; what can be stored where can be read there.
Kept(x, val) == CASE x.type \in Whole -> Integer(val.v % 2) [] x.type = "bytevector" -> ByteValue(val.v) [] OTHER -> val
ElementRight(x, i, val) ==
    LET index == Integer(i)
        fits == IF x.type = "string" THEN val.type = "char" ELSE TRUE
    IN \A s \in {setsub(x, val, index)} :
       /\ x.type # "map" /\ fits => Failed(getsub(x, index)) = Failed(s.is)
       /\ ~Failed(s.is) => /\ getsub(s.var, index) = Kept(x, val)
                           /\ \A j \in 0..9 \ {i} : LET was == getsub(x, Integer(j))
                                                     IN Failed(was) \/ getsub(s.var, Integer(j)) = was
       /\ x.type = "map" => /\ getsub(delsub(s.var, index), index) = None
                            /\ \A j \in 0..3 \ {i} : getsub(delsub(x, index), Integer(j)) = getsub(x, Integer(j))

\* A range has what its places have, in the one order or the other; the places of
\* a vector that are deleted leave the others.  (Not so a range of bytes, nor one
\* that is deleted from a string.)
RangeRight(x, from, to) ==
    LET lo == Least(from, to)
        hi == from + to - lo
        bits == getrange(setrange(x, Integer(5), Integer(from), Integer(to)).var, Integer(lo), Integer(hi))
    IN \A r \in {getrange(x, Integer(from), Integer(to))},
          places \in {[k \in 1..(hi - lo + 1) |-> getsub(x, Integer(lo + k - 1))]} :
       /\ r = getrange(x, Integer(to), Integer(from))
       /\ Failed(r) = (Failed(places[1]) \/ Failed(places[Len(places)]))
       /\ ~Failed(r) =>
            CASE x.type \in Whole -> /\ r.v = NumberInBits(places)
                                     /\ bits = Integer(5 % 2^(hi - lo + 1))
              [] x.type \in {"string", "vector"} ->
                    /\ [k \in 1..Size(r) |-> Element(r, k)] = places
                    /\ x.type = "vector" =>
                          \A d \in {delrange(x, Integer(lo), Integer(hi))},
                             set \in {setrange(x, Char(98), Integer(from), Integer(to)).var} :
                             /\ Size(d) = Size(x) - Size(r)
                             /\ insertAt(With(d, SubSeq(d.v, 1, lo)), r, Integer(lo)).v[lo + 1] = r
                             /\ SubSeq(d.v, 1, lo) \o r.v \o SubSeq(d.v, lo + 1, Size(d)) = x.v
                             /\ delrange(set, Integer(lo), Integer(hi)) = d
              [] OTHER -> TRUE

\* An element of an element is stored where it is.
PathRight(x, i, j, val) ==
    LET path == <<Integer(i), Integer(j)>>
        plain == getsub(x, path[1]).type \in {"vector", "map"}
    IN \A s \in {setpath(x, val, path)} : ~Failed(s.is) =>
       \A p, q \in 0..1 : <<p, q>> # <<i, j>> \/ plain =>
           getpath(s.var, <<Integer(p), Integer(q)>>)
             = IF <<p, q>> = <<i, j>> THEN val ELSE getpath(x, <<Integer(p), Integer(q)>>)

\* A new vector has its sizes in each dimension and an object in each place, each
\* its own but those that begin the rows.
NewRight(sizes) ==
    LET paths == {p \in [DOMAIN sizes -> 0..2] : \A i \in DOMAIN sizes : p[i] < sizes[i]}
        last == Len(sizes)
    IN \A r \in {newVector([i \in DOMAIN sizes |-> Integer(sizes[i])], TRUE, 1)} :
       LET at(p) == getpath(r.is, [i \in DOMAIN p |-> Integer(p[i])]) IN
       /\ Failed(r.is) <=> \E i \in DOMAIN sizes : sizes[i] < 0 /\ \A j \in 1..(i - 1) : sizes[j] > 0
       /\ ~Failed(r.is) => \A p, q \in paths : at(p) = at(q) <=> p = q \/ (p[last] = 0 /\ q[last] = 0)
       /\ ~Failed(r.is) => Cardinality({at(p) : p \in paths}) = (IF paths = {} THEN 0 ELSE r.made)
       /\ LET b == newByteVector([i \in DOMAIN sizes |-> Integer(sizes[i])])
          IN Failed(b) = Failed(r.is) /\ (~Failed(b) => Size(b) = Size(r.is))

\* The natives keep their promises for an input.
Right(i) ==
    CASE i.law = "cut" -> Cut(String(i.of[1]), i.of[2], i.of[3])
      [] i.law = "runs" -> RunsRight(i.of[1], i.of[2])
      [] i.law = "trim" -> TrimRight(i.of)
      [] i.law = "order" -> OrderRight(i.of[1], i.of[2])
      [] i.law = "hash" -> HashRight(i.of[1], i.of[2])
      [] i.law = "memory" -> MemoryRight(i.of[1], i.of[2], i.of[3], i.of[4])
      [] i.law = "digits" -> DigitsRight(i.of[1], i.of[2], i.of[3])
      [] i.law = "date" -> DateRight(i.of[1], i.of[2], i.of[3], i.of[4], i.of[5])
      [] i.law = "template" -> TemplateRight(i.of)
      [] i.law = "element" -> ElementRight(i.of[1], i.of[2], i.of[3])
      [] i.law = "range" -> RangeRight(i.of[1], i.of[2], i.of[3])
      [] i.law = "path" -> PathRight(i.of[1], i.of[2], i.of[3], i.of[4])
      [] i.law = "new" -> NewRight(i.of)
      [] i.law = "place" -> PlaceRight(i.of[1], i.of[2], i.of[3])
=============================================================================
