---------------------------- MODULE Serialization ----------------------------
(***************************************************************************)
(* The natives serialize and deserialize (src/src/native.cc) in their four *)
(* formats, with the XML parser they use (src/src/xml.cc).                 *)
(*                                                                         *)
(* An output is a sequence of tokens.  A token of a text is a character or *)
(* a word that is read and compared as a whole (an element, a class, a     *)
(* member); digits are tokens of their own.  In the binary format a token  *)
(* is a byte, or a character of a string.                                  *)
(*                                                                         *)
(* A value has a type and, as the type asks, a number, a text, parts (the  *)
(* elements of a vector; <<key, value>> of a map) or a reference to an     *)
(* object in a heap, 0 for null.  A real is a number of tenths and prints  *)
(* in full.  An object has a class, is a monitor or not, and has members.  *)
(***************************************************************************)
EXTENDS Integers, Sequences, SequencesExt, TLC

CONSTANTS
    TopLevel,   \* The classes that are found by their name alone.
    Extended,      \* The class each extends, "" for none.
    Variables,  \* The variables each adds to it, in the order of their names.
    Parameters  \* Those of them that are parameters of the constructor.

Val(t, num, text, parts, ref) == [type |-> t, num |-> num, text |-> text, parts |-> parts, ref |-> ref]
Number(t, n) == Val(t, n, <<>>, <<>>, 0)
String(s) == Val("string", 0, s, <<>>, 0)
Vector(parts) == Val("vector", 0, <<>>, parts, 0)
MapOf(parts) == Val("map", 0, <<>>, parts, 0)
Reference(o) == Val("object", 0, <<>>, <<>>, o)
NoValue == Number("none", 0)

\* A character, with its code.
Codes == [a |-> 97, b |-> 98] @@ ("\"" :> 34) @@ ("<" :> 60) @@ ("\\" :> 92)
Letter(c) == Val("char", Codes[c], <<c>>, <<>>, 0)
Letters(n) == {c \in DOMAIN Codes : Codes[c] = n}

\* What is in a vector but has no form of its own: functions, classes, threads,
\* enumerations and streams.
Formless == {"function", "enumconst", "stream", "none"}

RECURSIVE AllVariables(_)
AllVariables(c) == IF c = "" THEN <<>> ELSE AllVariables(Extended[c]) \o Variables[c]

\* What a constructor that was given nothing leaves in a variable.
Initial(c, x) == IF x \in Parameters[c] THEN NoValue ELSE Number("integer", 0)

-----------------------------------------------------------------------------
(***************************************************************************)
(* Writing.  One level of a value is a sequence of pieces, which are text, *)
(* or values to be written in their place; names are those objects got, in *)
(* the order in which they were met.                                       *)
(***************************************************************************)
DigitNames == <<"0", "1", "2", "3", "4", "5", "6", "7", "8", "9">>
RECURSIVE Natural(_)
Natural(n) == (IF n < 10 THEN <<>> ELSE Natural(n \div 10)) \o <<DigitNames[(n % 10) + 1]>>
Decimal(n) == IF n < 0 THEN <<"-">> \o Natural(-n) ELSE Natural(n)
RealText(n) == (IF n < 0 THEN <<"-">> ELSE <<>>)
               \o LET m == IF n < 0 THEN -n ELSE n
                  IN Natural(m \div 10) \o (IF m % 10 = 0 THEN <<>> ELSE <<".">> \o Natural(m % 10))

ObjectName(i) == "object-" \o ToString(i)
IndexOf(names, o) == CHOOSE i \in DOMAIN names : names[i] = o

Text(tokens) == [text |-> tokens, val |-> NoValue]
Piece(v) == [text |-> <<>>, val |-> v]
Lists(ps) == FlattenSeq(ps)
Between(sep, ps) == [i \in 1 .. (IF ps = <<>> THEN 0 ELSE 2 * Len(ps) - 1) |->
                        IF i % 2 = 1 THEN ps[(i + 1) \div 2] ELSE <<Text(sep)>>]

Escapes == [c \in {"\"", "\\", "<", ">", "&"} |->
              CASE c \in {"\"", "\\"} -> <<"\\", c>>
                [] c = "<" -> <<"&", "l", "t", ";">>
                [] c = ">" -> <<"&", "g", "t", ";">>
                [] c = "&" -> <<"&", "a", "m", "p", ";">>]
escape(s) == FlattenSeq([i \in DOMAIN s |-> IF s[i] \in DOMAIN Escapes THEN Escapes[s[i]] ELSE <<s[i]>>])

Attribute(name, text) == <<" ", name, "=", "\"">> \o text \o <<"\"">>
Element(name, text) == <<"<", name>> \o Attribute("value", text) \o <<"/", ">">>
Close(name) == <<"<", "/", name, ">">>
Truth(n) == IF n = 0 THEN <<"false">> ELSE <<"true">>

\* The members of an object, those of the class it extends first; a member that
\* is a function or a class is not written.
MembersOf(obj) == SelectSeq(AllVariables(obj.class),
                            LAMBDA x : obj.members[x].type \notin {"function", "enumconst"})

XMLPieces(heap, names, v) ==
    CASE v.type \in {"integer", "byte"} -> <<Text(Element(v.type, Decimal(v.num)))>>
      [] v.type = "bool" -> <<Text(Element("boolean", Truth(v.num)))>>
      [] v.type = "char" -> <<Text(Element("char", v.text))>>
      [] v.type = "real" -> <<Text(Element("real", RealText(v.num)))>>
      [] v.type = "string" -> <<Text(Element("string", escape(v.text)))>>
      [] v.type \in {"vector", "map"} ->
           <<Text(<<"<", v.type>> \o Attribute("size", Decimal(Len(v.parts))) \o <<">">>)>>
           \o Lists([i \in DOMAIN v.parts |->
                IF v.type = "vector" THEN <<Piece(v.parts[i])>>
                ELSE <<Text(<<"<", "first", ">">>), Piece(v.parts[i][1]), Text(Close("first")),
                       Text(<<"<", "second", ">">>), Piece(v.parts[i][2]), Text(Close("second"))>>])
           \o <<Text(Close(v.type))>>
      \* Its bytes are counted in units of the size of a value: there is none in a
      \* short one.
      [] v.type = "bytevector" ->
           <<Text(<<"<", v.type>> \o Attribute("size", Decimal(Len(v.parts))) \o <<">">> \o Close(v.type))>>
      [] v.type = "object" /\ v.ref = 0 -> <<Text(<<"null">>)>>
      [] v.type = "object" /\ v.ref # 0 /\ v.ref \in ToSet(names) ->
           <<Text(<<"<", "objectref">> \o Attribute("name", <<ObjectName(IndexOf(names, v.ref) - 1)>>)
                  \o <<"/", ">">>)>>
      [] v.type = "object" /\ v.ref # 0 /\ v.ref \notin ToSet(names) ->
           LET obj == heap[v.ref]
               element == IF obj.monitor THEN "monitor" ELSE "object"
           IN <<Text(<<"<", element>> \o Attribute("name", <<ObjectName(Len(names))>>)
                     \o Attribute("type", <<obj.class>>) \o <<">">>)>>
              \o Lists([i \in DOMAIN MembersOf(obj) |->
                   LET x == MembersOf(obj)[i]
                   IN <<Text(<<"<", "member">> \o Attribute("name", <<x>>) \o <<">">>),
                        Piece(obj.members[x]), Text(Close("member"))>>])
              \o <<Text(Close(element))>>
      [] v.type \in Formless -> <<>>

\* For another program (export) an object is a map and each time written out.
JSONPieces(heap, names, v, export) ==
    CASE v.type \in {"integer", "byte"} -> <<Text(Decimal(v.num))>>
      [] v.type = "bool" -> <<Text(Truth(v.num))>>
      [] v.type = "char" -> LET quote == IF export THEN "\"" ELSE "'"
                            IN <<Text(<<quote>> \o escape(v.text) \o <<quote>>)>>
      [] v.type = "real" -> <<Text(RealText(v.num))>>
      [] v.type = "string" -> <<Text(<<"\"">> \o escape(v.text) \o <<"\"">>)>>
      [] v.type = "vector" ->
           <<Text(<<"[">>)>> \o Lists(Between(<<",">>, [i \in DOMAIN v.parts |-> <<Piece(v.parts[i])>>]))
           \o <<Text(<<"]">>)>>
      [] v.type = "bytevector" -> <<Text(<<"[", "]">>)>>
      [] v.type = "map" ->
           <<Text(<<"{">>)>>
           \o Lists(Between(<<",">>, [i \in DOMAIN v.parts |->
                       <<Piece(v.parts[i][1]), Text(<<":">>), Piece(v.parts[i][2])>>]))
           \o <<Text(<<"}">>)>>
      [] v.type = "object" /\ v.ref = 0 -> <<Text(<<"null">>)>>
      [] v.type = "object" /\ v.ref # 0 /\ ~export /\ v.ref \in ToSet(names) ->
           <<Text(<<"\"", "@aikidoobjectref@", ObjectName(IndexOf(names, v.ref) - 1), "\"">>)>>
      [] v.type = "object" /\ v.ref # 0 /\ (export \/ v.ref \notin ToSet(names)) ->
           LET obj == heap[v.ref]
               head == IF export THEN <<>>
                       ELSE << <<Text(<<"__aikido_object_name", ":", "\"", ObjectName(Len(names)), "\"">>)>>,
                               <<Text(<<"__aikido_object_type", ":", "\"", obj.class, "\"">>)>> >>
                            \o IF obj.monitor THEN << <<Text(<<"__aikido_is_monitor", "=", "true">>)>> >>
                               ELSE <<>>
               members == [i \in DOMAIN MembersOf(obj) |->
                              <<Text(<<MembersOf(obj)[i], ":">>), Piece(obj.members[MembersOf(obj)[i]])>>]
           IN <<Text(<<"{">>)>> \o Lists(Between(<<",">>, head \o members)) \o <<Text(<<"}">>)>>
      [] v.type \in Formless -> <<>>

\* A byte, and a character, of the binary format.
Byte(n) == [byte |-> n, char |-> "?"]
Char(c) == [byte |-> 97, char |-> c]

\* Seven bits at a time, the lowest first, until the rest is all sign.
RECURSIVE serialize_leb128(_)
serialize_leb128(n) ==
    LET low == n % 128
        rest == n \div 128
    IN IF (rest = 0 /\ low < 64) \/ (rest = -1 /\ low >= 64) THEN <<Byte(low)>>
       ELSE <<Byte(low + 128)>> \o serialize_leb128(rest)

serialize_string(s) == serialize_leb128(Len(s)) \o [i \in DOMAIN s |-> Char(s[i])]

Stype == [integer |-> 64, char |-> 65, byte |-> 66, string |-> 67, real |-> 68, vector |-> 69,
          bytevector |-> 70, map |-> 71, object |-> 72, monitor |-> 73, objectref |-> 74,
          end |-> 75, member |-> 76, bool |-> 77]

BinaryPieces(heap, names, v) ==
    CASE v.type \in {"integer", "bool", "byte", "char", "real"} ->
           <<Text(<<Byte(Stype[v.type])>> \o serialize_leb128(v.num))>>
      [] v.type = "string" -> <<Text(<<Byte(Stype.string)>> \o serialize_string(v.text))>>
      [] v.type \in {"vector", "map"} ->
           <<Text(<<Byte(Stype[v.type])>> \o serialize_leb128(Len(v.parts)))>>
           \o Lists([i \in DOMAIN v.parts |->
                IF v.type = "vector" THEN <<Piece(v.parts[i])>>
                ELSE <<Piece(v.parts[i][1]), Piece(v.parts[i][2])>>])
      [] v.type = "bytevector" ->
           <<Text(<<Byte(Stype.bytevector)>> \o serialize_leb128(Len(v.parts))
                  \o [i \in DOMAIN v.parts |-> Byte(v.parts[i])])>>
      [] v.type = "object" /\ v.ref = 0 -> <<Text(serialize_leb128(0))>>
      [] v.type = "object" /\ v.ref # 0 /\ v.ref \in ToSet(names) ->
           <<Text(<<Byte(Stype.objectref)>> \o serialize_string(<<ObjectName(IndexOf(names, v.ref) - 1)>>))>>
      [] v.type = "object" /\ v.ref # 0 /\ v.ref \notin ToSet(names) ->
           LET obj == heap[v.ref]
           IN <<Text(<<Byte(Stype[IF obj.monitor THEN "monitor" ELSE "object"])>>
                     \o serialize_string(<<ObjectName(Len(names))>>) \o serialize_string(<<obj.class>>))>>
              \o Lists([i \in DOMAIN MembersOf(obj) |->
                   LET x == MembersOf(obj)[i]
                   IN <<Text(<<Byte(Stype.member)>> \o serialize_string(<<x>>)), Piece(obj.members[x])>>])
              \o <<Text(<<Byte(Stype.end)>>)>>
      [] v.type \in Formless -> <<>>

Formats == {"xml", "json", "export", "binary"}

Pieces(heap, names, v, format) ==
    CASE format = "xml" -> XMLPieces(heap, names, v)
      [] format = "json" -> JSONPieces(heap, names, v, FALSE)
      [] format = "export" -> JSONPieces(heap, names, v, TRUE)
      [] format = "binary" -> BinaryPieces(heap, names, v)

\* An object has a name as soon as it is begun, so that its members may refer to
\* it.
Named(names, v) == IF v.type = "object" /\ v.ref # 0 /\ v.ref \notin ToSet(names)
                   THEN Append(names, v.ref) ELSE names

RECURSIVE Write(_, _, _, _)
Write(heap, v, format, s) ==
    FoldLeft(LAMBDA st, p : IF p.val = NoValue THEN [st EXCEPT !.out = @ \o p.text]
                            ELSE Write(heap, p.val, format, st),
             [s EXCEPT !.names = Named(@, v)], Pieces(heap, s.names, v, format))

serialize(heap, v, format) == Write(heap, v, format, [out |-> <<>>, names |-> <<>>]).out

-----------------------------------------------------------------------------
(***************************************************************************)
(* Reading.  d is what has been built: the new objects, which object each  *)
(* name in the input stands for, and what went wrong, if anything did.  A  *)
(* reading operator returns its value v, the place in the input and d.     *)
(***************************************************************************)
Nothing == [heap |-> <<>>, info |-> <<>>, bad |-> ""]
Fail(d, why) == IF d.bad = "" THEN [d EXCEPT !.bad = why] ELSE d

\* The object of a name, 0 (NULL) when it is not known, or not yet.
lookupDeserial(info, name) == LET known == {i \in DOMAIN info : info[i] = name}
                              IN IF known = {} THEN 0 ELSE Max(known)

ObjectRef == "@aikidoobjectref@"

RECURSIVE Owner(_, _)
Owner(c, x) == IF x \in ToSet(Variables[c]) THEN c ELSE Owner(Extended[c], x)

\* A new object of class c.  Its constructor runs, and then the variables the
\* class itself has get what was read for them, which for a text may be another
\* object's name.
deserialize_block(d, c, members, resolve) ==
    [x \in ToSet(AllVariables(c)) |->
        IF x \notin ToSet(Variables[c]) \/ <<x>> \notin DOMAIN members THEN Initial(Owner(c, x), x)
        ELSE LET v == members[<<x>>]
             IN IF resolve /\ v.type = "string" /\ v.text # <<>> /\ v.text[1] = ObjectRef
                THEN Reference(lookupDeserial(d.info, Tail(v.text))) ELSE v]

\* The object that a name stands for; what is read into it is not there yet.
NewObject(d, name, c, isMonitor) ==
    [d EXCEPT !.heap = Append(@, [class |-> c, monitor |-> isMonitor, members |-> <<>>]),
              !.info = Append(@, name)]
Complete(d, o, members, resolve) ==
    [d EXCEPT !.heap[o].members = deserialize_block(d, d.heap[o].class, members, resolve)]

Known(c) == Len(c) = 1 /\ c[1] \in TopLevel

\* A number from its digits, of which a sign counts as one three below 0.
DigitValue(c) == IF c \in ToSet(DigitNames) THEN (CHOOSE i \in 1..10 : DigitNames[i] = c) - 1 ELSE -3
Folded(ds) == FoldLeft(LAMBDA n, c : 10 * n + DigitValue(c), 0, ds)

\* Digits, maybe after a sign, and maybe with a point in them.
strtod(s) == LET neg == s # <<>> /\ s[1] = "-"
                 u == IF neg THEN Tail(s) ELSE s
                 n == IF Contains(u, ".") THEN Folded(SelectSeq(u, LAMBDA c : c # ".")) ELSE 10 * Folded(u)
             IN IF neg THEN -n ELSE n

At(t, i) == IF i \in DOMAIN t THEN t[i] ELSE "eof"
\* What there is from i on up to one of the ends, or to the end of the text.
UpTo(t, i, ends) == LET stops == {j \in i .. Len(t) : t[j] \in ends}
                    IN SubSeq(t, i, IF stops = {} THEN Len(t) ELSE Min(stops) - 1)
Space == {" ", "\n"}

-----------------------------------------------------------------------------
(***************************************************************************)
(* The XML parser.  An element has a name, attributes and children; what   *)
(* is between elements is a child named XML.text.                          *)
(***************************************************************************)
\* A cursor: the character read last, and the place of the next one.
Cursor(t, at) == [last |-> At(t, at), at |-> at + 1]
PastSpaces(t, at) == CHOOSE i \in at .. at + Len(t) + 1 :
                        At(t, i) \notin Space /\ \A j \in at .. i - 1 : At(t, j) \in Space
skipSpaces(t, c) == IF c.last \in Space \cup {"nul"} THEN Cursor(t, PastSpaces(t, c.at)) ELSE c

\* What was read, and the cursor after it and the spaces that follow.
Followed(t, text, at) == [text |-> text] @@ skipSpaces(t, Cursor(t, at))

\* A name ends before a space or >, =, /, its first character excepted.
NameFrom(t, c, rest) == Followed(t, <<c.last>> \o rest, c.at + Len(rest))
NameAt(t, c) == NameFrom(t, c, UpTo(t, c.at, Space \cup {">", "=", "/"}))
readName(t, c) == NameAt(t, skipSpaces(t, c))

\* A value is in quotes, or ends before a space, / or >.
Quoted(t, c, value) == Followed(t, value, c.at + Len(value) + 1)
Unquoted(t, c, rest) == Followed(t, <<c.last>> \o rest, c.at + Len(rest))
ValueAt(t, c) == IF c.last = "\"" THEN Quoted(t, c, UpTo(t, c.at, {"\""}))
                 ELSE Unquoted(t, c, UpTo(t, c.at, Space \cup {"/", ">"}))
readAttributeValue(t, at) == ValueAt(t, skipSpaces(t, [last |-> "nul", at |-> at]))

NewElement(name) == [name |-> name, attributes |-> <<>>, children |-> <<>>]
addChild(stack, child) == [stack EXCEPT ![Len(stack)].children = Append(@, child)]
addBody(stack, text) == IF ToSet(text) \subseteq Space THEN stack
                        ELSE addChild(stack, NewElement(<<"XML.text">>))
Top(stack) == stack[Len(stack)]

RECURSIVE readAttributes(_, _, _), SkipComment(_, _), parse(_, _, _)

\* The attributes of an element up to its >; a text that ends before is read for
\* ever.  A value may not begin with >.
Ended(e, c, empty, bad) == [e |-> e, at |-> c.at, empty |-> empty, bad |-> bad]
With(e, name, value) == [e EXCEPT !.attributes = Append(@, [name |-> name, value |-> value])]
AfterValue(t, e, name, v) == readAttributes(t, v, With(e, name, v.text))
AfterAttribute(t, m, e) ==
    IF m.text = <<"/">> /\ m.last = ">" THEN Ended(e, m, TRUE, "")
    ELSE IF m.last = "=" /\ At(t, PastSpaces(t, m.at)) = ">" THEN Ended(e, m, FALSE, "throws")
    ELSE IF m.last = "=" THEN AfterValue(t, e, m.text, readAttributeValue(t, m.at))
    ELSE readAttributes(t, m, With(e, m.text, <<>>))
readAttributes(t, c, e) ==
    IF c.last = ">" THEN Ended(e, c, FALSE, "")
    ELSE IF c.at > Len(t) + 1 THEN Ended(e, c, FALSE, "hangs")
    ELSE AfterAttribute(t, readName(t, c), e)

\* The place after the next --> that does not begin within another -.
SkipComment(t, c) ==
    IF c.at > Len(t) THEN c.at
    ELSE IF c.last # "-" \/ At(t, c.at) # "-" THEN SkipComment(t, Cursor(t, c.at))
    ELSE IF At(t, c.at + 1) # ">" THEN SkipComment(t, Cursor(t, c.at + 1))
    ELSE c.at + 2

\* What begins with ! or - is taken for a comment, a CDATA section too.
IsComment(name) == Len(name) >= 3 /\ name[1] \in {"!", "-"}
PastComment(t, n) == IF IsSuffix(<<"-", "-">>, n.text) /\ n.last = ">" THEN n.at
                     ELSE SkipComment(t, n)

Parsed(stack, bad) == [tree |-> Top(stack), bad |-> bad]
EndOf(t, at, stack, name) ==
    IF Top(stack).name # name THEN Parsed(stack, "throws")
    ELSE parse(t, at, addChild(SubSeq(stack, 1, Len(stack) - 1), Top(stack)))
Begun(t, stack, a) == IF a.bad # "" THEN Parsed(stack, a.bad)
                      ELSE parse(t, a.at, IF a.empty THEN addChild(stack, a.e) ELSE Append(stack, a.e))
Tagged(t, stack, n) ==
    IF n.text[1] = "/" THEN EndOf(t, n.at, stack, Tail(n.text))
    ELSE IF IsComment(n.text) \/ n.text = <<"?xml">>
    THEN parse(t, IF IsComment(n.text) THEN PastComment(t, n)
                  ELSE n.at + Len(UpTo(t, n.at, {">"})) + 1, stack)
    ELSE Begun(t, stack, readAttributes(t, n, NewElement(n.text)))
AfterText(t, at, stack) == IF at > Len(t) THEN Parsed(stack, "")
                           ELSE Tagged(t, stack, readName(t, [last |-> "nul", at |-> at + 1]))
Bodied(t, at, text, stack) == AfterText(t, at + Len(text), addBody(stack, text))
parse(t, at, stack) == Bodied(t, at, UpTo(t, at, {"<"}), stack)

parseStream(t) == parse(t, 1, <<NewElement(<<"XML.top">>)>>)

HasAttribute(e, name) == \E i \in DOMAIN e.attributes : e.attributes[i].name = <<name>>
getAttribute(e, name) ==
    IF ~HasAttribute(e, name) THEN <<>>
    ELSE e.attributes[SelectInSeq(e.attributes, LAMBDA a : a.name = <<name>>)].value

RECURSIVE Unescaped(_, _, _)
\* What an escape stands for replaces what came before it, and the rest of the
\* escape is left where it is.
Unescaped(s, i, news) ==
    IF i > Len(s) THEN news
    ELSE IF s[i] = "\\" THEN Unescaped(s, i + 2, Append(news, At(s, i + 1)))
    ELSE IF s[i] = "&" /\ At(s, i + 1) \in {"l", "g", "a"}
    THEN Unescaped(s, i + 2, <<CASE At(s, i + 1) = "l" -> "<" [] At(s, i + 1) = "g" -> ">"
                                 [] At(s, i + 1) = "a" -> "&">>)
    ELSE Unescaped(s, i + 1, Append(news, s[i]))
unescape(s) == Unescaped(s, 1, <<>>)

Result(v, d) == [val |-> v, d |-> d]

RECURSIVE XMLValue(_, _)

\* The values of elements, one after the other.
AlsoRead(r, x) == Result(Append(r.val, x.val), x.d)
XMLAll(es, d) == FoldLeft(LAMBDA r, e : AlsoRead(r, XMLValue(e, r.d)), Result(<<>>, d), es)

\* The members of an object, of which those with nothing in them are left out.
WithMember(r, name, x) == Result((name :> x.val) @@ r.val, x.d)
XMLMembers(es, d) ==
    FoldLeft(LAMBDA r, e : IF e.name # <<"member">> \/ e.children = <<>> THEN r
                           ELSE WithMember(r, getAttribute(e, "name"), XMLValue(e.children[1], r.d)),
             Result(<<>>, d), es)

VectorRead(r) == [r EXCEPT !.val = Vector(@)]
MapRead(r) == [r EXCEPT !.val = MapOf([i \in 1 .. Len(@) \div 2 |-> <<@[2 * i - 1], @[2 * i]>>])]

\* The number of an attribute.
SizeOf(e) == Folded(getAttribute(e, "size"))

XMLVector(e, d) == IF Len(e.children) < SizeOf(e) THEN Result(NoValue, Fail(d, "crashes"))
                   ELSE VectorRead(XMLAll(SubSeq(e.children, 1, SizeOf(e)), d))
XMLMap(es, d) == IF \E i \in DOMAIN es : es[i].children = <<>> THEN Result(NoValue, Fail(d, "crashes"))
                 ELSE MapRead(XMLAll([i \in DOMAIN es |-> es[i].children[1]], d))

\* The object o once its members have been read.
Finished(o, ms) == Result(Reference(o), Complete(ms.d, o, ms.val, FALSE))
XMLObject(e, d, type) ==
    IF ~Known(type) THEN Result(NoValue, Fail(d, "throws"))
    ELSE Finished(Len(d.heap) + 1,
                  XMLMembers(e.children, NewObject(d, getAttribute(e, "name"), type[1], e.name = <<"monitor">>)))

\* What the text of an element stands for.
XMLAtom(name, value) ==
    CASE name = "integer" -> Number("integer", Folded(value))
      [] name = "char" -> IF At(value, 1) \in DOMAIN Codes THEN Letter(value[1]) ELSE Number("char", 0)
      [] name = "boolean" -> Number("bool", IF value = <<"true">> THEN 1 ELSE 0)
      [] name = "byte" -> Number("integer", 48 + DigitValue(At(value, 1)))
      [] name = "real" -> Number("real", strtod(value))
      [] name = "string" -> String(unescape(value))

XMLValue(e, d) ==
    CASE e.name \in {<<"integer">>, <<"char">>, <<"boolean">>, <<"byte">>, <<"real">>, <<"string">>} ->
           Result(XMLAtom(e.name[1], getAttribute(e, "value")), d)
      [] e.name = <<"vector">> -> XMLVector(e, d)
      [] e.name = <<"map">> -> XMLMap(e.children, d)
      [] e.name \in {<<"object">>, <<"monitor">>} -> XMLObject(e, d, getAttribute(e, "type"))
      [] e.name = <<"objectref">> -> Result(Reference(lookupDeserial(d.info, getAttribute(e, "name"))), d)
      [] OTHER -> Result(NoValue, Fail(d, "throws"))

\* The first element of a text.
FirstOf(p) == IF p.bad # "" THEN Result(NoValue, Fail(Nothing, p.bad))
              ELSE IF p.tree.children = <<>> THEN Result(Number("integer", 0), Nothing)
              ELSE XMLValue(p.tree.children[1], Nothing)
deserialize_xml(t) == FirstOf(parseStream(t))

-----------------------------------------------------------------------------
(***************************************************************************)
(* JSON, read as it comes.                                                 *)
(***************************************************************************)
Got(v, at, d) == [val |-> v, at |-> at, d |-> d]
skip_json_spaces(t, at) == PastSpaces(t, at)

\* The name of a property: in quotes, or up to : or a comma, for which a text
\* without one is read for ever.
parse_json_string(t, at, d) ==
    LET quoted == At(t, at) = "\""
        name == IF quoted THEN UpTo(t, at + 1, {"\""}) ELSE UpTo(t, at, {":", ","})
        end == at + Len(name) + (IF quoted THEN 2 ELSE 0)
    IN Got(name, end, IF end > Len(t) + (IF quoted THEN 1 ELSE 0) THEN Fail(d, "hangs") ELSE d)

IsAlpha(c) == c \notin ToSet(DigitNames) \cup Space
                       \cup {"\"", "\\", "'", "<", ">", "&", ";", ":", ",", "[", "]", "{", "}",
                             "-", ".", "=", "/", "eof", "nul"}

RECURSIVE JSONValue(_, _, _), JSONMembers(_, _), JSONElements(_, _)

AtSpaces(t, r) == [r EXCEPT !.at = skip_json_spaces(t, @)]
JSONNext(t, r) == JSONValue(t, skip_json_spaces(t, r.at), r.d)

\* Members (r has those before) until something else than a comma comes.  What
\* follows a name without a colon is taken for the comma.
MoreMembers(t, r) == IF r.d.bad # "" \/ At(t, r.at) # "," THEN [r EXCEPT !.at = @ + 1]
                     ELSE JSONMembers(t, [r EXCEPT !.at = @ + 1])
ToMembers(r, name, x) == Got(IF x.val = NoValue THEN r.val ELSE (name :> x.val) @@ r.val, x.at, x.d)
AfterName(t, r, name) ==
    IF name.d.bad # "" THEN Got(r.val, name.at + 1, name.d)
    ELSE MoreMembers(t, AtSpaces(t, IF At(t, name.at) = ":"
                                    THEN ToMembers(r, name.val, JSONNext(t, [name EXCEPT !.at = @ + 1]))
                                    ELSE Got(r.val, name.at + 1, name.d)))
JSONMembers(t, r) ==
    AfterName(t, r, AtSpaces(t, parse_json_string(t, skip_json_spaces(t, r.at), r.d)))

\* Elements until a bracket or something else than a comma comes.
MoreElements(t, r) == IF At(t, r.at) # "," THEN [r EXCEPT !.at = @ + 1]
                      ELSE JSONElements(t, [r EXCEPT !.at = @ + 1])
AfterElement(t, r, x) == IF x.val = NoValue \/ x.d.bad # "" THEN [x EXCEPT !.val = r.val]
                         ELSE MoreElements(t, AtSpaces(t, Got(Append(r.val, x.val), x.at, x.d)))
JSONElements(t, r) == AfterElement(t, r, JSONNext(t, r))

\* What members are: an object if they have its name and class, else a map.
AsObject(ms, isMonitor) ==
    LET name == ms.val[<<"__aikido_object_name">>].text
        begun == NewObject(ms.d, name, ms.val[<<"__aikido_object_type">>].text[1], isMonitor)
    IN Got(Reference(Len(begun.heap)), ms.at, Complete(begun, Len(begun.heap), ms.val, TRUE))
AsMap(ms) == Got(MapOf(SetToSeq({<<String(n), ms.val[n]>> : n \in DOMAIN ms.val})), ms.at, ms.d)
IsObject(members) == /\ {<<"__aikido_object_name">>, <<"__aikido_object_type">>} \subseteq DOMAIN members
                     /\ Known(members[<<"__aikido_object_type">>].text)

Braced(ms) == IF IsObject(ms.val) THEN AsObject(ms, <<"__aikido_is_monitor">> \in DOMAIN ms.val)
              ELSE AsMap(ms)

\* A number, which goes on up to what is no digit or point.
JSONNumber(t, at) ==
    LET neg == At(t, at) = "-"
        ds == UpTo(t, IF neg THEN at + 1 ELSE at, ToSet(t) \ (ToSet(DigitNames) \cup {"."}))
        n == IF Contains(ds, ".") THEN strtod(ds) ELSE Folded(ds)
        end == at + Len(ds) + (IF neg THEN 1 ELSE 0)
    IN [val |-> Number(IF Contains(ds, ".") THEN "real" ELSE "integer", IF neg THEN -n ELSE n), at |-> end]

Word(s) == CASE s = <<"true">> -> Number("bool", 1) [] s = <<"false">> -> Number("bool", 0)
             [] s = <<"null">> -> Reference(0) [] OTHER -> String(s)

JSONValue(t, at, d) ==
    LET c == At(t, at)
        quoted == UpTo(t, at + 1, {"\""})
        word == UpTo(t, at, {x \in ToSet(t) : ~IsAlpha(x) /\ x \notin ToSet(DigitNames)})
    IN CASE c = "\"" -> Got(String(quoted), at + Len(quoted) + 2, d)
         [] c = "{" -> Braced(JSONMembers(t, Got(<<>>, at + 1, d)))
         [] c = "[" -> VectorRead(JSONElements(t, Got(<<>>, at + 1, d)))
         [] c \in {"]", "}"} -> Got(NoValue, at + 1, d)
         [] c \in ToSet(DigitNames) \cup {"-"} -> Got(JSONNumber(t, at).val, JSONNumber(t, at).at, d)
         [] IsAlpha(c) -> Got(Word(word), at + Len(word), d)
         [] OTHER -> Got(NoValue, at, Fail(d, "throws"))

-----------------------------------------------------------------------------
(***************************************************************************)
(* The binary format.                                                      *)
(***************************************************************************)
\* Bound: no vector or string of an input is longer; a reader that finds one has
\* lost its place.
Longest == 40

ByteAt(t, i) == IF i \in DOMAIN t THEN t[i].byte ELSE 255

RECURSIVE Groups(_, _)
\* The bytes of a number, which end with one that is below 128.
Groups(t, at) == IF at > Len(t) THEN <<>>
                 ELSE IF ByteAt(t, at) < 128 THEN <<ByteAt(t, at)>>
                 ELSE <<ByteAt(t, at)>> \o Groups(t, at + 1)

\* The value of those bytes, with the sign the last one has.
Signed(t, at, d, bytes) ==
    IF bytes = <<>> \/ bytes[Len(bytes)] > 127 THEN Got(0, Len(t) + 1, Fail(d, "hangs"))
    ELSE Got(FoldRight(LAMBDA b, sum : (b % 128) + 128 * sum, bytes,
                       IF bytes[Len(bytes)] >= 64 THEN -1 ELSE 0), at + Len(bytes), d)
deserialize_leb128(t, at, d) == Signed(t, at, d, Groups(t, at))

CharAt(t, i) == IF i \in DOMAIN t THEN t[i].char ELSE "eof"
\* The n.val characters that follow.
Chars(t, n) ==
    IF n.val > Longest THEN Got(<<>>, Len(t) + 1, Fail(n.d, "throws"))
    ELSE Got([i \in 1 .. n.val |-> CharAt(t, n.at + i - 1)], n.at + (IF n.val > 0 THEN n.val ELSE 0), n.d)
deserialize_string(t, at, d) == Chars(t, deserialize_leb128(t, at, d))

RECURSIVE BinaryValue(_, _, _), BinaryMembers(_, _)

\* n values, one after the other, after their number.
ReadToo(r, x) == Got(Append(r.val, x.val), x.at, x.d)
BinaryAll(t, n, each) ==
    IF n.val \notin 0 .. Longest THEN Got(<<>>, Len(t) + 1, Fail(n.d, "throws"))
    ELSE FoldLeft(LAMBDA r, i : ReadToo(r, BinaryValue(t, r.at, r.d)), Got(<<>>, n.at, n.d),
                  [i \in 1 .. each * n.val |-> i])

\* Members until a byte that announces none, which is taken.
MemberRead(r, name, x) == Got((name :> x.val) @@ r.val, x.at, x.d)
BinaryMember(t, r, name) == MemberRead(r, name.val, BinaryValue(t, name.at, name.d))
BinaryMembers(t, r) ==
    IF ByteAt(t, r.at) # Stype.member \/ r.at > Len(t) THEN [r EXCEPT !.at = @ + 1]
    ELSE BinaryMembers(t, BinaryMember(t, r, deserialize_string(t, r.at + 1, r.d)))

\* An object is new when its members have been read; before it come its name and
\* its class.
Created(ms, begun, o) == Got(Reference(o), ms.at, Complete(begun, o, ms.val, TRUE))
BinaryObject(ms, name, c, isMonitor) ==
    IF ~Known(c) THEN [ms EXCEPT !.val = NoValue]
    ELSE Created(ms, NewObject(ms.d, name, c[1], isMonitor), Len(ms.d.heap) + 1)
BinaryTyped(t, name, type, isMonitor) ==
    BinaryObject(BinaryMembers(t, Got(<<>>, type.at, type.d)), name, type.val, isMonitor)
BinaryNamed(t, name, isMonitor) ==
    BinaryTyped(t, name.val, deserialize_string(t, name.at, name.d), isMonitor)

As(r, type) ==
    [r EXCEPT !.val = CASE type = Stype.integer -> Number("integer", @)
                      [] type = Stype.bool -> Number("bool", IF @ = 0 THEN 0 ELSE 1)
                      [] type = Stype.byte -> Number("byte", @ % 256)
                      [] type = Stype.real -> Number("real", @)
                      [] type = Stype.char -> Val("char", @, SetToSeq(Letters(@)), <<>>, 0)]
BytesOf(t, n) == Got(Val("bytevector", 0, <<>>, [i \in 1 .. n.val |-> ByteAt(t, n.at + i - 1)], 0),
                     n.at + n.val, n.d)
StringOf(r) == [r EXCEPT !.val = String(@)]
ReferenceOf(r) == [r EXCEPT !.val = Reference(lookupDeserial(r.d.info, @))]

\* A value by the byte it begins with.
Numbers == {Stype.integer, Stype.bool, Stype.byte, Stype.real, Stype.char}
BinaryValue(t, at, d) ==
    CASE ByteAt(t, at) \in Numbers -> As(deserialize_leb128(t, at + 1, d), ByteAt(t, at))
      [] ByteAt(t, at) = Stype.string -> StringOf(deserialize_string(t, at + 1, d))
      [] ByteAt(t, at) = Stype.vector -> VectorRead(BinaryAll(t, deserialize_leb128(t, at + 1, d), 1))
      [] ByteAt(t, at) = Stype.bytevector -> BytesOf(t, deserialize_leb128(t, at + 1, d))
      [] ByteAt(t, at) = Stype.map -> MapRead(BinaryAll(t, deserialize_leb128(t, at + 1, d), 2))
      [] ByteAt(t, at) = Stype.objectref -> ReferenceOf(deserialize_string(t, at + 1, d))
      [] ByteAt(t, at) \in {Stype.object, Stype.monitor} ->
           BinaryNamed(t, deserialize_string(t, at + 1, d), ByteAt(t, at) = Stype.monitor)
      [] OTHER -> Got(NoValue, at + 1, d)

deserialize(t, format) ==
    CASE format = "xml" -> deserialize_xml(t)
      [] format \in {"json", "export"} -> JSONValue(t, 1, Nothing)
      [] format = "binary" -> BinaryValue(t, 1, Nothing)
=============================================================================
