---------------------------- MODULE MCObjectCode ----------------------------
(***************************************************************************)
(* Programs with a scope of every kind that refer to each other, and a     *)
(* function with any kind of instruction and operand; what is lost of them *)
(* in an object file.                                                      *)
(***************************************************************************)
EXTENDS ObjectCode

A == <<97>>
B == <<98>>
C == <<67>>
E == <<69>>
Tagged(n) == <<46>> \o n

\* Variables, and what goes with each kind.
Variable(kind, n, offset, more) == [kind |-> kind, fields |-> <<n, 1, offset, 0>> \o more]
TagOf(n, block, ref) == Variable("Tag", Tagged(n), -1, <<block, ref>>)

\* A block called n in scope parent, of which there is scope 1 around all.
Block(kind, n, parent, super, vars, children, code, more) ==
    [kind |-> kind,
     fields |-> <<n, A \o n, Len(vars), 0, IF parent = 2 THEN 2 ELSE 0, parent, super,
                  vars, 1, parent, IF parent = 0 THEN 0 ELSE 1, 1,
                  children, IF parent = 2 THEN <<>> ELSE children, 24, NoVar,
                  IF kind = "Class" THEN 3 ELSE 0, code>> \o more]

Sequence(code) == <<4, 0, 2, code>>

Instruction(op, dest, src, source) ==
    [op |-> op, dest |-> dest, source |-> source, flags |-> 3,
     src |-> [i \in 1..4 |-> IF i \in DOMAIN src THEN src[i] ELSE Null]]

Extras == [Thread |-> << <<>>, <<1, C>>, <<1, E>> >>,
           MonitorBlock |-> << << <<2, A>> >>, << <<40, 3>> >> >>,
           Package |-> << <<>>, <<>> >>, Interface |-> << <<>>, <<>> >>,
           NativeFunction |-> <<2>>, RawNativeFunction |-> <<2>>]

\* The main package; class C with a parameter a and a method a, which is its
\* finalizer and an operator too; the method; a block in it; an enumeration;
\* and a block of another kind, which extends C.
Program(extra, code) ==
    [libraries |-> << <<47, 97, 47, 98>> >>,
     preamble |-> Sequence(code),
     scopes |->
      << Block("Package", A, 0, NoVar,
               << TagOf(C, 2, <<1, C>>), TagOf(E, 5, <<1, E>>),
                  Variable("EnumConst", A, 2, <<5, <<1, B>>, NoVar, <<0, 7>> >>),
                  Variable("EnumConst", B, 3, <<5, NoVar, <<1, A>>, <<-1, -7>> >>),
                  Variable("Variable", C, 0, <<>>), Variable("Variable", E, 1, <<>>) >>,
               << <<1, Tagged(C)>>, <<1, Tagged(E)>> >>, <<>>, << <<>>, <<>> >>),
         Block("Class", C, 1, NoVar,
               << TagOf(A, 3, <<2, A>>), Variable("Parameter", A, 1, <<1>>) >>,
               << <<2, Tagged(A)>> >>, <<Sequence(<<>>)>>, << << <<2, A>> >>, << <<40, 3>> >> >>),
         Block("InterpretedBlock", A, 2, NoVar, <<Variable("Reference", B, 0, <<0>>)>>,
               <<>>, <<Sequence(code)>>, << << <<3, B>> >> >>),
         [kind |-> "Scope", fields |-> << <<Variable("Variable", A, 1, <<>>)>>, 2, 3, 3, 0>>],
         Block("Enum", E, 1, NoVar, <<>>, <<>>, <<>>, << <<>>, << <<1, A>>, <<1, B>> >> >>),
         Block(extra, B, 1, <<1, Tagged(C)>>, <<>>, <<>>, <<>>, Extras[extra]) >>]

Wide(t, high, low) == Val(t, <<high, low>>, NoVar, <<>>)

Values == {Wide("integer", 0, 5), Wide("integer", -1, -2), Wide("integer", 1, -2),
           Wide("real", 1071644672, 0), Wide("real", 1069128089, -1717986918), Wide("bool", 0, 1),
           Val("char", <<200>>, NoVar, <<>>), Val("byte", <<255>>, NoVar, <<>>),
           Val("stream", <<1>>, NoVar, <<>>), Val("enumconst", <<>>, <<1, B>>, <<>>),
           Val("string", <<>>, NoVar, A \o B), Val("string", <<>>, NoVar, <<>>),
           Val("function", <<3>>, NoVar, <<>>), Val("class", <<2>>, NoVar, <<>>), Nothing}

Operands == {Op("value", v) : v \in Values}
            \cup {Op("register", Number(n).val) : n \in {0, 70000}}
            \cup {Op("variable", Val("none", <<101>>, <<2, A>>, <<>>)),
                  Op("localvar", Val("none", <<>>, <<4, A>>, <<>>))}

Called(n) == Op("name", Val("none", <<>>, NoVar, n))

\* One instruction of each shape with an operand, and those without one.
With(o) == {Instruction("call", r, <<o, Null, o>>, <<300, B>>) : r \in {Null, Op("register", Number(1).val)}}
           \cup {Instruction("bt", Null, <<o, Number(2)>>, <<>>),
                 Instruction("jmpt", Null, <<o, Number(2), Number(0)>>, <<>>),
                 Instruction("newvector", o, <<o, Number(0), Number(9)>>, <<1, A>>),
                 Instruction("foreach", Null, <<o, o, Number(4), o>>, <<2, A>>),
                 Instruction("foreach", Null, <<o, o, Number(4)>>, <<2, A>>),
                 Instruction("findv", o, <<o, Called(A)>>, <<2, B>>),
                 Instruction("stv", o, <<o, Called(C), o>>, <<>>)}
Without == {Instruction("nop", Null, <<>>, <<>>), Instruction("b", Null, <<Number(7)>>, <<3, A>>),
            Instruction("pushscope", Null, <<Number(4)>>, <<>>),
            Instruction("try", Null, <<Number(2), Number(3)>>, <<1, B>>),
            Instruction("try", Null, <<Number(2), Number(3), Number(4)>>, <<1, B>>)}

Programs == {Program("Thread", <<i, j>>) : i \in UNION {With(o) : o \in Operands} \cup Without,
                                        j \in {Instruction("findv", Null, <<Op("register", Number(0).val), Called(B)>>, <<>>)}}
         \cup {Program(k, <<i, i>>) : k \in DOMAIN Extras, i \in Without}
         \cup {[Program("Thread", <<>>) EXCEPT !.libraries = <<B>>]}

-----------------------------------------------------------------------------
\* What does not come back: a try statement with finally code, whose third
\* label is not read, a number whose low word is negative, but not its high, and
\* anything if a library was found without a directory.
Kept(v) == v.type \in {"integer", "real", "bool"} => v.num = Joined(v.num[1], v.num[2])
Whole(p) ==
    /\ ~DumpThrows(p)
    /\ \A k \in DOMAIN p.preamble[4] :
           LET i == p.preamble[4][k]
           IN /\ i.op = "try" => i.src[3] = Null
              /\ \A o \in {i.dest} \cup ToSet(i.src) : Kept(o.val)

\* The lists of tags of a block, without what the first pass left in them.
Tags(list) == SelectSeq(list, LAMBDA ref : ref # NoVar)
Cleaned(s) == [s EXCEPT !.fields = [i \in DOMAIN @ |-> IF s.kind # "Scope" /\ i \in {13, 14}
                                                       THEN Tags(@[i]) ELSE @[i]]]

ComesBack(p, q) ==
    /\ q.right /\ q.errors = 0
    /\ q.libraries = [i \in DOMAIN p.libraries |-> BaseName(p.libraries[i])]
    /\ Len(q.scopes) = Len(p.scopes)
    /\ \A i \in DOMAIN p.scopes : q.scopes[i].kind = p.scopes[i].kind
                                  /\ Cleaned(q.scopes[i]) = p.scopes[i]
    /\ q.preamble = p.preamble
=============================================================================
