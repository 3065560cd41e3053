---------------------------- MODULE MCExpressions ----------------------------
(***************************************************************************)
(* All small expressions: how they are written and read back, and what     *)
(* they mean, against what their code does.                                *)
(***************************************************************************)
EXTENDS MCValues, Expressions

File == INSTANCE MCObjectCode
Serial == INSTANCE MCSerialization
Natives == INSTANCE MCLibrary

-----------------------------------------------------------------------------
(***************************************************************************)
(* Writing: the tokens of a tree, with no more parentheses than needed.    *)
(***************************************************************************)
BinaryOps == UNION {Levels[k] : k \in DOMAIN Levels}

\* How tightly the operator of a tree binds.
Binds(t) == CASE t.op = "=" -> 0 [] t.op = "->" -> 1 [] t.op = "?" -> 2
              [] Len(t.kids) = 2 /\ t.op \in BinaryOps ->
                   2 + CHOOSE k \in DOMAIN Levels : t.op \in Levels[k]
              [] t.op \in {"neg", "!", "~", "sizeof", "typeof", "cast"} -> 13
              [] t.op = "number" /\ t.val < 0 -> 13
              [] OTHER -> 14

Join(ss) == FoldLeft(LAMBDA p, q : IF p = <<>> THEN q ELSE p \o <<",">> \o q, <<>>, ss)

RECURSIVE Written(_), Fit(_, _)
Fit(t, least) == IF Binds(t) < least THEN <<"(">> \o Written(t) \o <<")">> ELSE Written(t)

Written(t) ==
    LET p == Binds(t)
        k == t.kids
    IN CASE t.op = "number" -> IF t.val < 0 THEN <<"-">> \o Written(Num(-t.val))
                               ELSE <<CHOOSE w \in DOMAIN Literals : Literals[w] = t.val>>
         [] k = <<>> /\ t.op # "vector" -> <<t.op>>
         [] t.op = "="  -> Fit(k[1], 1) \o <<"=">> \o Fit(k[2], 0)
         [] t.op = "->" -> Fit(k[1], 1) \o <<"->">> \o Fit(k[2], 2)
         [] t.op = "?"  -> Fit(k[1], 3) \o <<"?">> \o Fit(k[2], 0) \o <<":">> \o Fit(k[3], 2)
         [] t.op = "neg" -> <<"-">> \o (IF k[1].op = "number" THEN <<"+">> ELSE <<>>) \o Fit(k[1], 13)
         [] t.op = "vector" -> <<"[">> \o Join([i \in DOMAIN k |-> Fit(k[i], 0)]) \o <<"]">>
         [] t.op = "call" -> Fit(k[1], 14) \o <<"(">> \o
                             Join([i \in 1 .. Len(k) - 1 |-> Fit(k[i + 1], 0)]) \o <<")">>
         [] t.op = "sub" -> Fit(k[1], 14) \o <<"[">> \o Fit(k[2], 0) \o <<"]">>
         [] t.op = "cast" -> <<"(", k[1].op, ")">> \o
                             Fit(k[2], IF Head(Written(k[2])) = "-" THEN 15 ELSE 13)
         [] t.op \in {"!", "~"} -> <<t.op>> \o Fit(k[1], 13)
         [] t.op \in {"sizeof", "typeof"} -> <<t.op>> \o
              (IF Head(Fit(k[1], 13)) = "(" THEN <<"(">> \o Fit(k[1], 13) \o <<")">>
                                            ELSE Fit(k[1], 13))
         [] OTHER -> Fit(k[1], p) \o <<t.op>> \o Fit(k[2], p + 1)

-----------------------------------------------------------------------------
(***************************************************************************)
(* Meaning: from left to right, parameters of calls from right to left; a  *)
(* name, and an assignment, stand for the variable, which is read when the *)
(* operator is applied.  A parameter that is a name is passed as one.      *)
(* A state has the variables, the calls so far, and what the last          *)
(* expression stands for.                                                  *)
(***************************************************************************)
Says(s, n)  == [s EXCEPT !.is = [kind |-> "value", num |-> n, name |-> ""]]
Names(s, p) == [s EXCEPT !.is = [kind |-> "name", num |-> 0, name |-> p]]
Read(s, is) == IF is.kind = "name" THEN s.vars[is.name] ELSE is.num
Value(s)    == Read(s, s.is)
Settled(s)  == Says(s, Value(s))

RECURSIVE Mean(_, _), MeanAll(_, _)

\* The parameters from the last on: what they stand for, in their order.
MeanAll(kids, s) ==
    IF kids = <<>> THEN [s |-> s, args |-> <<>>]
    ELSE LET last == Mean(kids[Len(kids)], s)
             before == MeanAll(Front(kids), last)
             this == IF kids[Len(kids)].op \in Variables THEN last.is ELSE Settled(last).is
         IN [s |-> before.s, args |-> Append(before.args, this)]

Mean(t, s) ==
    LET k == t.kids
        l == Mean(k[1], s)
        r == Mean(k[2], l)
        branch(cond, yes, no) == IF Value(cond) # 0 THEN yes ELSE no
    IN CASE t.op = "number" -> Says(s, t.val)
         [] t.op \in Variables -> Names(s, t.op)
         [] t.op = "||" -> branch(l, Settled(l), Settled(r))
         [] t.op = "&&" -> branch(l, Settled(r), Settled(l))
         [] t.op = "?"  -> branch(l, Settled(Mean(k[2], l)), Settled(Mean(k[3], l)))
         [] t.op = "="  -> LET w == Mean(k[2], s)
                           IN Names([w EXCEPT !.vars[k[1].op] = Value(w)], k[1].op)
         [] t.op = "call" -> LET all == MeanAll(Tail(k), s)
                                 args == [i \in DOMAIN all.args |-> Read(all.s, all.args[i])]
                             IN Says([all.s EXCEPT !.log = Append(@, args)], Returned(args))
         [] Len(k) = 1 -> Says(l, Apply(t.op, Value(l), 0))
         [] OTHER -> Says(r, Apply(t.op, Read(r, l.is), Value(r)))

Meant(t, env) ==
    LET s == Mean(t, [vars |-> env, log |-> <<>>, is |-> [kind |-> "value", num |-> 0, name |-> ""]])
    IN [vars |-> s.vars, log |-> s.log, value |-> Value(s)]

RECURSIVE Reads(_, _), Plain(_)
Reads(t, p) == IF t.op = "=" THEN Reads(t.kids[2], p)
               ELSE t.op = p \/ \E i \in DOMAIN t.kids : Reads(t.kids[i], p)

\* What an assignment of t leaves to a move.
IsMove(t) == t.op = "=" /\ (t.kids[2].op \in Variables \cup {"number", "="})

\* Two things the code generator gets wrong, which a tree is free of that is
\* plain: the result of a move is a register that the move does not set, and
\* a || or && that is assigned has the variable for its temporary, which its
\* left side is moved to before its right side reads it.
Plain(t) ==
    /\ \A i \in DOMAIN t.kids : Plain(t.kids[i])
    /\ t.op # "=" => \A i \in DOMAIN t.kids : ~IsMove(t.kids[i])
    /\ t.op = "=" /\ t.kids[2].op \in {"||", "&&"} => ~Reads(t.kids[2].kids[2], t.kids[1].op)

-----------------------------------------------------------------------------
(***************************************************************************)
(* The trees: one to three operators deep.                                 *)
(***************************************************************************)
Leaves == {Leaf("a"), Leaf("b"), Num(1)}
Two(ops, S, T) == {Node(op, <<p, q>>) : op \in ops, p \in S, q \in T}
One(ops, S) == {Node(op, <<p>>) : op \in ops, p \in S}
Assigned(S) == Two({"="}, {Leaf("a")}, S)
Calls(S, T) == {Node("call", <<Leaf("f"), p, q>>) : p \in S, q \in T}
Mux(S, T, U) == {Node("?", <<p, q, r>>) : p \in S, q \in T, r \in U}

Simple == Leaves \cup One({"!", "neg"}, {Leaf("a"), Leaf("b")})
          \cup Two({"-", "<", "||", "&&"}, Leaves, Leaves) \cup Assigned(Leaves)
          \cup Calls({Leaf("a"), Num(1)}, {Leaf("a")}) \cup Mux({Leaf("a")}, {Leaf("b")}, Leaves)
          \cup {Changed(Leaf("a"), "+"), Node("-", <<Changed(Leaf("a"), "+"), Num(1)>>)}
Programs == LET Nested == One({"!"}, Simple) \cup Two({"-", "||", "&&"}, Simple, Simple)
                          \cup Calls(Simple, Simple) \cup Mux(Simple, Leaves, Simple)
            IN Simple \cup Nested \cup Assigned(Nested)
               \cup Two({"-"}, {Leaf("a")}, Assigned(Simple))

Shapes == LET Level0 == {Leaf("a"), Num(1), Num(-1)}
              Level1 == Level0 \cup Two({"||", "|", "==", "in", "-", "*", "->"}, {Leaf("a")}, {Leaf("b")})
                        \cup One({"neg", "!"}, {Leaf("a")}) \cup Assigned({Leaf("b")})
                        \cup Mux({Leaf("a")}, {Leaf("b")}, {Num(1)})
                        \cup Calls({Leaf("a")}, {Num(2)}) \cup {Node("vector", <<Leaf("a"), Num(1)>>)}
                        \cup Two({"sub"}, {Leaf("a")}, {Num(1)}) \cup Two({"cast"}, {Leaf("f")}, {Leaf("b")})
              Level2 == Two(BinaryOps \cup {"->", "sub"}, Level1, Level1)
                        \cup Two({"="}, {Leaf("a"), Node("sub", <<Leaf("a"), Leaf("b")>>)}, Level1)
                        \cup Two({"cast"}, {Leaf("f")}, Level1) \cup Mux(Level1, Level1, Level1)
                        \cup One({"neg", "!", "~", "sizeof", "typeof"}, {t \in Level1 : t.op # "number"})
                        \cup Calls(Level1, Level1) \cup {Node("call", <<t>>) : t \in Level1}
          IN Level1 \cup Level2

\* x is a tree, a compiled program, a value to be serialized or what a law of the
\* natives is about; y gives the variables their values, or is a format.
ChooseTree ==
    /\ kind = "none"
    /\ \/ kind' = "program" /\ x' \in Programs /\ y' \in [Variables -> {0, 2}] /\ z' = z
       \/ kind' = "text" /\ x' \in Shapes /\ UNCHANGED <<y, z>>
       \/ kind' = "compiled" /\ x' \in File!Programs /\ UNCHANGED <<y, z>>
       \/ kind' = "serial" /\ x' \in Serial!Inputs /\ y' \in Serial!Formats /\ z' = z
       \/ kind' = "native" /\ x' \in Natives!Inputs /\ UNCHANGED <<y, z>>

LanguageSpec == Init /\ [][Choose \/ ChooseTree]_vars

-----------------------------------------------------------------------------
\* A tree that is written down with no more parentheses than its operators'
\* precedence asks for is read back as the same tree.  (What begins with a
\* parenthesis needs one more after sizeof and typeof, which take the first
\* for their own.)
ReadsBack == kind = "text" => Parse(Written(x)) = x

\* The code of a plain expression leaves the variables, makes the calls and
\* has the value its tree means: no register is given away that is still read,
\* no operand is evaluated that should not be, and the stack is as it was.
\* (An assignment that is a program of its own has no value to speak of.)
CodeMeans ==
    kind = "program" /\ Plain(x) =>
        \A done \in {Compiled(x, y)}, meant \in {Meant(x, y)} :
            /\ done.vars = meant.vars /\ done.log = meant.log /\ done.stack = <<>>
            /\ done.value = meant.value \/ IsMove(x)

\* ++ and op= mean what they are written out as; a line break ends an
\* expression before a sign, a bracket or ++, and nowhere else.
Sugar ==
    kind = "text" => \A w \in {Fit(x, 14)}, e \in {Fit(x, 0)} :
        /\ \A read \in {<< <<"++">> \o w, Changed(x, "+")>>,
                        <<w \o <<"--">>, Node("+", <<Changed(x, "-"), Num(1)>>)>>,
                        <<w \o <<"nl", "-", "b">>, SyntaxError>>,
                        <<w \o <<"nl", "[", "b", "]">>, SyntaxError>>} :
              Parse(read[1]) = read[2]
        /\ \A same \in {<< <<"a", "-=">> \o e, <<"a", "=", "a", "-", "(">> \o e \o <<")">> >>,
                        <<w \o <<"nl", "*", "b">>, w \o <<"*", "b">> >>} :
              Parse(same[1]) = Parse(same[2])

\* What the parser makes of a text, sugar and line breaks included.
ReadsRight == ReadsBack /\ Sugar

\* What is loaded from an object file is the program that was written to it,
\* with everything in it that refers to something else, except where a try
\* statement has finally code, whose label the loader does not read, for a number
\* of 64 bits whose sign its lower half does not have, and when the name of a
\* library has no directory in it and writing the file fails.
ProgramsLoad ==
    kind = "compiled" =>
        \A q \in {File!loadObjectCode(File!dumpObjectCode(x))} :
            File!ComesBack(x, q) <=> File!Whole(x)

\* A serialized value that its format can bring back is brought back, with what
\* refers to the same object twice, and to itself; what is no element of an XML
\* text is skipped.
SerializedBack ==
    kind = "serial" /\ Serial!Kept(x, y) =>
        \A t \in {Serial!serialize(x.heap, x.val, y)} :
            /\ Serial!ComesBack(x, y, Serial!deserialize(t, y))
            /\ y = "xml" => \A n \in Serial!Noise : Serial!parseStream(n \o t) = Serial!parseStream(t)

\* What is read from a file is what was written to it: a program, a value.
LoadsBack == ProgramsLoad /\ SerializedBack

\* The natives and the subscripts of the library keep what they promise of each
\* other, and a clone has a copy of everything that is reached from the original,
\* shared where that was, and nothing of the original.
NativesKeep ==
    /\ kind = "native" => Natives!Right(x)
    /\ kind = "serial" /\ y = "xml" => Serial!CloneRight(x)
=============================================================================
