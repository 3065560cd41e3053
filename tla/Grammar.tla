------------------------------- MODULE Grammar -------------------------------
(***************************************************************************)
(* The expressions of the language: what tree the parser makes of a        *)
(* sequence of tokens (parser.cc, expression to postfixExpression).        *)
(*                                                                         *)
(* A token is a string; "nl" is a line break, which the lexer skips but    *)
(* remembers (newLineRead) until the next token.  A tree has an operator,  *)
(* a number where it is one, and subtrees.  A parsing operator takes the   *)
(* tokens and the place of the current one and returns what it made and    *)
(* the place after it.                                                     *)
(***************************************************************************)
EXTENDS Integers, Sequences

Node(op, kids) == [op |-> op, val |-> 0, kids |-> kids]
Num(n) == [op |-> "number", val |-> n, kids |-> <<>>]
Leaf(name)     == Node(name, <<>>)
SyntaxError    == Leaf("error")

Identifiers == {"a", "b", "f"}
Literals    == [one |-> 1, two |-> 2]
End         == "end"

-----------------------------------------------------------------------------
\* The current token, whether a line break came before it, and the place after.
NewLineRead(s, i) == i <= Len(s) /\ s[i] = "nl"
Skip(s, i)  == IF NewLineRead(s, i) THEN i + 1 ELSE i
Token(s, i) == IF Skip(s, i) <= Len(s) THEN s[Skip(s, i)] ELSE End
Next(s, i)  == Skip(s, i) + 1
Match(s, i, toks) == Token(s, i) \in toks

Result(tree, i) == [tree |-> tree, at |-> i]
Prefix(op, r)     == Result(Node(op, <<r.tree>>), r.at)
Need(s, r, tok) == IF Match(s, r.at, {tok}) THEN Result(r.tree, Next(s, r.at))
                                            ELSE Result(SyntaxError, r.at)

\* From the operators that bind least to those that bind most; all of them
\* take the operand on their left first.
Levels == << {"||"}, {"&&"}, {"|"}, {"^"}, {"&"}, {"==", "!="},
             {"<", ">", "<=", ">=", "instanceof", "in"}, {"<<", ">>", ">>>"},
             {"+", "-"}, {"*", "/", "%"} >>
ShiftLevel == 8

\* As if a sign never began a statement.
Restarts_NotSigns == {"in"}

\* These begin a new statement when they begin a line.
Restarts == {"+", "-", "in"}

Compound == [x \in {"+=", "-=", "*=", "<<=", "|="} |->
               CASE x = "+=" -> "+" [] x = "-=" -> "-" [] x = "*=" -> "*"
                 [] x = "<<=" -> "<<" [] x = "|=" -> "|"]

Assign(left, right) == Node("=", <<left, right>>)
Changed(left, op) == Assign(left, Node(op, <<left, Num(1)>>))

Assignable(tree) == tree.op \in Identifiers \cup {"sub", "dot", "vector"}

\* The functions that call each other do so by name, through one operator.
RECURSIVE Rule(_, _, _), Binary(_, _, _), More(_, _, _), Stream(_, _),
          Postfix(_, _), List(_, _, _), Commas(_, _)

Expression(s, i)  == Rule("expression", s, i)
Single(s, i)      == Rule("single", s, i)
Conditional(s, i) == Rule("conditional", s, i)
Unary(s, i)       == Rule("unary", s, i)

-----------------------------------------------------------------------------
\* The elements of a list up to a closing token; a comma may end it.
List(s, i, close) ==
    IF Match(s, i, {close, End}) THEN [trees |-> <<>>, at |-> i]
    ELSE LET first == Single(s, i)
         IN IF Match(s, first.at, {","})
            THEN LET rest == List(s, Next(s, first.at), close)
                 IN [trees |-> <<first.tree>> \o rest.trees, at |-> rest.at]
            ELSE [trees |-> <<first.tree>>, at |-> first.at]

\* The elements after the first; every comma needs one.
Commas(s, i) ==
    IF ~Match(s, i, {","}) THEN [trees |-> <<>>, at |-> i]
    ELSE LET next == Single(s, Next(s, i))
             rest == Commas(s, next.at)
         IN [trees |-> <<next.tree>> \o rest.trees, at |-> rest.at]

\* e1, e2 is a vector.
expression(s, i) ==
    LET first == Single(s, i)
        rest == Commas(s, first.at)
    IN IF rest.trees = <<>> THEN first
       ELSE Result(Node("vector", <<first.tree>> \o rest.trees), rest.at)

\* A name in parentheses is a type that what follows is cast to, if something
\* does on the same line that begins an operand and is not a sign.
Starters == {"!", "~", "++", "--", "sizeof", "typeof", "(", "in", "["} \cup Identifiers \cup DOMAIN Literals

Parenthesis(s, i) ==
    LET after == Next(s, Next(s, i))
    IN IF Match(s, i, Identifiers) /\ Match(s, Next(s, i), {")"})
       THEN IF ~NewLineRead(s, after) /\ Match(s, after, Starters)
            THEN LET r == Unary(s, after)
                 IN Result(Node("cast", <<Leaf(Token(s, i)), r.tree>>), r.at)
            ELSE Result(Leaf(Token(s, i)), after)
       ELSE Need(s, Expression(s, i), ")")

Primary(s, i) ==
    LET tok == Token(s, i)
    IN CASE tok \in DOMAIN Literals -> Result(Num(Literals[tok]), Next(s, i))
         [] tok \in Identifiers -> Result(Leaf(tok), Next(s, i))
         [] tok = "(" -> Parenthesis(s, Next(s, i))
         [] tok = "[" -> LET l == List(s, Next(s, i), "]")
                         IN Need(s, Result(Node("vector", l.trees), l.at), "]")
         [] OTHER -> Result(SyntaxError, Next(s, i))

\* What is in square brackets after a vector: an index, or a range with a
\* colon, of which either end may be left out.
Subscript(s, left, i) ==
    IF Match(s, i, {":"})
    THEN LET hi == Single(s, Next(s, i))
         IN Result(Node(":", <<Num(0), hi.tree>>), hi.at)
    ELSE LET lo == Single(s, i)
         IN IF ~Match(s, lo.at, {":"}) THEN lo
            ELSE IF Match(s, Next(s, lo.at), {"]"})
            THEN LET last == Node("-", <<Node("sizeof", <<left>>), Num(1)>>)
                 IN Result(Node(":", <<lo.tree, last>>), Next(s, lo.at))
            ELSE LET hi == Single(s, Next(s, lo.at))
                 IN Result(Node(":", <<lo.tree, hi.tree>>), hi.at)

\* What may follow an operand, on the same line, one after the other.
Postfix(s, r) ==
    LET tok == Token(s, r.at)
        after == Next(s, r.at)
        opposite == IF tok = "++" THEN "-" ELSE "+"
    IN CASE NewLineRead(s, r.at) -> r
         [] tok \in {"++", "--"} ->
              LET change == Changed(r.tree, IF tok = "++" THEN "+" ELSE "-")
              IN Postfix(s, Result(Node(opposite, <<change, Num(1)>>), after))
         [] tok = "[" ->
              LET sub == Need(s, Subscript(s, r.tree, after), "]")
              IN Postfix(s, Result(Node("sub", <<r.tree, sub.tree>>), sub.at))
         [] tok = "." ->
              IF Match(s, after, Identifiers)
              THEN Postfix(s, Result(Node("dot", <<r.tree, Leaf(Token(s, after))>>),
                                     Next(s, after)))
              ELSE Result(SyntaxError, after)
         [] tok = "(" ->
              LET l == List(s, after, ")")
                  call == Result(Node("call", <<r.tree>> \o l.trees), l.at)
              IN Postfix(s, Need(s, call, ")"))
         [] OTHER -> r

\* A minus before a number makes a negative number.
Negate(r) ==
    IF r.tree.op = "number" THEN Result(Num(-r.tree.val), r.at) ELSE Prefix("neg", r)

unaryExpression(s, i) ==
    LET tok == Token(s, i)
        operand == Unary(s, Next(s, i))
    IN CASE tok = "+" -> operand
         [] tok = "-" -> Negate(operand)
         [] tok \in {"!", "~"} -> Prefix(tok, operand)
         [] tok = "++" -> Result(Changed(operand.tree, "+"), operand.at)
         [] tok = "--" -> Result(Changed(operand.tree, "-"), operand.at)
         [] tok \in {"sizeof", "typeof"} ->
              \* A parenthesis belongs to it, and holds a unary expression only.
              IF Match(s, Next(s, i), {"("})
              THEN Prefix(tok, Need(s, Unary(s, Next(s, Next(s, i))), ")"))
              ELSE Prefix(tok, operand)
         [] OTHER -> Postfix(s, Primary(s, i))

\* The right side of in may be a range.
InRange(s, i) ==
    LET lo == Binary(s, i, ShiftLevel)
    IN IF Match(s, lo.at, {"..."})
       THEN LET hi == Binary(s, Next(s, lo.at), ShiftLevel)
            IN Result(Node("range", <<lo.tree, hi.tree>>), hi.at)
       ELSE lo

\* The ten functions from logicalOrExpression to multiplyExpression as one: an
\* expression of operators that bind at least as tightly as level k.  What is
\* on the right of an operator is made of those that bind more tightly.
LevelOf(tok) == CHOOSE j \in DOMAIN Levels : tok \in Levels[j]

Binary(s, i, k) == More(s, Unary(s, i), k)

\* As if what is on the right could be of operators that bind as tightly.
More_GroupsRight(s, r, k) ==
    LET tok == Token(s, r.at)
    IN IF \E j \in k .. Len(Levels) : tok \in Levels[j]
       THEN LET right == Binary(s, Next(s, r.at), LevelOf(tok))
            IN More(s, Result(Node(tok, <<r.tree, right.tree>>), right.at), k)
       ELSE r

More(s, r, k) ==
    LET tok == Token(s, r.at)
    IN IF /\ \E j \in k .. Len(Levels) : tok \in Levels[j]
          /\ ~(tok \in Restarts /\ NewLineRead(s, r.at))
       THEN LET right == IF tok = "in" THEN InRange(s, Next(s, r.at))
                         ELSE Binary(s, Next(s, r.at), LevelOf(tok) + 1)
            IN More(s, Result(Node(tok, <<r.tree, right.tree>>), right.at), k)
       ELSE r

\* The middle is a whole expression, the right side groups to the right.
conditionalExpression(s, i) ==
    LET cond == Binary(s, i, 1)
    IN IF ~Match(s, cond.at, {"?"}) THEN cond
       ELSE LET left == Expression(s, Next(s, cond.at))
                right == Conditional(s, Next(s, left.at))
            IN IF ~Match(s, left.at, {":"}) THEN Result(SyntaxError, left.at)
               ELSE Result(Node("?", <<cond.tree, left.tree, right.tree>>), right.at)

Stream(s, r) ==
    IF Match(s, r.at, {"->"})
    THEN LET right == Conditional(s, Next(s, r.at))
         IN Stream(s, Result(Node("->", <<r.tree, right.tree>>), right.at))
    ELSE r

\* Assignments group to the right; a op= e is a = a op e.
singleExpression(s, i) ==
    LET left == Stream(s, Conditional(s, i))
        tok == Token(s, left.at)
        right == Single(s, Next(s, left.at))
        tree == IF tok = "=" THEN Assign(left.tree, right.tree)
                ELSE Assign(left.tree, Node(Compound[tok], <<left.tree, right.tree>>))
    IN IF tok \notin {"="} \cup DOMAIN Compound THEN left
       ELSE Result(IF Assignable(left.tree) THEN tree ELSE SyntaxError, right.at)

Rule(name, s, i) ==
    CASE name = "expression" -> expression(s, i)
      [] name = "single" -> singleExpression(s, i)
      [] name = "conditional" -> conditionalExpression(s, i)
      [] name = "unary" -> unaryExpression(s, i)

Parse(s) == LET r == Expression(s, 1)
            IN IF Match(s, r.at, {End}) THEN r.tree ELSE SyntaxError
=============================================================================
