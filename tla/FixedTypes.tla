----------------------------- MODULE FixedTypes -----------------------------
(***************************************************************************)
(* Static types and the instructions that rely on them: Node::init and     *)
(* propagateFlags of parser.cc, the choice of an opcode in codegen.cc, and *)
(* in interpret.cc the opcodes with a suffix, which take a field of the    *)
(* union without looking at the type, and what they store into.            *)
(*                                                                         *)
(* A node's static type is "loose" if it is not known.  What has a fixed   *)
(* type that no instruction is made for (objects, literal vectors, and all *)
(* variables declared with the name of a type) has the type "none".        *)
(***************************************************************************)
EXTENDS Conversions

StaticTypes == {"integer", "bool", "char", "real", "string", "vector", "none"}
Comparing == {"==", "!=", "<", "<=", ">", ">="}
Arithmetic == {"+", "-", "*", "/", "%"}
Bitwise2 == {"<<", ">>", ">>>", "|", "^", "&"}
OneOperand == {"~", "!", "neg", "sizeof"}

\* The integral types are the odd ones: a value of any of them is kept in the
\* same field.
Alike(t, u) == t = u \/ (t \in Whole /\ u \in Whole)

-----------------------------------------------------------------------------
\* The static type of a node whose left node has type l, and whose right one,
\* if there is one, r.
propagateFlags(op, l, r) ==
    IF l = "loose" \/ l # r \/ op = "typeof" THEN "loose"
    ELSE CASE op \in Comparing \cup {"!"} -> "bool"
           [] op = "newvector" -> "vector"
           [] op = "sizeof" -> "integer"
           [] OTHER -> l

\* The types an operator has an instruction of its own for, and its suffix.
Suffix(t) == CASE t \in {"integer", "bool", "char"} -> "I" [] t = "real" -> "R"
               [] t = "string" -> "S" [] t = "vector" -> "V" [] OTHER -> ""
fixedTypes(op) ==
    CASE op = "+" -> {"I", "R", "S", "V"}
      [] op \in {"-", "*", "/", "%"} -> {"I", "R"}
      [] op = "&" -> {"I", "V"}
      [] op \in Bitwise2 \ {"&"} -> {"I"}
      [] op \in Comparing -> {"I", "R", "S"}
      [] op \in {"~", "!", "neg"} -> {"I"}
      [] OTHER -> {}

\* The suffix of the opcode, "" for the one that looks at the types.
Opcode(op, l, r) ==
    IF propagateFlags(op, l, r) # "loose" /\ Suffix(l) \in fixedTypes(op) THEN Suffix(l) ELSE ""

-----------------------------------------------------------------------------
\* The instructions with a suffix, on the fields they take.
Compared(op, smaller, equal) ==
    Bool(CASE op = "==" -> equal [] op = "!=" -> ~equal [] op = "<" -> smaller
           [] op = "<=" -> smaller \/ equal [] op = ">" -> ~smaller /\ ~equal [] op = ">=" -> ~smaller)

\* The divisor is not tested but the number in the operand: the value of a
\* literal, the number of a register, the address of a variable.
Places == {"literal", "register 0", "elsewhere"}
Modulo(a, b, place) ==
    IF place = "register 0" THEN Zero
    ELSE IF b = 0 /\ place = "elsewhere" THEN Undefined ELSE Divided(Remainder, a, b)

WholeArithmetic(op, a, b, place) ==
    CASE op = "+" -> Integer(a + b) [] op = "-" -> Integer(a - b) [] op = "*" -> Integer(a * b)
      [] op = "/" -> Divided(Quotient, a, b)
      [] op = "%" -> Modulo(a, b, place)

\* A count that is not less than the width is left to the machine.
WholeBits(op, a, b) ==
    IF op \in {"<<", ">>", ">>>"} /\ b \notin 0..(Width - 1) THEN Undefined
    ELSE Integer(CASE op = "<<" -> a * 2^b
                   [] op = ">>" -> a \div 2^b
                   [] op = ">>>" -> (a % 2^Width) \div 2^b
                   [] op = "|" -> (a % 2^Width) | (b % 2^Width)
                   [] op = "^" -> (a % 2^Width) ^^ (b % 2^Width)
                   [] op = "&" -> (a % 2^Width) & (b % 2^Width))

\* The operators with one operand.
WholeUnary(op, a) == CASE op = "~" -> Integer(-a - 1) [] op = "neg" -> Integer(-a)
                       [] op = "!" -> Bool(a = 0)

RealArithmetic(op, a, b) ==
    CASE op = "+" -> Real(a + b) [] op = "-" -> Real(a - b)
      [] op = "*" -> Real(Quotient(a * b, Unit))
      [] op = "/" -> IF b = 0 THEN Zero ELSE Real(Quotient(a * Unit, b))
      [] op = "%" -> IF b = 0 THEN Zero ELSE Real(Remainder(a, b))

\* The field an instruction takes is not the one the value is in.
Fits(suffix, x) == CASE suffix = "I" -> x.type \in Whole [] suffix = "R" -> x.type = "real"
                     [] suffix = "S" -> x.type = "string" [] suffix = "V" -> x.type = "vector"

\* place is where the second operand is.
Fixed(op, suffix, x, y, place) ==
    IF ~Fits(suffix, x) \/ ~Fits(suffix, y) THEN Undefined
    ELSE CASE op \in Comparing ->
                 Compared(op, IF suffix = "S" THEN StringLess(x.v, y.v) ELSE x.v < y.v, x.v = y.v)
           [] op \in Arithmetic /\ suffix = "I" -> WholeArithmetic(op, x.v, y.v, place)
           [] op \in Bitwise2 /\ suffix = "I" -> WholeBits(op, x.v, y.v)
           [] op \in OneOperand -> WholeUnary(op, x.v)
           [] suffix = "R" -> RealArithmetic(op, x.v, y.v)
           [] suffix = "S" -> String(x.v \o y.v)
           [] suffix = "V" -> Vector(IF op = "+" THEN x.v \o y.v ELSE Common(x.v, y.v))

\* The instruction that looks at the types.
General(op, x, y) ==
    CASE op = "+" -> add(x, y) [] op = "-" -> sub(x, y) [] op = "*" -> mul(x, y)
      [] op = "/" -> div(x, y) [] op = "%" -> mod(x, y)
      [] op = "<<" -> sll(x, y) [] op = ">>" -> sra(x, y) [] op = ">>>" -> srl(x, y)
      [] op = "|" -> bitwiseor(x, y) [] op = "^" -> bitwisexor(x, y) [] op = "&" -> bitwiseand(x, y)
      [] op = "==" -> cmpeq(x, y) [] op = "!=" -> cmpne(x, y) [] op = "<" -> cmplt(x, y)
      [] op = "<=" -> cmple(x, y) [] op = ">" -> cmpgt(x, y) [] op = ">=" -> cmpge(x, y)
      [] op = "~" -> comp(x) [] op = "neg" -> uminus(x) [] op = "!" -> boolnot(x)
      [] op = "sizeof" -> dosizeof(x)

-----------------------------------------------------------------------------
(***************************************************************************)
(* Storing.  A variable has flags and a value, old: it is a constant, or   *)
(* generic, has a fixed type, was set before, or holds a function that has *)
(* yielded.                                                                *)
(***************************************************************************)
Mistyped == Error("different type")
Constant == Error("constant")

\* What a variable that holds old lets in: all of it while it has no value.
checkType(old, t) == old.type = "none" \/ Alike(old.type, t) \/ (old.type = "enumconst" /\ t = "enum")

setVariable(flags, old, new) ==
    IF "const" \in flags THEN Constant
    ELSE IF \/ "generic" \in flags \/ flags \cap {"fixed", "set"} = {}
            \/ "fixed" \notin flags /\ "yielded" \in flags
            \/ checkType(old, new.type)
         THEN new ELSE Mistyped

\* setbool, setint, setreal, setstring and setvector do not look at the flags; a
\* truth value is let in where an integer is.
Given(old, new) ==
    IF checkType(old, IF new.type = "bool" THEN "integer" ELSE new.type) THEN new ELSE Mistyped

\* What a function returns when the result has static type t.
ReturnedAs(t, x) == IF t = "integer" THEN Integer(x.v) ELSE x
=============================================================================
