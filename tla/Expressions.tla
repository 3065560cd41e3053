----------------------------- MODULE Expressions -----------------------------
(***************************************************************************)
(* From the tree of an expression to instructions (codegen.cc, expression, *)
(* store, call, logicalOr, logicalAnd, conditional), registers for their   *)
(* results (allocateRegisters), and what the machine does with them.       *)
(*                                                                         *)
(* A reference names an operand: an instruction by its place in the code,  *)
(* or a variable, of which there is one node however often it is used.  An *)
(* instruction has a result of its own unless dest names a variable.       *)
(*                                                                         *)
(* f is any function of the program: it remembers what it was called with. *)
(***************************************************************************)
EXTENDS Grammar, FiniteSets, TLC

Variables == {"a", "b"}
Junk == 77                    \* what a register holds that nobody has set

Ins(i)  == [kind |-> "ins", ins |-> i, name |-> ""]
Var(x)  == [kind |-> "var", ins |-> 0, name |-> x]
NoRef    == [kind |-> "none", ins |-> 0, name |-> ""]

\* An instruction: opcode, operands, destination, and a number: the value of
\* a VALUE, the count of a CALL, the label of a branch or a LABEL.
Instruction(op, ops, val) == [op |-> op, ops |-> ops, dest |-> NoRef, val |-> val]

-----------------------------------------------------------------------------
\* Code is built in order; ref is the node that stands for the result.
Issue(code, op, ops, val) ==
    [code |-> Append(code, Instruction(op, ops, val)), ref |-> Ins(Len(code) + 1)]

IsExpression(code, ref) == ref.kind = "ins" /\ code[ref.ins].op # "VALUE"

\* Labels are made by the instruction that first needs them, so the place of
\* that instruction in the code names them.
Label(code, n) == 2 * Len(code) + n

Comparisons == {"==", "!=", "<", ">", "<=", ">="}

RECURSIVE Build(_, _), PushAll(_, _, _)

\* A condition that is not a comparison is compared with 0.
CompareTrue(b) ==
    IF b.ref.kind = "ins" /\ b.code[b.ref.ins].op \in Comparisons THEN b
    ELSE LET zero == Issue(b.code, "VALUE", <<>>, 0)
         IN Issue(zero.code, "!=", <<b.ref, zero.ref>>, 0)

\* The actual parameters, from the last to the first: of a variable, its address.
PushAll(code, kids, i) ==
    IF i = 0 THEN code
    ELSE IF kids[i].op \in Variables
         THEN PushAll(Issue(code, "PUSHADDR", <<Var(kids[i].op)>>, 0).code, kids, i - 1)
         ELSE LET b == Build(kids[i], code)
              IN PushAll(Issue(b.code, "PUSH", <<b.ref>>, 0).code, kids, i - 1)

Call(kids, code) ==
    LET pushed == PushAll(code, kids, Len(kids))
        count == Issue(pushed, "VALUE", <<>>, Len(kids))
    IN Issue(count.code, "CALL", <<count.ref>>, Len(kids))

Operator(op, kids, code) ==
    LET l == Build(kids[1], code)
        r == Build(kids[2], l.code)
    IN IF Len(kids) = 1 THEN Issue(l.code, op, <<l.ref>>, 0)
       ELSE Issue(r.code, op, <<l.ref, r.ref>>, 0)

\* The left side's value is moved to a temporary, and is the result if it decides.
LogicalOr(left, right, code) ==
    LET temp == Issue(code, "TEMP", <<>>, 0)
        end == Label(code, 1)
        l == Build(left, temp.code)
        m == Issue(l.code, "MOV", <<temp.ref, l.ref>>, 0)
        b == Issue(m.code, "BT", <<l.ref>>, end)
        r == Build(right, b.code)
        n == Issue(r.code, "MOV", <<temp.ref, r.ref>>, 0)
    IN [code |-> Issue(n.code, "LABEL", <<>>, end).code, ref |-> temp.ref]

LogicalAnd(left, right, code) ==
    LET temp == Issue(code, "TEMP", <<>>, 0)
        end == Label(code, 1)
        l == Build(left, temp.code)
        m == Issue(l.code, "MOV", <<temp.ref, l.ref>>, 0)
        c == CompareTrue([code |-> m.code, ref |-> l.ref])
        b == Issue(c.code, "BF", <<c.ref>>, end)
        r == Build(right, b.code)
        n == Issue(r.code, "MOV", <<temp.ref, r.ref>>, 0)
    IN [code |-> Issue(n.code, "LABEL", <<>>, end).code, ref |-> temp.ref]

Question(kids, code) ==
    LET temp == Issue(code, "TEMP", <<>>, 0)
        c == CompareTrue(Build(kids[1], temp.code))
        b == Issue(c.code, "BF", <<c.ref>>, Label(code, 1))
        l == Build(kids[2], b.code)
        m == Issue(l.code, "MOV", <<temp.ref, l.ref>>, 0)
        e == Issue(m.code, "B", <<>>, Label(code, 2))
        f == Issue(e.code, "LABEL", <<>>, Label(code, 1))
        r == Build(kids[3], f.code)
        n == Issue(r.code, "MOV", <<temp.ref, r.ref>>, 0)
    IN [code |-> Issue(n.code, "LABEL", <<>>, Label(code, 2)).code, ref |-> temp.ref]

\* An expression that has no destination yet computes into the variable;
\* a move is moved on from where it came.
Store(x, b) ==
    LET move(from) == Issue(b.code, "MOV", <<Var(x), from>>, 0)
    IN IF ~IsExpression(b.code, b.ref) THEN move(b.ref)
       ELSE LET value == b.code[b.ref.ins]
            IN IF value.op = "MOV" THEN move(value.ops[1])
               ELSE IF value.dest # NoRef THEN move(b.ref)
               ELSE [b EXCEPT !.code[b.ref.ins].dest = Var(x)]

Build(tree, code) ==
    CASE tree.op = "number" -> Issue(code, "VALUE", <<>>, tree.val)
      [] tree.op \in Variables -> [code |-> code, ref |-> Var(tree.op)]
      [] tree.op = "||" -> LogicalOr(tree.kids[1], tree.kids[2], code)
      [] tree.op = "&&" -> LogicalAnd(tree.kids[1], tree.kids[2], code)
      [] tree.op = "?"  -> Question(tree.kids, code)
      [] tree.op = "="  -> Store(tree.kids[1].op, Build(tree.kids[2], code))
      [] tree.op = "call" -> Call(Tail(tree.kids), code)
      [] OTHER -> Operator(tree.op, tree.kids, code)

-----------------------------------------------------------------------------
(***************************************************************************)
(* Registers.  One pass over the code in its order: an instruction gives   *)
(* back the registers of operands it is the last to use, then takes one    *)
(* for its result, and gives that back at once if nobody uses it.          *)
(***************************************************************************)
HasResult(in) == in.op \notin {"VALUE", "LABEL", "B", "BT", "BF"} /\ in.dest = NoRef

Uses(code, i) ==
    Cardinality({<<j, k>> \in (DOMAIN code) \X (1 .. 2) :
                    k \in DOMAIN code[j].ops /\ code[j].ops[k] = Ins(i)})

\* As if the last but one were the last to use a register.
Done_Early(r, ref) ==
    IF ref.kind # "ins" \/ r.reg[ref.ins] = 0 THEN r
    ELSE LET left == r.uses[ref.ins] - 1
         IN [r EXCEPT !.uses[ref.ins] = left,
                      !.free = IF left = 1 THEN <<r.reg[ref.ins]>> \o @ ELSE @]

\* One operand is done with.
Done(r, ref) ==
    IF ref.kind # "ins" \/ r.reg[ref.ins] = 0 THEN r
    ELSE LET left == r.uses[ref.ins] - 1
         IN [r EXCEPT !.uses[ref.ins] = left,
                      !.free = IF left <= 0 THEN <<r.reg[ref.ins]>> \o @ ELSE @]

RECURSIVE DoneAll(_, _), Allocate(_, _, _)

DoneAll(r, ops) == IF ops = <<>> THEN r ELSE DoneAll(Done(r, Head(ops)), Tail(ops))

TakeRegister(code, r, i) ==
    LET fresh == r.free = <<>>
        reg == IF fresh THEN r.nregs + 1 ELSE Head(r.free)
        rest == IF fresh THEN <<>> ELSE Tail(r.free)
    IN [reg |-> [r.reg EXCEPT ![i] = reg],
        uses |-> [r.uses EXCEPT ![i] = Uses(code, i)],
        nregs |-> IF fresh THEN r.nregs + 1 ELSE r.nregs,
        free |-> IF Uses(code, i) = 0 THEN <<reg>> \o rest ELSE rest]

Allocate(code, r, i) ==
    IF i > Len(code) THEN r
    ELSE LET freed == DoneAll(r, code[i].ops)
         IN Allocate(code, IF HasResult(code[i]) THEN TakeRegister(code, freed, i) ELSE freed,
                     i + 1)

Registers(code) ==
    Allocate(code, [reg |-> [i \in DOMAIN code |-> 0], uses |-> [i \in DOMAIN code |-> 0],
                    nregs |-> 0, free |-> <<>>], 1)

-----------------------------------------------------------------------------
(***************************************************************************)
(* The machine.  A state has the variables, the registers, the stack, what *)
(* f was called with, and the program counter.                             *)
(***************************************************************************)
AsNumber(b) == IF b THEN 1 ELSE 0

Apply(op, x, y) ==
    CASE op = "-"  -> x - y
      [] op = "+"  -> x + y
      [] op = "<"  -> AsNumber(x < y)
      [] op = "!=" -> AsNumber(x # y)
      [] op = "neg" -> -x
      [] op = "!"  -> AsNumber(x = 0)

Returned(args) == IF args = <<>> THEN 0 ELSE args[1] + 1

RECURSIVE Get(_, _, _, _)

\* An instruction's result is in its destination or its register.
Get(code, reg, m, ref) ==
    IF ref.kind = "var" THEN m.vars[ref.name]
    ELSE IF code[ref.ins].op = "VALUE" THEN code[ref.ins].val
    ELSE IF code[ref.ins].dest # NoRef THEN Get(code, reg, m, code[ref.ins].dest)
    ELSE m.regs[reg[ref.ins]]

Set(code, reg, m, ref, v) ==
    LET to == IF ref.kind = "ins" /\ code[ref.ins].dest # NoRef THEN code[ref.ins].dest ELSE ref
    IN IF to.kind = "var" THEN [m EXCEPT !.vars[to.name] = v]
       ELSE [m EXCEPT !.regs[reg[to.ins]] = v]

Target(code, label) == CHOOSE i \in DOMAIN code : code[i].op = "LABEL" /\ code[i].val = label

\* A value that was pushed, or the address of a variable, read at the call.
Arg(m, e) == IF e.kind = "var" THEN m.vars[e.name] ELSE e.ins

Step(code, reg, m) ==
    LET in == code[m.pc]
        op(k) == Get(code, reg, m, in.ops[k])
        next == [m EXCEPT !.pc = @ + 1]
        jump == [m EXCEPT !.pc = Target(code, in.val)]
        args == [k \in 1 .. in.val |-> Arg(m, m.stack[Len(m.stack) + 1 - k])]
    IN CASE in.op \in {"VALUE", "LABEL", "TEMP"} -> next
         [] in.op = "MOV" -> Set(code, reg, next, in.ops[1], op(2))
         [] in.op = "PUSH" -> [next EXCEPT !.stack = Append(@, [NoRef EXCEPT !.ins = op(1)])]
         [] in.op = "PUSHADDR" -> [next EXCEPT !.stack = Append(@, in.ops[1])]
         [] in.op = "B" -> jump
         [] in.op = "BT" -> IF op(1) # 0 THEN jump ELSE next
         [] in.op = "BF" -> IF op(1) = 0 THEN jump ELSE next
         [] in.op = "CALL" ->
              [Set(code, reg, next, Ins(m.pc), Returned(args)) EXCEPT
                  !.stack = SubSeq(@, 1, Len(@) - in.val), !.log = Append(@, args)]
         [] OTHER -> Set(code, reg, next, Ins(m.pc),
                         Apply(in.op, op(1), IF Len(in.ops) = 2 THEN op(2) ELSE 0))

RECURSIVE Run(_, _, _)
Run(code, reg, m) == IF m.pc > Len(code) THEN m ELSE Run(code, reg, Step(code, reg, m))

\* What a program that is one expression leaves: variables, calls, the value.
Compiled(tree, vars) ==
    LET b == Build(tree, <<>>)
        r == Registers(b.code)
        m == Run(b.code, r.reg, [vars |-> vars, regs |-> [i \in 1 .. r.nregs |-> Junk],
                                 stack |-> <<>>, log |-> <<>>, pc |-> 1])
    IN [vars |-> m.vars, log |-> m.log, stack |-> m.stack, value |-> Get(b.code, r.reg, m, b.ref)]
=============================================================================
