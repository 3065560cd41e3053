------------------------------ MODULE Codegen ------------------------------
(***************************************************************************)
(* The code generator of src/src/codegen.cc for statements: what it issues *)
(* for conditionals, loops, switches, scopes, exceptions and synchronized  *)
(* blocks, and the levels by which it knows how many scopes, exception     *)
(* handlers, foreach loops and monitors a jump leaves.                     *)
(*                                                                         *)
(* A statement is a tree [op, mark, kids].  Everything that is not control *)
(* flow is a "say": it leaves its mark in the output.  A condition has no  *)
(* code of its own: the branch that tests it decides.                      *)
(*                                                                         *)
(* The operators are recursive; only model checking uses this module.      *)
(***************************************************************************)
EXTENDS Integers, Sequences, SequencesExt

Silent == "-"

\* The statements.
Node(o, kids) == [op |-> o, mark |-> Silent, kids |-> kids]
Absent == Node("absent", <<>>)
Say(m) == [op |-> "say", mark |-> m, kids |-> <<>>]
Throw == Node("throw", <<>>)
Return == Node("return", <<>>)
Break == Node("break", <<>>)
Continue == Node("continue", <<>>)
Compound(ss) == Node("compound", ss)
If(s, t) == Node("if", <<s, t>>)
While(s) == Node("while", <<s>>)
Do(s) == Node("do", <<s>>)
For(s) == Node("for", <<s>>)
Foreach(s) == Node("foreach", <<s>>)
Switch(s, t) == Node("switch", <<s, t>>)
Try(b, c, f) == Node("try", <<b, c, f>>)
Synchronized(s) == Node("synchronized", <<s>>)

\* An instruction: its opcode, the labels and the numbers among its operands,
\* and the mark of a say.
Ins(o, l, k) == [op |-> o, l |-> l, k |-> k, mark |-> Silent]

\* The label "is" of the statement at path p of the tree.
Lab(p, is) == [at |-> p, is |-> is]
Label(p, is) == <<Ins("label", <<Lab(p, is)>>, <<>>)>>

-----------------------------------------------------------------------------
\* The generator's state: its levels, the monitors of the synchronized blocks
\* around, and the tops of breakLabels, breakscopes, continueLabels and
\* continuescopes.
tidyup == [scopeLevel |-> 0, trylevel |-> 0, foreachlevel |-> 0,
           monitors |-> <<>>,
           breakLabel |-> Lab(<<>>, "-"), breakscope |-> 0,
           continueLabel |-> Lab(<<>>, "-"), continuescope |-> 0]

monitorlevel(g) == Len(g.monitors)

\* Four levels in one integer.
makeScopeLevel(g) == monitorlevel(g) * 2^28 + g.trylevel * 2^20
                        + g.scopeLevel * 2^10 + g.foreachlevel
getMonitorLevel(l) == (l \div 2^28) % 2^5
getTryLevel(l) == (l \div 2^20) % 2^8
getScopeLevel(l) == (l \div 2^10) % 2^10
getForeachLevel(l) == l % 2^10

\* The state inside a loop, or a switch, at path p.
Breakable(g, p, b) == [g EXCEPT !.breakLabel = Lab(p, b),
                                !.breakscope = makeScopeLevel(g)]
Loop(g, p, b, c) == [Breakable(g, p, b) EXCEPT
                        !.continueLabel = Lab(p, c),
                        !.continuescope = makeScopeLevel(g)]

PopScope(scopes, tries, foreachs) == <<Ins("POPSCOPE", <<>>, <<scopes, tries, foreachs>>)>>

\* Leave the n innermost monitors.
MonitorExits(g, n) ==
    [i \in 1..n |-> Ins("MONITOREXIT", <<>>,
                        <<g.monitors[monitorlevel(g) + 1 - i]>>)]

-----------------------------------------------------------------------------
\* A say carries the levels of its place, for the properties to compare.
buildSay(g, m) ==
    <<[Ins("SAY", <<>>, <<g.scopeLevel, g.trylevel, g.foreachlevel, monitorlevel(g)>>)
         EXCEPT !.mark = m]>>

\* A mutant: a continue leaves one exception handler too few.
buildContinue_KeepsTry(g) ==
    LET l == g.continuescope
    IN  PopScope(g.scopeLevel - getScopeLevel(l), 0, 0)
          \o MonitorExits(g, monitorlevel(g) - getMonitorLevel(l))
          \o <<Ins("B", <<g.continueLabel>>, <<>>)>>

buildContinue(g) ==
    LET l == g.continuescope
    IN  PopScope(g.scopeLevel - getScopeLevel(l), g.trylevel - getTryLevel(l), 0)
          \o MonitorExits(g, monitorlevel(g) - getMonitorLevel(l))
          \o <<Ins("B", <<g.continueLabel>>, <<>>)>>

\* A mutant: a break leaves no foreach loop, as a continue does.
buildBreak_KeepsForeach(g) ==
    LET l == g.breakscope
    IN  PopScope(g.scopeLevel - getScopeLevel(l), g.trylevel - getTryLevel(l), 0)
          \o MonitorExits(g, monitorlevel(g) - getMonitorLevel(l))
          \o <<Ins("B", <<g.breakLabel>>, <<>>)>>

buildBreak(g) ==
    LET l == g.breakscope
    IN  PopScope(g.scopeLevel - getScopeLevel(l), g.trylevel - getTryLevel(l),
                 g.foreachlevel - getForeachLevel(l))
          \o MonitorExits(g, monitorlevel(g) - getMonitorLevel(l))
          \o <<Ins("B", <<g.breakLabel>>, <<>>)>>

\* A mutant: a return stays in the monitors of the synchronized blocks.
buildReturn_KeepsMonitors(g) ==
    PopScope(g.scopeLevel, g.trylevel, g.foreachlevel) \o <<Ins("RET", <<>>, <<>>)>>

buildReturn(g) ==
    (IF g.scopeLevel > 0 \/ g.trylevel > 0 \/ g.foreachlevel > 0
     THEN PopScope(g.scopeLevel, g.trylevel, g.foreachlevel) ELSE <<>>)
      \o MonitorExits(g, monitorlevel(g))
      \o <<Ins("RET", <<>>, <<>>)>>

\* A throw leaves as many monitors as there are more monitors than handlers.
ThrowExits(g) == IF monitorlevel(g) > g.trylevel THEN monitorlevel(g) - g.trylevel ELSE 0
buildThrow(g) == MonitorExits(g, ThrowExits(g)) \o <<Ins("THROW", <<>>, <<>>)>>

buildCompound(body) ==
    <<Ins("PUSHSCOPE", <<>>, <<>>)>> \o body \o PopScope(1, 0, 0)

buildIf(p, s, t) ==
    <<Ins("BF", <<Lab(p, "else")>>, <<>>)>> \o s \o <<Ins("B", <<Lab(p, "end")>>, <<>>)>>
      \o Label(p, "else") \o t \o Label(p, "end")

buildWhile(p, s) ==
    Label(p, "loop") \o <<Ins("BF", <<Lab(p, "end")>>, <<>>)>> \o s
      \o <<Ins("B", <<Lab(p, "loop")>>, <<>>)>> \o Label(p, "end")

buildDo(p, s) ==
    Label(p, "loop") \o s \o <<Ins("BT", <<Lab(p, "loop")>>, <<>>)>> \o Label(p, "end")

buildFor(p, s) ==
    Label(p, "loop") \o <<Ins("BF", <<Lab(p, "end")>>, <<>>)>> \o s
      \o Label(p, "cont") \o <<Ins("B", <<Lab(p, "loop")>>, <<>>)>> \o Label(p, "end")

buildForeach(p, s) ==
    <<Ins("FOREACH", <<Lab(p, "end")>>, <<>>)>> \o s
      \o Label(p, "loop") \o <<Ins("NEXT", <<>>, <<>>)>>
      \o Label(p, "break") \o Label(p, "end")

\* One case and a default; a case that does not break falls through.
buildSwitch(p, s, t) ==
    <<Ins("BT", <<Lab(p, "case")>>, <<>>), Ins("B", <<Lab(p, "default")>>, <<>>)>>
      \o Label(p, "case") \o s \o Label(p, "default") \o t \o Label(p, "end")

End == <<Ins("END", <<>>, <<>>)>>

\* A mutant: the catch code runs into the finally code, without an END.
buildTry_FallsThrough(p, b, hasCatch, c, hasFinally, f) ==
    <<Ins("TRY", <<Lab(p, "catch"), Lab(p, "end")>>
                   \o (IF hasFinally THEN <<Lab(p, "finally")>> ELSE <<>>), <<>>)>>
      \o b \o End
      \o (IF hasCatch THEN Label(p, "catch") \o <<Ins("CATCH", <<>>, <<>>)>> \o c ELSE <<>>)
      \o (IF hasFinally THEN Label(p, "finally") \o f \o End ELSE <<>>)
      \o (IF hasCatch THEN <<>> ELSE Label(p, "catch"))
      \o Label(p, "end")

\* Without a catch the handler is what follows the statement.
buildTry(p, b, hasCatch, c, hasFinally, f) ==
    <<Ins("TRY", <<Lab(p, "catch"), Lab(p, "end")>>
                   \o (IF hasFinally THEN <<Lab(p, "finally")>> ELSE <<>>), <<>>)>>
      \o b \o End
      \o (IF hasCatch THEN Label(p, "catch") \o <<Ins("CATCH", <<>>, <<>>)>> \o c ELSE <<>>)
      \o (IF hasCatch /\ hasFinally THEN End ELSE <<>>)
      \o (IF hasFinally THEN Label(p, "finally") \o f \o End ELSE <<>>)
      \o (IF hasCatch THEN <<>> ELSE Label(p, "catch"))
      \o Label(p, "end")

\* The monitor of the block at path p is named by how deep it is nested.
buildSynchronized(m, s) ==
    <<Ins("MONITORENTER", <<>>, <<m>>)>> \o s \o <<Ins("MONITOREXIT", <<>>, <<m>>)>>

-----------------------------------------------------------------------------
RECURSIVE build(_, _, _), buildAll(_, _, _, _)

buildAll(ss, i, p, g) ==
    IF i > Len(ss) THEN <<>>
    ELSE build(ss[i], Append(p, i), g) \o buildAll(ss, i + 1, p, g)

build(s, p, g) ==
    LET kid(i, h) == build(s.kids[i], Append(p, i), h)
        inTry == [g EXCEPT !.trylevel = @ + 1]
        m == monitorlevel(g) + 1
    IN  CASE s.op = "absent" -> <<>>
          [] s.op = "say" -> buildSay(g, s.mark)
          [] s.op = "throw" -> buildThrow(g)
          [] s.op = "return" -> buildReturn(g)
          [] s.op = "break" -> buildBreak(g)
          [] s.op = "continue" -> buildContinue(g)
          [] s.op = "compound" ->
               buildCompound(buildAll(s.kids, 1, p, [g EXCEPT !.scopeLevel = @ + 1]))
          [] s.op = "if" -> buildIf(p, kid(1, g), kid(2, g))
          [] s.op = "while" -> buildWhile(p, kid(1, Loop(g, p, "end", "loop")))
          [] s.op = "do" -> buildDo(p, kid(1, Loop(g, p, "end", "loop")))
          [] s.op = "for" -> buildFor(p, kid(1, Loop(g, p, "end", "cont")))
          [] s.op = "foreach" ->
               buildForeach(p, kid(1, [Loop(g, p, "break", "loop") EXCEPT
                                          !.foreachlevel = @ + 1]))
          [] s.op = "switch" -> buildSwitch(p, kid(1, Breakable(g, p, "end")),
                                               kid(2, Breakable(g, p, "end")))
          [] s.op = "try" ->
               buildTry(p, kid(1, inTry), s.kids[2] # Absent, kid(2, g),
                                          s.kids[3] # Absent, kid(3, g))
          [] s.op = "synchronized" ->
               buildSynchronized(m, kid(1, [g EXCEPT !.monitors = Append(@, m)]))

\* The address of a label is that of the instruction after it.
Address(issued, lab) ==
    LET i == CHOOSE j \in 1..Len(issued) :
                issued[j].op = "label" /\ issued[j].l = <<lab>>
    IN  1 + Len(SelectSeq(SubSeq(issued, 1, i), LAMBDA x : x.op # "label"))

\* Labels become addresses.
emit(issued) ==
    LET real == SelectSeq(issued, LAMBDA x : x.op # "label")
    IN  [i \in 1..Len(real) |->
            [real[i] EXCEPT !.l = [j \in 1..Len(@) |-> Address(issued, @[j])]]]

generate(s) == emit(build(s, <<>>, tidyup) \o End)
=============================================================================
