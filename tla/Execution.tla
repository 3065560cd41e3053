----------------------------- MODULE Execution -----------------------------
(***************************************************************************)
(* Source programs, compiled by Codegen and run by Interpreter, against    *)
(* what the statements mean: a structural definition of the marks a        *)
(* program leaves and of how it ends.                                      *)
(***************************************************************************)
EXTENDS Codegen, Interpreter

CONSTANT Program  \* the source programs

VARIABLE prog

execVars == <<vars, prog>>

Init == /\ prog \in Program
        /\ code = generate(prog)
        /\ Start

Next == \/ Step /\ UNCHANGED prog
        \/ result # "running" /\ UNCHANGED execVars

Spec == Init /\ [][Next]_execVars

-----------------------------------------------------------------------------
\* What a statement means.  st is what has happened so far: the marks left,
\* how many answers were used, and how the last statement ended.
Ask(st) == st.used < Len(answers) /\ answers[st.used + 1]
Asked(st) == [st EXCEPT !.used = @ + 1]
As(st, how) == [st EXCEPT !.how = how]

RECURSIVE Run(_, _), RunAll(_, _, _), RunLoop(_, _, _)

RunAll(ss, k, st) ==
    IF k > Len(ss) \/ st.how # "normal" THEN st
    ELSE RunAll(ss, k + 1, Run(ss[k], st))

\* A loop that asks for permission before each round, or only after the first.
RunLoop(s, st, ask) ==
    IF ask /\ ~Ask(st) THEN Asked(st)
    ELSE LET r == Run(s, IF ask THEN Asked(st) ELSE st)
         IN  CASE r.how = "break" -> As(r, "normal")
               [] r.how \in {"throw", "return"} -> r
               [] r.how = "continue" -> RunLoop(s, As(r, "normal"), ask)
               [] r.how = "normal" ->
                    IF ask THEN RunLoop(s, r, ask)
                    ELSE IF Ask(r) THEN RunLoop(s, Asked(r), ask) ELSE Asked(r)

Run(s, st) ==
    CASE s.op = "absent" -> st
      [] s.op = "say" -> [st EXCEPT !.out = Append(@, s.mark)]
      [] s.op \in {"throw", "return", "break", "continue"} -> As(st, s.op)
      [] s.op = "compound" -> RunAll(s.kids, 1, st)
      [] s.op = "if" -> Run(s.kids[IF Ask(st) THEN 1 ELSE 2], Asked(st))
      [] s.op \in {"while", "for", "foreach"} -> RunLoop(s.kids[1], st, TRUE)
      [] s.op = "do" -> RunLoop(s.kids[1], st, FALSE)
      [] s.op = "switch" ->
           LET r == RunAll(s.kids, IF Ask(st) THEN 1 ELSE 2, Asked(st))
           IN  IF r.how = "break" THEN As(r, "normal") ELSE r
      [] s.op = "synchronized" -> Run(s.kids[1], st)
      [] s.op = "try" ->
           LET b == Run(s.kids[1], st)
               c == IF b.how = "throw" /\ s.kids[2] # Absent
                    THEN Run(s.kids[2], As(b, "normal")) ELSE b
               f == Run(s.kids[3], As(c, "normal"))
           IN  IF f.how = "normal" THEN As(f, c.how) ELSE f

Meaning == Run(prog, [out |-> <<>>, used |-> 0, how |-> "normal"])

-----------------------------------------------------------------------------
\* How a statement may end, whatever its conditions.
RECURSIVE Ends(_)
Ends(s) ==
    CASE s.op \in {"absent", "say"} -> {"normal"}
      [] s.op \in {"throw", "return", "break", "continue"} -> {s.op}
      [] s.op = "compound" ->
           UNION {Ends(s.kids[k]) : k \in 1..Len(s.kids)} \cup {"normal"}
      [] s.op = "if" -> Ends(s.kids[1]) \cup Ends(s.kids[2])
      [] s.op \in {"while", "for", "foreach", "do"} ->
           (Ends(s.kids[1]) \ {"break", "continue"}) \cup {"normal"}
      [] s.op = "switch" ->
           ((Ends(s.kids[1]) \cup Ends(s.kids[2])) \ {"break"}) \cup {"normal"}
      [] s.op = "synchronized" -> Ends(s.kids[1])
      [] s.op = "try" ->
           LET b == Ends(s.kids[1])
           IN  (IF s.kids[2] # Absent /\ "throw" \in b
                THEN (b \ {"throw"}) \cup Ends(s.kids[2]) ELSE b)
               \cup (Ends(s.kids[3]) \ {"normal"})

\* The statements that the machine runs as they are meant.  With finally
\* code, the catch code must end normally or with an exception, the finally
\* code normally, and a try without catch must not throw.
RECURSIVE Tame(_)
Tame(s) ==
    /\ \A k \in 1..Len(s.kids) : Tame(s.kids[k])
    /\ s.op = "try" /\ s.kids[3] # Absent =>
          /\ Ends(s.kids[2]) \subseteq {"normal", "throw"}
          /\ Ends(s.kids[3]) = {"normal"}
          /\ s.kids[2] = Absent => "throw" \notin Ends(s.kids[1])

\* m synchronized blocks around s, of which t are outside the try statement
\* around it; a throw leaves m - trylevel of them, and should leave m - t.
RECURSIVE ThrowsFit(_, _, _, _)
ThrowsFit(s, m, tries, t) ==
    CASE s.op = "throw" -> m - t = IF m > tries THEN m - tries ELSE 0
      [] s.op = "synchronized" -> ThrowsFit(s.kids[1], m + 1, tries, t)
      [] s.op = "try" -> /\ ThrowsFit(s.kids[1], m, tries + 1, m)
                         /\ ThrowsFit(s.kids[2], m, tries, t)
                         /\ ThrowsFit(s.kids[3], m, tries, t)
      [] OTHER -> \A k \in 1..Len(s.kids) : ThrowsFit(s.kids[k], m, tries, t)

Follows == Tame(prog) /\ ThrowsFit(prog, 0, 0, 0)

-----------------------------------------------------------------------------
\* The properties below are of the programs that the machine follows.

\* The compiled program leaves the marks it should, in order, and ends as it
\* should.
Faithful ==
    result # "running" /\ Follows =>
        \/ result = "ended" /\ out = Meaning.out /\ Meaning.how \in {"normal", "return"}
        \/ result = "uncaught" /\ out = Meaning.out /\ Meaning.how = "throw"

InPhase(ps) == {d \in 1..Len(frames) : frames[d].phase \in ps}

\* Wherever a mark is left, the stacks of the machine are as deep as the code
\* generator thought: its pops are computed from these levels.  The code that
\* runs after a jump or an exception has left a try runs below its level.
LevelsAgree ==
    flight = "none" /\ result = "running" /\ code[pc].op = "SAY" /\ Follows =>
        /\ Cardinality(InPhase({"try"})) = code[pc].k[2]
        /\ InPhase({"int", "raise"}) = {} =>
              /\ scopeSP = BaseScope + code[pc].k[1]
              /\ Len(forStack) = code[pc].k[3]
              /\ \A m \in Monitors : held[m] = IF m <= code[pc].k[4] THEN 1 ELSE 0

\* Finally code is executed when a "return, break or continue causes the try to
\* go out of scope", and without a catch too: as long as the finally code of an
\* activation of dotry was not entered, execution is inside its statement.
FinallyInTime ==
    result = "running" =>
        \A d \in InPhase({"try", "catch"}) :
            frames[d].finally # 0 /\ pc >= frames[d].end => ~Follows

\* "Finally blocks are always executed [...] regardless of how the block is
\* exited": no activation of dotry ends before its finally code was entered.
FinallyAlways ==
    [][Len(frames') < Len(frames) /\ Top.finally # 0 /\ Top.phase \in {"try", "catch"}
          => ~Follows]_execVars

\* A program that ends leaves nothing on the stacks.
Balanced ==
    result = "ended" /\ Follows => /\ scopeSP = BaseScope
                                   /\ forStack = <<>>
                                   /\ frames = <<>>

\* "Java style synchronized": a thread that is out of the program holds none
\* of its monitors, however it got out.
MonitorsReleased ==
    result # "running" /\ Follows => \A m \in Monitors : held[m] = 0

\* The stacks and the monitors, at every mark and at the end, of every program
\* the machine follows; and their types on any program.
StacksRight == TypeOK /\ LevelsAgree /\ Balanced /\ MonitorsReleased
=============================================================================
