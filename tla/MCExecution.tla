---------------------------- MODULE MCExecution ----------------------------
(* Small sets of source programs for TLC. *)
EXTENDS Execution, TLC

TameOf(S) == {s \in S : Tame(s)}

Leaves(inLoop) == {Say("x"), Throw, Return}
                    \cup (IF inLoop THEN {Break, Continue} ELSE {})

\* A block that leaves a mark first.
Block(m, s) == Compound(<<Say(m), s>>)

-----------------------------------------------------------------------------
\* Programs about exceptions, foreach loops and synchronized blocks.

\* Finally code: a mark, or jumps and exceptions that stay inside.
Finals(d) == {Block(<<"finally", d>>, Absent),
              Foreach(Try(Break, Say("x"), Say(<<"finally", d>>))),
              Try(Throw, Say(<<"finally", d>>), Absent)}

\* The statements around body, which is at height d.
Around(body, d, inLoop) ==
    {Compound(<<body, Say(<<"after", d>>)>>), Synchronized(body)}
      \cup {Try(body, Block(<<"catch", d>>, c), f) :
              c \in Leaves(inLoop), f \in {Absent} \cup Finals(d)}
      \cup {Try(body, Absent, f) : f \in Finals(d)}

RECURSIVE Statements(_, _)
Statements(d, inLoop) ==
    IF d = 0 THEN Leaves(inLoop)
    ELSE TameOf(Statements(0, inLoop)
           \cup UNION {Around(s, d, inLoop) : s \in Statements(d - 1, inLoop)}
           \cup {Foreach(s) : s \in Statements(d - 1, TRUE)})

\* Any catch and finally code, also where the machine does not follow.
Wild(S, inLoop) ==
    UNION {{Synchronized(s)}
             \cup {Try(s, c, f) : c \in Leaves(inLoop) \cup {Absent}, f \in Leaves(inLoop)}
             \cup {Try(s, c, Absent) : c \in Leaves(inLoop)} : s \in S}

WildStatements(d) ==
    LET S1 == Wild(Leaves(TRUE), TRUE)
    IN  {Foreach(s) : s \in Wild(S1, TRUE)} \cup Wild({Foreach(s) : s \in S1}, FALSE)

-----------------------------------------------------------------------------
\* Loops of every kind, conditionals and switches around a jump that a
\* condition guards, with try statements between them.

Jumps(d) == {If(s, Say(<<"else", d>>)) : s \in Leaves(TRUE)}

Loops(S) == UNION {{While(s), For(s), Do(s), Foreach(s)} : s \in S}

Switches(S) == UNION {{Switch(s, Say("default")), Switch(Say("case"), s)} : s \in S}

Guarded(S, d) ==
    TameOf(UNION {{s, Compound(<<s, Say(<<"after", d>>)>>),
                   Try(s, Absent, Say(<<"finally", d>>)),
                   Try(s, Block(<<"catch", d>>, Throw), Say(<<"finally", d>>)),
                   Try(s, Block(<<"catch", d>>, Return), Absent)} : s \in S})

\* A loop around a loop or a switch around a jump: a continue in the switch
\* needs the loop.
LoopStatements(d) ==
    LET inner == Guarded(Jumps(d), d + 1)
    IN  Loops(Guarded(Loops(inner) \cup Switches(inner), d + 2))

-----------------------------------------------------------------------------
\* Programs that are not tame, one for each doubt.
Doubts == [returnInCatch |-> Try(Try(Throw, Return, Say("finally")), Say("catch"), Absent),
           breakInCatch |-> While(Compound(<<Try(Throw, Break, Say("finally"))>>)),
           finallyOnly |-> Try(Throw, Absent, Say("finally")),
           throwInFinally |-> Try(Try(Say("x"), Say("catch"),
                                      Compound(<<Say("finally"), Throw>>)),
                                  Say("outer"), Absent),
           throwInSynchronized |-> Try(Synchronized(Throw), Say("catch"), Absent)]

\* Every program ends with a mark, if it gets there.
Programs(S) == {Compound(<<s, Say("end")>>) : s \in S}

MCProgram == Programs(Statements(3, FALSE) \cup LoopStatements(0) \cup WildStatements(0)
                      \cup {Doubts[x] : x \in DOMAIN Doubts})
=============================================================================
