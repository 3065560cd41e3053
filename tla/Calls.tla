------------------------------- MODULE Calls -------------------------------
(***************************************************************************)
(* How a call finds the frames its function's variables are in: the        *)
(* static links that callFunction, newObject, supercall and make_closure   *)
(* of src/src/interpret.cc compute, and the frames they keep alive.        *)
(*                                                                         *)
(* The generator names a variable by a number of static links to follow,   *)
(* the difference of two levels of the source text.  A function called     *)
(* through a method, a superclass, a nested function or a closure gets     *)
(* links from the caller's, from an object's or from a closure's, and must *)
(* find in them what the text says.  "env" is what the text says: the      *)
(* frames, innermost first, of the blocks around the code.                 *)
(***************************************************************************)
EXTENDS Integers, Sequences, FiniteSets, SequencesExt

CONSTANTS Main, Function, Class,   \* the blocks of the program
          Parent,                  \* Parent[b]: the block b is written in
          Super,                   \* Super[c]: the superclass of c, or None
          None,
          MaxFrames,   \* bound: frames and objects a run makes
          MaxCalls,    \* bound: calls within calls
          Gentle       \* TRUE: leave out the four uses named below

Block == {Main} \cup Function \cup Class
Frame == 1..MaxFrames
NoObject == 0

ASSUME BlocksAssumption == /\ Function \cap Class = {} /\ Main \notin Function \cup Class
                           /\ Parent \in [Function \cup Class -> Block]
                           /\ Super \in [Class -> Class \cup {None}] /\ None \notin Block
ASSUME BoundsAssumption == MaxFrames \in Nat \ {0} /\ MaxCalls \in Nat

VARIABLES frames,   \* frames[i]: the i-th StackFrame or Object made
          calls,    \* the calls of execute, the running one last
          closure   \* the Closure the program's variable holds, or Nothing

vars == <<frames, calls, closure>>

Nothing == [block |-> None, slink |-> <<>>, env |-> <<>>]

level[b \in Block] == IF b = Main THEN 0 ELSE 1 + level[Parent[b]]
IsMethod(f) == f # Main /\ Parent[f] \in Class

\* The blocks around c, and the superclasses of c; both with c.
Around == [c \in Block |-> {d \in Block : \A S \in SUBSET Block :
              c \in S /\ (\A b \in S \ {Main} : Parent[b] \in S) => d \in S}]
Supers == [c \in Class |-> {d \in Class : \A S \in SUBSET Class :
              c \in S /\ (\A b \in S : Super[b] \in S \cup {None}) => d \in S}]

\* A text nests: the levels are what their definition says.
ASSUME NestingAssumption == /\ level \in [Block -> Nat]
                            /\ level[Main] = 0
                            /\ \A b \in Block \ {Main} : level[b] = 1 + level[Parent[b]]

\* A superclass is written in a block around its subclass, and no class
\* extends itself.  (One that the enclosing class inherits is left out.)
ASSUME HierarchyAssumption ==
    \A c \in Class : Super[c] # None => /\ Parent[Super[c]] \in Around[Parent[c]]
                                       /\ c \notin Supers[Super[c]]

\* slink: the links of an object; they are a copy and count nothing.
\* refs: the references that keep a frame: its call and the closures.
Slot == [block : Block, slink : Seq(Frame), env : Seq(Frame), refs : Nat]

\* code: the block whose code is executed; this: the object of a method;
\* via: called through the closure.
Call == [code : Block, frame : Frame, slink : Seq(Frame), env : Seq(Frame),
         this : Frame \cup {NoObject}, via : BOOLEAN]

TypeOK == /\ frames \in Seq(Slot) /\ Len(frames) <= MaxFrames
          /\ calls \in Seq(Call) /\ calls # <<>>
          /\ closure \in [block : Function \cup {None}, slink : Seq(Frame), env : Seq(Frame)]

Init == /\ frames = <<[block |-> Main, slink |-> <<>>, env |-> <<1>>, refs |-> 1]>>
        /\ calls = <<[code |-> Main, frame |-> 1, slink |-> <<>>, env |-> <<1>>,
                     this |-> NoObject, via |-> FALSE]>>
        /\ closure = Nothing

-----------------------------------------------------------------------------
me == Last(calls)
getStack(n) == IF n = 0 THEN me.frame ELSE me.slink[n]
Skip(s, n) == SubSeq(s, n + 1, Len(s))

\* What the name of b means in the running code: b is written in a block
\* around it, or in a superclass of such a block; the innermost one counts.
\* The number of links is that of the block around the code, not of the
\* superclass.
Holder(b) == {d \in Around[me.code] : d = Parent[b] \/ (d \in Class /\ Parent[b] \in Supers[d])}
Links(b) == level[me.code] - level[CHOOSE d \in Holder(b) : \A e \in Holder(b) : level[e] <= level[d]]
Visible(b) == Holder(b) # {}

\* Where the text puts the blocks around code that is written in d, when d's
\* part is played by the frame f: an object of a subclass has the frames around
\* its superclass among the frames around its own class.
Text(f, d) == LET around == Tail(frames[f].env)
              IN  <<f>> \o Skip(around, Len(around) - level[d])

\* Uses of the language the links are not right for:
\*   - a method inherited from a class at a lower level is called for an
\*     object that is not the caller's;
\*   - the superclass of a superclass is made, for an object whose class is at
\*     another level than the first of the two: the cut starts at its level;
\*   - an object is used after the function its class is written in, whose
\*     frame nobody keeps for it;
\*   - a variable is given another value while the closure it held is running.
InReach == UNION {{calls[n].frame} \cup ToSet(calls[n].slink) : n \in DOMAIN calls}
Kept(s) == \A k \in DOMAIN s : s[k] \in InReach \/ frames[s[k]].block \in Class
Sound(o, f) == Gentle => /\ Kept(frames[o].slink)
                         /\ me.this = o \/ level[frames[o].block] = level[Parent[f]]
Running == \E n \in DOMAIN calls : calls[n].via

\* execute, with a new frame or object.
Execute(b, slink, env, this, via) ==
    /\ Len(frames) < MaxFrames
    /\ Len(calls) < MaxCalls
    /\ LET i == Len(frames) + 1
           new == [block |-> b, slink |-> slink, env |-> <<i>> \o env, refs |-> 1]
       IN  /\ frames' = Append(frames, new)
           /\ calls' = Append(calls, [code |-> b, frame |-> i, slink |-> slink,
                                      env |-> new.env, this |-> IF b \in Class THEN i ELSE this,
                                      via |-> via])

\* A mutant: the links of an object as they are.
Adjusted_Never(o, b) == <<o>> \o frames[o].slink

\* The links of an object, cut when the caller is in the same object and the
\* block is written at a lower level than the object's class.
Adjusted(o, b) ==
    LET n == level[frames[o].block] - level[b] + 1
    IN  <<o>> \o (IF me.this = o THEN Skip(frames[o].slink, n) ELSE frames[o].slink)

-----------------------------------------------------------------------------
\* callFunction: o.f.
CallMethod(o, f) ==
    /\ frames[o].block \in Class
    /\ Parent[f] \in Supers[frames[o].block]
    /\ Sound(o, f)
    /\ Execute(f, Adjusted(o, f), Text(o, Parent[f]), o, FALSE)
    /\ UNCHANGED closure

\* A method by its simple name: the object is found through the links.
CallOwn(f) == IsMethod(f) /\ Visible(f) /\ CallMethod(getStack(Links(f)), f)

\* A function written in the running block gets the caller's frame.
CallNested(f) ==
    /\ ~IsMethod(f)
    /\ Parent[f] = frames[me.frame].block
    /\ Execute(f, <<me.frame>> \o me.slink, Text(me.env[1], Parent[f]), NoObject, FALSE)
    /\ UNCHANGED closure

\* Any other function gets the caller's links from its own level on.
CallRegular(f) ==
    /\ ~IsMethod(f) /\ Visible(f)
    /\ Parent[f] # frames[me.frame].block
    /\ Execute(f, Skip(me.slink, level[me.code] - level[f]),
               Text(me.env[Links(f) + 1], Parent[f]), NoObject, FALSE)
    /\ UNCHANGED closure

\* newObject: a class written in the running block, in a class, elsewhere.
NewObject(c) ==
    /\ Visible(c)
    /\ LET own == getStack(Links(c))
       IN  /\ IsMethod(c) => Sound(own, c)
           /\ Execute(c, IF Parent[c] = frames[me.frame].block THEN <<me.frame>> \o me.slink
                         ELSE IF IsMethod(c) THEN Adjusted(own, c)
                         ELSE Skip(me.slink, level[me.code] - level[c]),
                      Text(me.env[Links(c) + 1], Parent[c]), NoObject, FALSE)
    /\ UNCHANGED closure

\* supercall: the superclass's code, with the same object as its frame.
Supercall ==
    /\ me.code \in Class /\ Super[me.code] # None
    /\ Gentle => level[me.code] = level[frames[me.frame].block]
    /\ Len(calls) < MaxCalls
    /\ LET s == Super[me.code]
       IN  calls' = Append(calls, [me EXCEPT
               !.code = s,
               !.slink = Skip(@, level[frames[me.frame].block] - level[s]),
               !.env = Text(me.frame, s)])
    /\ UNCHANGED <<frames, closure>>

-----------------------------------------------------------------------------
Count(s, d) == [i \in DOMAIN frames |->
                  IF i \in ToSet(s) THEN [frames[i] EXCEPT !.refs = @ + d] ELSE frames[i]]

\* A mutant: only the innermost frame is counted.
MakeClosure_CountsFirst(f) ==
    /\ closure = Nothing
    /\ ~IsMethod(f) /\ Visible(f)
    /\ closure' = [block |-> f, slink |-> Skip(<<me.frame>> \o me.slink, Links(f)),
                   env |-> Text(me.env[Links(f) + 1], Parent[f])]
    /\ frames' = Count(SubSeq(closure'.slink, 1, 1), 1)
    /\ UNCHANGED calls

\* make_closure copies the links from the function's level on, and counts
\* every frame in them.
MakeClosure(f) ==
    /\ closure = Nothing
    /\ ~IsMethod(f) /\ Visible(f)
    /\ closure' = [block |-> f, slink |-> Skip(<<me.frame>> \o me.slink, Links(f)),
                   env |-> Text(me.env[Links(f) + 1], Parent[f])]
    /\ frames' = Count(closure'.slink, 1)
    /\ UNCHANGED calls

\* Closure::~Closure.
DropClosure ==
    /\ closure # Nothing
    /\ Gentle => ~Running
    /\ frames' = Count(closure.slink, -1)
    /\ closure' = Nothing
    /\ UNCHANGED calls

CallClosure ==
    /\ closure # Nothing
    /\ Execute(closure.block, closure.slink, closure.env, NoObject, TRUE)
    /\ UNCHANGED closure

\* The frame of a function loses its call's reference; objects stay.
Return ==
    /\ Len(calls) > 1
    /\ calls' = Front(calls)
    /\ frames' = IF me.code \in Class THEN frames ELSE Count(<<me.frame>>, -1)
    /\ UNCHANGED closure

Next == \/ \E f \in Function : \/ CallOwn(f) \/ CallNested(f) \/ CallRegular(f)
                               \/ MakeClosure(f)
                               \/ \E o \in DOMAIN frames : CallMethod(o, f)
        \/ \E c \in Class : NewObject(c)
        \/ Supercall \/ DropClosure \/ CallClosure \/ Return

Spec == Init /\ [][Next]_vars

-----------------------------------------------------------------------------
\* "Make sure that the function gets what it is expecting": whatever way a
\* function was reached, a number of links computed from the text leads to
\* the frame the text means, of the activation it means.
LinksReach == \A n \in DOMAIN calls : <<calls[n].frame>> \o calls[n].slink = calls[n].env

\* No frame the running functions or the closure can name has been deleted.
FramesKept == \A i \in ToSet(closure.slink) \cup InReach : frames[i].refs > 0

\* Frames, their counts and the chains through them.
FramesInv == TypeOK /\ FramesKept
=============================================================================
