-------------------------------- MODULE Heap --------------------------------
(***************************************************************************)
(* The counted references of value.cc, as several threads use them.        *)
(*                                                                         *)
(* A value refers to a vector or an object, a cell; the integer of a cell  *)
(* counts the values that refer to it.  The two operations on the count    *)
(* are atomic, an assignment is not: it counts the new cell, gives up the  *)
(* old one, which may delete it and what it holds and run a finalizer, and *)
(* writes the pointer last.  What a thread has still to do is `todo'.      *)
(* A program takes a lock around what it does to the variables and vectors *)
(* it shares; a thread's own variable, and the last reference to a cell,   *)
(* need none.                                                              *)
(***************************************************************************)
EXTENDS Integers, FiniteSets, SequencesExt

CONSTANTS Thread, Shared,   \* the threads, each with a variable; the others
          Cells,            \* how many vectors and objects may live at once
          MaxLen,           \* the longest vector
          Statements,       \* how many statements each thread executes
          NoThread

VARIABLES kind, ref, elems, \* of each cell: what it is, its count, its values
          ran, lost,        \* how often it was finalized; its constructor raised
          var,              \* the variables
          todo, loop,       \* of each thread, its steps and its foreach
          lock, left        \* the program's lock; statements still to come

state == <<kind, ran, lost>>
places == <<elems, var>>
heap == <<state, ref, elems>>
rest == <<loop, lock, left>>
vars == <<heap, var, todo, rest>>

Cell == 1..Cells
Null == 0
Var == Shared \cup Thread
Bias == 100

\* An object has two fields, and one of the initial states has two cells.
ASSUME BoundsAssumption == /\ Cells \in Nat /\ MaxLen \in Nat /\ Statements \in Nat
                           /\ Cells >= 2 /\ MaxLen >= 2
ASSUME VariablesAssumption == NoThread \notin Var /\ Shared \cap Thread = {}

NoLoop == [vec |-> Null, at |-> 0, last |-> 0, body |-> FALSE]

Live == {c \in Cell : kind[c] # "free"}
Variable(x) == [in |-> Null, at |-> x]
Element(c, i) == [in |-> c, at |-> i]

\* What a place holds; a vector that has become shorter leaves a destructed
\* value, none, beyond its end.
read(loc) ==
    IF loc.in = Null THEN var[loc.at]
    ELSE IF loc.at \in DOMAIN elems[loc.in] THEN elems[loc.in][loc.at] ELSE Null

\* The threads start with nothing, or once one has executed x = [new C].
Init == /\ \/ /\ kind = [c \in Cell |-> "free"] /\ ref = [c \in Cell |-> 0]
              /\ elems = [c \in Cell |-> <<>>] /\ var = [x \in Var |-> Null]
           \/ \E y \in Shared :
              /\ kind = [c \in Cell |-> IF c = 1 THEN "vector"
                                        ELSE IF c = 2 THEN "object" ELSE "free"]
              /\ ref = [c \in Cell |-> IF c <= 2 THEN c ELSE 0]
              /\ elems = [c \in Cell |-> IF c = 1 THEN <<2>>
                                         ELSE IF c = 2 THEN <<2, Null>> ELSE <<>>]
              /\ var = [x \in Var |-> IF x = y THEN 1 ELSE Null]
        /\ ran = [c \in Cell |-> 0]
        /\ lost = [c \in Cell |-> FALSE]
        /\ todo = [t \in Thread |-> <<>>]
        /\ loop = [t \in Thread |-> NoLoop]
        /\ lock = NoThread
        /\ left = [t \in Thread |-> Statements]

-----------------------------------------------------------------------------
(* The steps of a thread.                                                  *)

Nowhere == [in |-> Null, at |-> NoThread]
Task(op, loc, c) == [op |-> op, loc |-> loc, from |-> Nowhere, c |-> c]
Assignment(to, from) == [op |-> "copy", loc |-> to, from |-> from, c |-> Null]
OfCell(op, c) == Task(op, Nowhere, c)
Then(t, tasks) == todo' = [todo EXCEPT ![t] = tasks \o Tail(@)]
Now(t) == Head(todo[t])
Doing(t, op) == todo[t] # <<>> /\ Now(t).op = op

\* Whether giving up a reference to c deletes it: an object always holds a
\* pointer to itself.
LastReference(c) == c # Null /\ ref[c] = IF kind[c] = "object" THEN 2 ELSE 1

Destroy_Unbiased(c) == OfCell(IF kind[c] = "object" THEN "inc" ELSE "elements", c)

\* What deleting c does: a finalizer, which is passed the object, then the
\* values in it one by one.
Destroy(c) == OfCell(IF kind[c] = "object" THEN "bias" ELSE "elements", c)

incRef(c) == ref' = IF c = Null THEN ref ELSE [ref EXCEPT ![c] = @ + 1]
decRef(c) == ref' = IF c = Null THEN ref ELSE [ref EXCEPT ![c] = @ - 1]
Deleting(c) == IF LastReference(c) THEN << Destroy(c) >> ELSE <<>>

\* destruct() of a value that nobody else sees.
Dec(t) == /\ Doing(t, "dec")
          /\ decRef(Now(t).c)
          /\ Then(t, Deleting(Now(t).c))
          /\ UNCHANGED <<state, places, rest>>

\* A plain decRef, without a look at the result.
Drop(t) == /\ Doing(t, "drop")
           /\ decRef(Now(t).c)
           /\ Then(t, <<>>)
           /\ UNCHANGED <<state, places, rest>>

\* Value::operator=: the new reference is counted ...
Copy(t) ==
    /\ Doing(t, "copy")
    /\ LET c == read(Now(t).from)
       IN incRef(c) /\ Then(t, << Task("over", Now(t).loc, c) >>)
    /\ UNCHANGED <<state, places, rest>>

\* ... or that to a new object ...
Take(t) == /\ Doing(t, "take")
           /\ incRef(Now(t).c)
           /\ Then(t, << Task("over", Now(t).loc, Now(t).c) >>)
           /\ UNCHANGED <<state, places, rest>>

\* ... then the old one given up, while the place still holds it ...
Over(t) ==
    /\ Doing(t, "over")
    /\ LET old == read(Now(t).loc)
       IN /\ decRef(old)
          /\ Then(t, Deleting(old) \o << Task("store", Now(t).loc, Now(t).c) >>)
    /\ UNCHANGED <<state, places, rest>>

\* ... and the pointer is written.
Store(t) ==
    /\ Doing(t, "store")
    /\ LET loc == Now(t).loc
       IN IF loc.in = Null
          THEN var' = [var EXCEPT ![loc.at] = Now(t).c] /\ elems' = elems
          ELSE elems' = [elems EXCEPT ![loc.in][loc.at] = Now(t).c] /\ var' = var
    /\ Then(t, <<>>)
    /\ UNCHANGED <<state, ref, rest>>

\* A step of the deletion of an object, and the one that follows.
Phase(t, op, next) == /\ Doing(t, op)
                      /\ Then(t, << OfCell(next, Now(t).c) >>)
                      /\ UNCHANGED <<kind, lost, var, rest>>

\* A high count keeps a finalizer's own use of the object from deleting it.
SetBias(t) == /\ Phase(t, "bias", "inc")
              /\ ref' = [ref EXCEPT ![Now(t).c] = Bias]
              /\ UNCHANGED <<ran, elems>>

\* The finalizer is passed the object, uses it and keeps it nowhere, ...
Inc(t) == /\ Phase(t, "inc", "finalize")
          /\ incRef(Now(t).c)
          /\ UNCHANGED <<ran, elems>>

Finalize(t) == /\ Phase(t, "finalize", "release")
               /\ ran' = [ran EXCEPT ![Now(t).c] = IF @ = 2 THEN 2 ELSE @ + 1]
               /\ UNCHANGED <<ref, elems>>

\* ... and gives it up when it returns.
Release(t) == /\ Doing(t, "release")
              /\ decRef(Now(t).c)
              /\ Then(t, Deleting(Now(t).c) \o << OfCell("forget", Now(t).c) >>)
              /\ UNCHANGED <<state, places, rest>>

\* The pointer of an object to itself is not given up.
Forget(t) == /\ Phase(t, "forget", "elements")
             /\ elems' = [elems EXCEPT ![Now(t).c][1] = Null]
             /\ UNCHANGED <<ran, ref>>

\* The values in a cell that is deleted are destructed, the first one first.
Elements(t) ==
    /\ Doing(t, "elements")
    /\ LET c == Now(t).c
       IN \E i \in DOMAIN elems[c] :
          /\ elems[c][i] # Null /\ \A j \in 1..(i - 1) : elems[c][j] = Null
          /\ elems' = [elems EXCEPT ![c][i] = Null]
          /\ decRef(elems[c][i])
          /\ Then(t, Deleting(elems[c][i]) \o << Now(t) >>)
    /\ UNCHANGED <<state, var, rest>>

Free_AtOnce(t) ==
    /\ Doing(t, "elements")
    /\ LET c == Now(t).c
       IN /\ kind' = [kind EXCEPT ![c] = "free"]
          /\ ref' = [ref EXCEPT ![c] = 0]
          /\ elems' = [elems EXCEPT ![c] = <<>>]
          /\ ran' = [ran EXCEPT ![c] = 0]
          /\ lost' = [lost EXCEPT ![c] = FALSE]
    /\ Then(t, <<>>)
    /\ UNCHANGED <<var, rest>>

\* Then it is freed.
Free(t) ==
    /\ Doing(t, "elements")
    /\ LET c == Now(t).c
       IN /\ \A i \in DOMAIN elems[c] : elems[c][i] = Null
          /\ kind' = [kind EXCEPT ![c] = "free"]
          /\ ref' = [ref EXCEPT ![c] = 0]
          /\ elems' = [elems EXCEPT ![c] = <<>>]
          /\ ran' = [ran EXCEPT ![c] = 0]
          /\ lost' = [lost EXCEPT ![c] = FALSE]
    /\ Then(t, <<>>)
    /\ UNCHANGED <<var, rest>>

\* The last value of a vector, after erase has moved the others down.
Pop(t) == /\ Doing(t, "pop")
          /\ LET c == Now(t).c
             IN /\ decRef(Last(elems[c]))
                /\ elems' = [elems EXCEPT ![c] = Front(@)]
                /\ Then(t, Deleting(Last(elems[c])))
          /\ UNCHANGED <<state, var, rest>>

Unlock(t) == /\ Doing(t, "unlock")
             /\ lock' = NoThread
             /\ Then(t, <<>>)
             /\ UNCHANGED <<heap, var, loop, left>>

\* The constructor of a new object raises, and the object is left as it is;
\* or it stores `this', or not, and the object becomes the result.
Construct(t) ==
    /\ Doing(t, "construct")
    /\ LET c == Now(t).c
       IN \/ /\ Then(t, << OfCell("drop", c) >>)
             /\ lost' = [lost EXCEPT ![c] = TRUE]
          \/ /\ \E kept \in {<<>>} \cup {<< Task("take", Variable(x), c) >> :
                                         x \in IF lock = t THEN Shared ELSE {}} :
                   Then(t, kept \o << Task("take", Now(t).loc, c), OfCell("drop", c) >>)
             /\ lost' = lost
    /\ UNCHANGED <<kind, ran, ref, places, rest>>

Finish(t) == Drop(t) \/ Store(t) \/ Unlock(t)
Delete(t) == \/ SetBias(t) \/ Inc(t) \/ Finalize(t) \/ Release(t) \/ Forget(t)
             \/ Elements(t) \/ Free(t) \/ Pop(t)
Step(t) == Dec(t) \/ Copy(t) \/ Take(t) \/ Over(t) \/ Construct(t) \/ Delete(t) \/ Finish(t)

-----------------------------------------------------------------------------
(* Statements.  One that touches what is shared holds the lock.            *)

\* Between two statements; the body of a foreach is one statement here.
Ready(t) == todo[t] = <<>> /\ left[t] > 0 /\ (loop[t].vec # Null => loop[t].body)

Execute(t, shared, tasks) ==
    /\ left' = [left EXCEPT ![t] = @ - 1]
    /\ loop' = [loop EXCEPT ![t].body = FALSE]
    /\ IF shared
       THEN /\ lock = NoThread /\ lock' = t
            /\ todo' = [todo EXCEPT ![t] = Append(tasks, OfCell("unlock", Null))]
       ELSE lock' = lock /\ todo' = [todo EXCEPT ![t] = tasks]

\* x = y
Assign(t) == \E x, y \in Shared \cup {t} :
    /\ Ready(t) /\ x # y
    /\ Execute(t, TRUE, << Assignment(Variable(x), Variable(y)) >>)
    /\ UNCHANGED <<heap, var>>

\* x = 0, or delete x
dodelete(t) == \E x \in Shared \cup {t} :
    /\ Ready(t) /\ var[x] # Null
    /\ Execute(t, x \in Shared, << Task("over", Variable(x), Null) >>)
    /\ UNCHANGED <<heap, var>>

\* A new cell, whose count is n.
Fresh(c) == c \notin Live /\ \A d \in Cell \ Live : c <= d
Made(c, k, values) == /\ kind' = [kind EXCEPT ![c] = k]
                      /\ elems' = [elems EXCEPT ![c] = values]
                      /\ UNCHANGED <<ran, lost, var>>

\* x = [y, y]: the values go from the operand stack to the vector, whose first
\* reference is the result.
makeVector(t) == \E c \in Cell, n \in 0..MaxLen, y \in Shared \cup {t} :
    /\ Ready(t) /\ Fresh(c)
    /\ Made(c, "vector", [i \in 1..n |-> var[y]])
    /\ ref' = [d \in Cell |-> IF d = c THEN 1 ELSE IF d = var[y] THEN ref[d] + n ELSE ref[d]]
    /\ Execute(t, TRUE, << Task("over", Variable(t), c) >>)

\* x = new C, an object with one field.  The count includes the pointer to
\* itself and one that keeps it until the result is set.
newObject(t) == \E c \in Cell, x \in Shared \cup {t} :
    /\ Ready(t) /\ Fresh(c)
    /\ Made(c, "object", <<c, Null>>)
    /\ ref' = [ref EXCEPT ![c] = 2]
    /\ Execute(t, x \in Shared, << Task("construct", Variable(x), c) >>)

\* x[i] = y, or the field of x
setsub(t) == \E x, y \in Shared \cup {t}, i \in 1..MaxLen :
    /\ Ready(t) /\ var[x] # Null /\ i \in DOMAIN elems[var[x]]
    /\ kind[var[x]] = "object" => i # 1
    /\ Execute(t, TRUE, << Assignment(Element(var[x], i), Variable(y)) >>)
    /\ UNCHANGED <<heap, var>>

\* y = x[i]
getsub(t) == \E x \in Shared \cup {t}, i \in 1..MaxLen :
    /\ Ready(t) /\ var[x] # Null /\ i \in DOMAIN elems[var[x]]
    /\ Execute(t, TRUE, << Assignment(Variable(t), Element(var[x], i)) >>)
    /\ UNCHANGED <<heap, var>>

\* y -> x, which appends to the vector itself
streamCopy(t) == \E x, y \in Shared \cup {t} :
    /\ Ready(t) /\ var[x] # Null /\ kind[var[x]] = "vector"
    /\ Len(elems[var[x]]) < MaxLen
    /\ var[y] # Null => kind[var[y]] = "object"
    /\ incRef(var[y])
    /\ elems' = [elems EXCEPT ![var[x]] = Append(@, var[y])]
    /\ Execute(t, TRUE, <<>>)
    /\ UNCHANGED <<state, var>>

\* delete x[i]: the values above it are assigned down
delsub(t) == \E x \in Shared \cup {t}, i \in 1..MaxLen :
    /\ Ready(t) /\ var[x] # Null /\ kind[var[x]] = "vector"
    /\ LET c == var[x]  n == Len(elems[c])
       IN /\ i <= n
          /\ Execute(t, TRUE, Append([j \in 1..(n - i) |->
                                 Assignment(Element(c, i + j - 1), Element(c, i + j))],
                              OfCell("pop", c)))
    /\ UNCHANGED <<heap, var>>

Foreach_Borrows(t) == \E x \in Shared \cup {t} :
    /\ todo[t] = <<>> /\ left[t] > 0 /\ loop[t].vec = Null
    /\ lock = NoThread /\ var[x] # Null /\ kind[var[x]] = "vector"
    /\ ref' = ref
    /\ loop' = [loop EXCEPT ![t] = [vec |-> var[x], at |-> 1, body |-> FALSE,
                                    last |-> Len(elems[var[x]])]]
    /\ left' = [left EXCEPT ![t] = @ - 1]
    /\ UNCHANGED <<state, places, todo, lock>>

\* foreach y x: the loop keeps a value of its own, and the size of the vector
\* at its start.
Foreach(t) == \E x \in Shared \cup {t} :
    /\ todo[t] = <<>> /\ left[t] > 0 /\ loop[t].vec = Null
    /\ lock = NoThread /\ var[x] # Null /\ kind[var[x]] = "vector"
    /\ incRef(var[x])
    /\ loop' = [loop EXCEPT ![t] = [vec |-> var[x], at |-> 1, body |-> FALSE,
                                    last |-> Len(elems[var[x]])]]
    /\ left' = [left EXCEPT ![t] = @ - 1]
    /\ UNCHANGED <<state, places, todo, lock>>

NextElement_OnlyPresent(t) ==
    /\ todo[t] = <<>> /\ loop[t].vec # Null /\ ~loop[t].body
    /\ lock = NoThread
    /\ IF loop[t].at > loop[t].last
       THEN /\ loop' = [loop EXCEPT ![t] = NoLoop] /\ lock' = lock
            /\ todo' = [todo EXCEPT ![t] = << OfCell("dec", loop[t].vec) >>]
       ELSE /\ lock' = t
            /\ loop' = [loop EXCEPT ![t].body = TRUE, ![t].at =
                           IF @ <= Len(elems[loop[t].vec]) THEN @ + 1 ELSE @]
            /\ todo' = [todo EXCEPT ![t] =
                 << Assignment(Variable(t), Element(loop[t].vec, loop[t].at)),
                    OfCell("unlock", Null) >>]
    /\ UNCHANGED <<heap, var, left>>

\* The next value, into the control variable ...
NextElement(t) ==
    /\ todo[t] = <<>> /\ loop[t].vec # Null /\ ~loop[t].body
    /\ lock = NoThread
    /\ IF loop[t].at > loop[t].last
       THEN /\ loop' = [loop EXCEPT ![t] = NoLoop] /\ lock' = lock
            /\ todo' = [todo EXCEPT ![t] = << OfCell("dec", loop[t].vec) >>]
       ELSE /\ loop' = [loop EXCEPT ![t].at = @ + 1, ![t].body = TRUE] /\ lock' = t
            /\ todo' = [todo EXCEPT ![t] =
                 << Assignment(Variable(t), Element(loop[t].vec, loop[t].at)),
                    OfCell("unlock", Null) >>]
    /\ UNCHANGED <<heap, var, left>>

\* The body may also do nothing.
EmptyBody(t) == /\ todo[t] = <<>> /\ loop[t].body
                /\ loop' = [loop EXCEPT ![t].body = FALSE]
                /\ UNCHANGED <<heap, var, todo, lock, left>>

Statement(t) == Assign(t) \/ dodelete(t) \/ makeVector(t) \/ newObject(t) \/ setsub(t)
                \/ getsub(t) \/ streamCopy(t) \/ delsub(t) \/ Foreach(t)
Loop(t) == NextElement(t) \/ EmptyBody(t)

Next == \E t \in Thread : Step(t) \/ Statement(t) \/ Loop(t)

\* A thread goes on with what it has begun.
Fairness == \A t \in Thread : WF_vars(Step(t)) /\ WF_vars(Loop(t))

Spec == Init /\ [][Next]_vars /\ Fairness

-----------------------------------------------------------------------------
\* The steps of a deletion; the tasks that own a reference to their cell.
Deletes == {"bias", "inc", "finalize", "release", "forget", "elements"}
Owns == {"over", "store", "dec", "drop", "construct"}
Op == Deletes \cup Owns \cup {"copy", "take", "pop", "unlock"}

Location == [in : Cell \cup {Null}, at : Var \cup {NoThread} \cup Nat]
TaskType == [op : Op, loc : Location, from : Location, c : Cell \cup {Null}]

TypeOK ==
    /\ kind \in [Cell -> {"free", "vector", "object"}]
    /\ ref \in [Cell -> Int]
    /\ elems \in [Cell -> Seq(Cell \cup {Null})]
    /\ \A c \in Cell : Len(elems[c]) <= MaxLen
    /\ ran \in [Cell -> 0..2] /\ lost \in [Cell -> BOOLEAN]
    /\ var \in [Var -> Cell \cup {Null}]
    /\ todo \in [Thread -> Seq(TaskType)]
    /\ loop \in [Thread -> [vec : Cell \cup {Null}, at : Nat, last : Nat, body : BOOLEAN]]
    /\ lock \in Thread \cup {NoThread}
    /\ left \in [Thread -> 0..Statements]

\* Everything the threads have still to do; <<t, k>> is the k-th task of t
\* from the end, so that it keeps its name.
Work == UNION {{<<t, k>> : k \in DOMAIN todo[t]} : t \in Thread}
task(w) == todo[w[1]][Len(todo[w[1]]) + 1 - w[2]]

\* Cells that are being deleted.
Dying == {task(w).c : w \in {v \in Work : task(v).op \in Deletes}}

\* Places whose old value has been given up and not yet overwritten.
Stale == {task(w).loc : w \in {v \in Work : task(v).op = "store"}}

\* Where a reference can be: in a variable, a vector or an object; in a loop;
\* in the hands of a thread in the middle of an assignment.
Places == {Variable(x) : x \in Var} \cup {Element(c, i) : c \in Cell, i \in 1..MaxLen}
Slots == ({"place"} \X Places) \cup ({"loop"} \X Thread) \cup ({"task"} \X Work)
held(s) == CASE s[1] = "place" -> IF s[2] \in Stale THEN Null ELSE read(s[2])
             [] s[1] = "loop"  -> loop[s[2]].vec
             [] s[1] = "task"  -> IF task(s[2]).op \in Owns THEN task(s[2]).c ELSE Null
References(c) == {s \in Slots : held(s) = c}

(***************************************************************************)
(* The count of a cell is the number of values that refer to it, in        *)
(* variables, vectors, objects and loops, and in the hands of threads in   *)
(* the middle of an assignment; of an object that a constructor's exception*)
(* left behind too.                                                        *)
(***************************************************************************)
RefCountExact == \A c \in Live \ Dying : ref[c] = Cardinality(References(c))

(***************************************************************************)
(* No value refers to a vector or object that has been freed: not one in a *)
(* variable, in another cell, in a loop or in a thread's hands.            *)
(***************************************************************************)
NoDangling ==
    /\ \A s \in Slots : held(s) \in Live \cup {Null}
    /\ Dying \subseteq Live

(***************************************************************************)
(* A cell that nothing refers to is gone: whatever still lives is held by  *)
(* some value, other than an object's pointer to itself, or was lost by a  *)
(* constructor that raised.                                                *)
(***************************************************************************)
NothingLeaks == (\A t \in Thread : todo[t] = <<>>) =>
    \A c \in Live : \/ lost[c]
                    \/ \E p \in Places : read(p) = c /\ (p = Element(c, 1) => kind[c] = "vector")
                    \/ \E t \in Thread : loop[t].vec = c

(***************************************************************************)
(* The counts say who refers to what, at any moment, and so free everything*)
(* in the end.                                                             *)
(***************************************************************************)
CountInv == TypeOK /\ RefCountExact /\ NothingLeaks

(***************************************************************************)
(* The finalizer of an object has run exactly once when it is freed, and   *)
(* never before the last reference has gone, though it is passed the       *)
(* object and gives that reference up again.                               *)
(***************************************************************************)
FinalizedOnce == [][\A c \in Cell :
    /\ (kind[c] = "object" /\ kind'[c] = "free") => ran[c] = 1
    /\ ran[c] = 1 => ran'[c] # 2]_vars

(***************************************************************************)
(* A foreach over a vector ends, though its body, or another thread, may   *)
(* append to the vector or take values out of it as it goes.               *)
(***************************************************************************)
LoopsEnd == \A t \in Thread : (loop[t].vec # Null) ~> (loop[t].vec = Null)
=============================================================================
