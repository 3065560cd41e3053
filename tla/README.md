# Aikido in TLA+

Aikido is an interpreted language: a parser, a code generator for a register
machine, a virtual machine, a library, and threads and monitors as part of the
language. This directory models the parts of it whose correctness depends on
the order in which things happen (who may run, who is woken, who deletes what,
which code runs after a jump or an exception) and the algorithms everything else
rests on: what is read, what code is made of it, and what its operators compute. Paths below are relative to
the root of the repository.

TLC checks the models on small instances; TLAPS proves the theorems for every
value of the constants. `PROJECT.json` lists components, runs, mutants (small
plausible bugs of the code that each property must detect), the source lines
every definition stands for, findings, hazards and theorems.

## 1. The system

### Components, their state and their operations

| Component | Where | State | Operations | Hard because of |
|---|---|---|---|---|
| Monitors | `src/unix/monitor.cc`, `src/unix/os.h` | `owner`, `n`, a pthread mutex, the condition variables `queue` and `event` | `acquire`, `release`, `wait`, `timewait`, `notify`, `notifyAll` | lost and spurious wakeups, time limits, nested entries given up and given back |
| Job queue of the tests | `tests/test.aikido` 1443-1530 | the vector `v` in a monitor | `put`, `get` | a consumer woken after another took the job |
| Threads | `interpret.cc` `callThread`, `execThread`; `parser.cc` `insertThread`, `findThread`, `deleteThread`; `native.cc` `threadJoin`; `os.h` `OSThread` | the map `threads`, `numThreads`, `threadLock`, `OSThread` objects, pthread ids | start, end, join, list | the child runs before its creator has listed it; ids are used again; objects deleted under a join |
| Thread streams | `aikido.h` 820-940, `unix/connect.cc`, `value.cc` 1444-1475 | two streams joined by pipes, connected when first used, two locks | use, connect, transfer, close | both ends connect at once, each with its lock and then the other's |
| Parser lock | `parser.cc` 900-1060, 1340-1425, 2740-2800; `native.cc` 1290-1360 | a monitor; `currentContext`, the context stack | `execute`, `loadFile`, `executePreload`, `eval`, `getExpression`, `delegate` | error paths that keep or give back too much; user code under the lock |
| Object monitors | `parser.cc` 9339-9368; `interpret.cc` `monitorEnter`, `monitorExit` | the map from objects to monitors, a free list | find, free, enter, exit | an owned monitor that is freed and used again |
| Function calls | `interpret.cc` 3400-3830, 4486-4770; `value.cc` 1578-1660 | stack frames, static links, closures | call, construct, return, make a closure | a chain must reach the frames the text names, and outlive them |
| Coroutines | `interpret.cc` 3640-3720, 8620-8778 | saved parts of the machine's stacks | `yield`, resume | stacks saved and restored, a monitor given up and taken again |
| Values, reference counts | `value.cc`, `aikido.h` | a count per string, vector, map, object, closure, frame | copy, assign, destroy, finalize | counts shared between threads, finalizers that run code |
| Values, operators, conversions | `value.cc`, `interpret.cc` | none | arithmetic, order, set and map operators, casts | mixed types, an order that is not total |
| Lexer and parser | `parser.cc` | input contexts, scopes, trees | tokens to trees | precedence, line ends, brackets of three kinds |
| Code generator, expressions | `codegen.cc` | registers with counts, labels | one function per operator | a register kept over jumps |
| Code generator, statements | `codegen.cc` 1671-2280 | `scopeLevel`, `trylevel`, `foreachlevel`, `monitorlevel`, the stacks of break and continue targets | one `build` function per statement | a jump must undo exactly what is between it and its target |
| Virtual machine, control | `interpret.cc` `execute`, `dotry`, `foreach`, `next` | `pc`, `scopeSP`, `forStack`, the C++ stack of `dotry` calls, the monitors held | one case per opcode, the handlers of `dotry` | C++ exceptions of three kinds through nested instruction loops, finally code |
| Serialization | `native.cc` 3290-4460, `xml.cc` | the object being read, the values of the file by number | `serialize`, `deserialize` as binary, XML, JSON and Aikido text | cycles, shared and inherited parts, text that needs quoting |
| Object files | `parser.cc` 9385-10365, `codegen.cc` 3299-3585 | a string pool, the pass, the scopes read so far | dump, load in two passes | no lengths in the file; references to what is read later |
| Signals | `interpret.cc` 2268-2305, 2447 | one pending number, `insignalhandler` | arrive, look, handle | the number is overwritten |
| Debugger | `debug.cc` | breakpoints, the state of every thread | stop, step, continue | all threads stop and start together |
| Natives, streams, network, XML, ZIP, terminal, command line | `native.cc`, `unix/osnative.cc`, `network.cc`, `xml.cc`, `zip.cc`, `terminal.cc`, `unix/main.cc` | mostly that of the C library | | input and output |
| Library in Aikido | `list.aikido`, `queue.aikido`, `stack.aikido`, `hashtable.aikido` | containers | insert, remove, iterate | iterators and removal |
| Vendored and ported | `pcre/`, `gtk/`, `win32/`, `extras/`, `examples/` | | | not part of the core |

### How they interact

* The parser builds trees, the code generator turns a function's body into one
  sequence of instructions, and the machine executes it. `Grammar` and
  `Expressions` meet in `MCExpressions`, `Codegen` and `Interpreter` in `Execution`.
  `ObjectCode` writes that sequence, with its scopes, to a file and reads it.
* A method of a `monitor` class is called with the monitor acquired
  (`callFunction`), and `wait`, `timewait`, `notify` and `notifyAll` are native
  methods of the same object, so they enter it once more. `JobQueue` composes
  such methods with `Monitor`; a yield in one gives the monitor up (`Coroutines`).
* A call of a `thread` function makes a child with its own machine (`callThread`),
  whose id is the key of the thread list that `join` looks in (`Threads`), and a
  stream between the two (`ThreadStreams`).
* A `synchronized` block uses the same monitors through `findMonitor`
  (`ObjectMonitors`), under the parser lock. `MCLocks` composes them with the paths
  of `ParserLock` that run code with the lock taken.

### What makes each part correct

* Monitors: one owner, no lost wakeup, a wait gives back the entries it gave up,
  only the owner lets go.
* Job queue: bodies exclude each other, every job goes to one consumer, in order.
* Threads: a join never returns before the program of its child is over; no
  object is deleted twice; the list finds every thread that works.
* Thread streams: two ends, one connection; what is written before the end of the
  writer is read; nobody waits for ever for a lock or for bytes that cannot come.
* Parser lock: every path gives back what it took; the parser reads the input of
  the thread that holds it; a join never waits with the lock taken.
* Object monitors: one monitor per live object, none of them on the free list;
  blocks exclude each other; a thread waits in a circle only where a user's
  program makes it.
* Statements: a compiled program leaves the marks its statements mean, in their
  order, whatever mixture of loops, scopes, handlers and jumps it is made of;
  finally code runs before the statement is left; the machine's stacks are as
  deep as the code generator thinks; no monitor outlives its block.
* Calls: the chain of a body has the frame of every function its text is nested in.
* Coroutines: a resumed function finds the stacks it left.
* Reference counts: nothing is used after it is freed, nothing is freed twice or
  never, finalizers run once.
* Values: `==`, `<` and `>` are one order, so that a map finds its keys; operators obey
  the laws their names promise; casts there and back return what they were given.
* Expressions: what is written is what is read, and its code computes what it means.
* Object files: what is loaded is what was dumped.

## 2. The modules

| Module | Role |
|---|---|
| `MonitorSpec` | what a monitor promises: owner, entries and status of each thread |
| `Monitor` | `monitor.cc` down to mutex and condition variables; `Abstract` refines `MonitorSpec` |
| `JobQueue` | extends `Monitor` by the programs of producers and consumers |
| `Monitor_proofs` | the monitor's invariants and the refinement; who owns it at each place of a method of the queue, and what becomes of a job |
| `Threads`, `Threads_proofs` | life of threads, thread list, join; its invariants |
| `ThreadStreams`, `ThreadStreams_proofs` | the stream between a creator and its child; one connection |
| `ParserLock` | who has the parser, and what it reads |
| `ObjectMonitors` | the monitors of objects; `MCLocks` composes it with `ParserLock` |
| `Locks_proofs` | the invariants of the parser lock, and of the composition |
| `Codegen` | statements to instructions |
| `Interpreter`, `Interpreter_proofs` | instructions to steps; types and phases, for any code |
| `Execution` | programs compiled by `Codegen`, run by `Interpreter`, against a structural meaning of statements |
| `Calls`, `Calls_proofs` | frames, static links and closures; the links are right for every text |
| `Coroutines`, `Coroutines_proofs` | yield and resume on the machine's stacks; what is resumed |
| `Heap`, `Heap_proofs` | counted cells, destruction, finalizers and loops, of several threads; the counts are exact |
| `Values`, `Operators`, `Conversions` | what values are, how they are compared, combined and converted |
| `FixedTypes` | static types, the opcodes with a suffix, what a variable lets in |
| `Grammar` | the expression parser |
| `Expressions` | expressions to instructions, registers, and what the instructions do |
| `ObjectCode` | object files |
| `Serialization` | values and objects as text or bytes, and back |
| `Cloning` | copies of values and objects |
| `Library`, `Subscripts` | the natives on containers, text, memory, formats, dates and templates; subscripts, ranges and new vectors |
| `MCMonitor`, `MCJobQueue`, `MCThreads`, `MCExecution`, `MCCalls`, `MCHeap`, `MCLocks`, `MCValues`, `MCExpressions`, `MCObjectCode`, `MCSerialization`, `MCLibrary` | instances for TLC, with what the models are compared to |

### Monitor

A call is split at the points where other threads can act: the call itself,
`mutex.lock()`, the body (one step, because the mutex is held), the sleep on a
condition variable, taking back the mutex, and the test of the `while` loop.
`mutex`, `owner`, `n` are the fields; `prev[t]` and `v[t]` the locals of `wait` and
`timewait`; `pc[t]` and `op[t]` where t is. `Release`, `WaitBlock`, `Notify` and so
on are the bodies, `NotOwner` the path that throws. `timedwait(e)` is
`OSCondvar::timedwait`, which returns `v != ETIMEDOUT`. `WaitRefused` is the wait
the system refuses because the number of microseconds is negative.

The environment is POSIX: a signal wakes at most one sleeper and is lost when
there is none; sleepers may wake for no reason; the woken compete for the mutex.

`MonitorSpec` has no mutex and no condition variable: a thread that wants to
enter does so when the monitor is free; a waiter is roused, unasked too, and
returns when it has its entries back. The mapping is `entries[t]` = `n` for the
owner and `prev[t]` for a waiter, and `status` from `pc` and `op`.

### JobQueue

`put` and `get` of the test, step by step: the entry of the method, the test of
the vector, the entry and the exit of the native methods. `at[t]` is the place in
the body; each step is a `Call` of `Monitor` or a change of the vector. The time
limit is a switch, `Timed`; the clock may pass a deadline at any time.

### Threads and ThreadStreams

One action per statement that touches shared state. The undefined behaviour of
the code, a use of an object or a map node that was deleted, is a choice between
going on as if nothing had happened and a broken process. Thread priorities and
the process's exit while children run are left out.

`ThreadStreams` has the two ends of one stream. `checkstreams` of either side takes its
own lock and `connect`, through the other thread's variables, the other's; pipes
can be refused; buffers are transferred; either side ends while the other goes on.
Data are counted, not told apart. The child may end at any place of the creator's
`connect`, which does not look: what it does next with the child's stream (`PeerGone`,
`ConnectedGone`) or variables (`AssignGone`) is a use of freed memory, and ends the
behaviour with `undefined = "late"`. `ConnectionOutlives` says that this is all there is:
only inside that one connect, with nothing transferred yet, and never once it has returned.

### ParserLock, ObjectMonitors

`ParserLock` has a stack of activities per thread (execute, load, preload, eval,
getExpression, delegate, in any nesting to `MaxDepth`), each split where the code
takes or gives back the lock, and the parser's context with the stack under it.
What is parsed is a choice: it parses, it has an error, it loads something else;
what runs may raise an exception. `ObjectMonitors` has monitorEnter, monitorExit
with the parser lock it takes around the release and gives back, addresses that are used
again and the free list. `MCLocks` lets two threads do both.

### Codegen, Interpreter, Execution

A statement is a tree; everything that is not control flow is a `Say`, which leaves
a mark. Conditions, and whether a foreach finds another element, turn out either
way (`answers`), at most `MaxTrue` times true. `Codegen` has one operator per
`build` function, and keeps the generator's levels in a record; makeScopeLevel
packs four of them as the code does, without its width. `Interpreter` has one
action per opcode. `execute` and `dotry` call each other on the C++ stack, so the
model has a stack of `frames`, one per activation of `dotry`, whose phase says for
what the running `execute` was called (try block, finally code, catch code, and
three kinds of later finally code). A C++ exception in flight is a variable
(`flight`): an Aikido exception, the int that POPSCOPE throws to leave handlers, or
anything else (`catch (...)`). The catch clauses of `dotry` are actions. Where the
code uses the top of an empty stack (`NEXT` or POPSCOPE in code that was entered
twice) the run ends as "failed".

`Execution` picks a program, compiles and runs it. `Meaning` is a definition of
what statements mean, by structure, that knows nothing of instructions: marks in
order, and how the program ends. `Faithful` compares the two. `Tame` and `ThrowsFit`
say for which programs. With finally code, the catch code has to end normally or by
an exception, the finally code normally, and a try without catch must not throw; a
throw in synchronized blocks must find as many of them inside its try as the
generator's formula gives. Outside these limits the code does not do what its
documentation says (section 5). The limits are in the properties: all programs run.

### Calls, Coroutines, Heap

`Calls` has a small program text (functions nested in functions and classes, a
derived class, methods, a closure) given by constants, frames with their static
links and counts, and one action per way to call. Its reference is the text: the
functions a body is nested in, innermost first. `Gentle` leaves out the
four uses for which the code is known to compute another chain (a method inherited from a class
of another level that is called for an object that is not the caller's, the superclass of a
superclass at another level, objects that outlive the function their class is nested in, and a
closure's variable that is given another value while the closure runs). The text nests, and a
superclass is written in a block around its subclass; both are assumptions that TLC evaluates.

`Coroutines` has the machine's loop and scope stacks as sequences, and a stack of
activations, each with the `dotry` calls (`tries`) it is inside: what an instance of
`callFunction` has on the C++ stack. `Yield` moves the activation's part of the two
stacks into the closure, `Resume` pushes it on whatever is there, `Unwind` takes an
exception to the innermost `dotry` that is left and cuts both stacks back to the sizes it
remembers. The reference is `inside`: the constructs the text of each function has around
the running statement. `Gentle` leaves out yields inside a try or in a second loop, which the
code does not bring back.

`Heap` has the vectors and objects as cells (`kind`, `ref`, `elems`), and a stack of tasks
per thread (`todo`): the parts of the statement it executes. An assignment is
`Copy` (the new value is counted), `Over` (the old one is given up, and deleted with its
last reference) and `Store` (the pointer is written), since another thread may run between
any two. A deletion is a task in phases: a high count (`SetBias`), the finalizer that is passed
the object and gives it up (`Inc`, `Finalize`, `Release`), the object's pointer to itself
(`Forget`), the values one by one (`Elements`), each of which may put another
deletion on top, and `Free`. The lock of the counter is one step. A program takes a lock of
its own around what it does to shared variables, so the tasks of a statement end with
`Unlock`; what a thread does to its own variable, and the deletion of a cell nobody refers to
any more, need none. The body of a finalizer does nothing here but use and give up its object.
A finalizer that stores `this` somewhere is left out: the code deletes the object all the same
(`value.cc:977-982`), so that reference is one to freed memory, and `NoDangling` is about
programs whose finalizers do not.
The reference is the number of places, loops and tasks that refer to a cell (`References`).

### Values, Operators, Conversions, FixedTypes

Integers have `Width` bits and a unit of 2 for the fractions of reals. A value has a
type and data; comparisons follow `cmpeq`, `cmplt`, `cmpgt` case by case, with the
conversions they make on the way. Collections are sequences, maps sequences of pairs
in the order the code keeps. Overloaded operators of objects and enumerations with
gaps are constants.

`FixedTypes` has the types the parser gives to nodes, the opcode the generator takes for
them, and the instructions with a suffix, which take a field of the value's union without
a look at the type. `TypesHold`, a part of `OperatorLaws`, says that they never take a
field that is not there, and give what the general instruction gives.

### Grammar, Expressions

`Grammar` follows the levels of the expression parser over tokens, `nl` among them.
`MCExpressions` writes trees down with no more parentheses than needed and compares.
`Expressions` issues code as `codegen.cc` does, with labels and registers that are
counted, allocates registers, and executes the instructions; `Mean` is a meaning of
trees that knows nothing of registers.

### ObjectCode

What dumpObjectCode writes is a sequence of bytes. A format lists the fields of each
kind of block, instruction and operand, once as dumped and once as loaded: the
two are translated from two functions of the code. The reader is given the bytes and
nothing else, and goes twice over them as the loader does. A word that is not what
the reader expects, a length that cannot be, a reference that leads nowhere is an
error.

### Serialization

A value is a graph: objects and vectors are cells of a heap, so that what is shared or
circular can be told. Each of the four writers makes a sequence of tokens (characters where
quoting and escapes are decided), each reader takes them from a cursor and builds a heap of
its own; `xml.cc`'s parser is between the two for XML. `MCSerialization` compares what comes
back with what was written, up to the names of cells. `Kept` says for which values the code
promises that, per format; all others are written and read too, and section 5 says what
becomes of them.

`Cloning` works on the same graphs; `CloneRight` compares a deep and a shallow clone with
the original.

### Library, Subscripts

One operator per native, over the values of `Values`; what changes its parameter in place
gives the changed container. A function of the program is an operator; a format, a date and
a template are sequences of tokens where their letters do not matter. `sort` gives every
vector that `std::sort` may leave. `Hangs`, `Aborts` and `Undefined` are answers: a native
that never returns, an exception of C++ nobody catches, memory that is not the program's.
Nearly none of these has a test of its own in the repository. `MCLibrary` states what they
promise of each other, law by law: pieces and separators are the text, searching forwards is
searching backwards in the mirror, equal numbers hash alike, bytes written are read, digits
are read back as the number, a date is understood in all its forms, a template is its parts,
what is stored at a place is found there and nowhere else, a range is its places.

## 3. The runs

| Run | Instance | Shows |
|---|---|---|
| `monitor` | 3 threads, entries nested 2 deep, calls by non-owners, negative time limits | `IInv`: the mutex is held exactly in bodies, the owner is never asleep, waiters remember their entries, no lost wakeup; `ImplementsMonitorSpec`: every step is one of `MonitorSpec`; `FreeMonitorTaken`: a free monitor with queued threads is taken |
| `jobs` | 2 producers, 2 consumers, one with a time limit, 1 spurious wakeup | `JobInv`: who is in a body owns the monitor, with the entries of its place; `JobsGiven`: jobs are conserved and in order, and nobody returns with nothing but at its deadline; `EverybodyServed` |
| `threads` | 2 creators, 3 children, 2 ids | `IInv`: types, a list without deleted objects; `FindsItself`: every working child is found; `JoinMeansFinished`; `JoinReturns` |
| `threads_join` | 1 creator, 1 child | `JoinSafe` is violated: finding 1 |
| `execution` | 23591 programs, 3 conditions true | `StacksRight`: stacks as deep as the generator thinks, monitors released; `Faithful`; `FinallyInTime` and `FinallyAlways`: finally code runs before its statement is left, and when it is; `PhasesAdvance` |
| `parser_lock` | 2 threads, 3 activities in all, 2 deep | `LockInv`: operations nest, and a thread has exactly the entries they took, but for the named paths; `ParserInv`: who parses has the lock and reads its own input, contexts exist and none is led back to twice; `JoinsWithoutLock` |
| `object_monitors` | 2 threads, 2 variables, 2 addresses that are used again, 2 monitors, 2 blocks | `MonitorsInv`: one monitor each, free ones unowned, entries counted by the blocks a thread is in; `BlocksExclude`; `NoOtherDeadlock`: circles come only from nested blocks, a join inside a block, code that eval or a preload runs with the lock, or a lock that was kept |
| `language` | integers of 10 bits; all trees of two levels; one program per kind of block, value and operand, one with a library without a directory; every value of three levels written in each of the four formats; 17615 inputs of the natives | `ComparisonsAgree`: one order, which maps find their keys by; `OperatorLaws`, `CastsReturn`; `ReadsRight`: trees are read back; `CodeMeans`: code computes what its tree means; `LoadsBack`: object files, serialized values; `NativesKeep`: the natives, subscripts and clone |
| `heap` | 2 threads, 3 cells, vectors of 2 elements, 2 statements each | `CountInv`: counts are exact and nothing leaks; `NoDangling`; `FinalizedOnce`; `LoopsEnd` |
| `coroutines` | 3 functions that yield, one a synchronized method | `MonitorInv`: the monitor is entered once for each method that runs; `ResumesJustAfter`: every activation has on the stacks exactly what its text is in |
| `calls` | 5 functions, 3 classes, 6 frames, 5 calls | `FramesInv`: counts of frames, none freed on a chain; `LinksReach` |
| `thread_streams` | a creator and a child, refused pipes | `ConnectionInv`: two ends, one connection, no byte lost; `ConnectionOutlives`: freed memory is used only inside a connect that the child's end came before or into; `LocksSettle`; `ReadsReturn` |

### Why the bounds are enough

* Three threads are the least for a wakeup that goes to the wrong one: an owner,
  a waiter and a newcomer. Two nested entries tell n from "owned".
* Two consumers and two producers let a job be taken between a notify and the
  return from the wait; two jobs of one producer show the order.
* Three children and two ids force an id to be used again while an older entry
  or an older join is still there.
* Programs of `execution` have three levels of try, foreach and synchronized
  around every jump, or a loop of each kind around a loop or a switch around a
  guarded jump with a try in each gap: a jump crosses two handlers, two loops and
  two monitors. Three true conditions allow three rounds, or one round of each
  loop and a second of one.
* Two threads and nested activities are the least for a lock given back by one
  path too often to be taken by another; two addresses that a program keeps
  giving new objects for an address, and a monitor, to be used again while a block is in it.
* Three cells make a chain whose destruction goes two deep, with a finalizer in the
  middle, and a cell shared by both threads.
* Three coroutines resume each other in a circle; two would only alternate.
* Ten bits hold every boundary of 64 (smallest, largest, shifts at the width); an
  expression of three operators has a register live over another's two.
* In a compiled program every format is read after every other, so that a word too
  many or too few shifts something.

### Fairness

* `Monitor`: weak fairness of each thread's own steps (`Step`), that is of the
  operating system's scheduler. Nothing is assumed of the callers, of spurious
  wakeups, or of time limits; mutexes need no strong fairness for the properties.
  `FreeMonitorTaken` leaves out behaviours in which callers misuse the monitor for ever.
* `JobQueue`: weak fairness of a thread's program, and of the clock (`Deadline`).
  Spurious wakeups are bounded: otherwise a thread may be woken for ever.
* `Threads`: weak fairness of children (every program ends) and of creators inside
  a call. A child that never ends makes its join wait, which is what join means.
* `ThreadStreams`: weak fairness of what a thread does inside a call (`CheckStreams`,
  `Transfer`) and of its end (`Delete`): programs end. `Heap`: of each thread's steps
  and of the rounds of its loops.
* Runs with `CHECK_DEADLOCK FALSE` are those where the model may end: all jobs
  done, all children joined, all programs over.

## 4. The proofs

All are proved by tlapm with SMT (Z3), Zenon and LS4.

* `Monitor_proofs`, from `NoneAssumption` (None is no thread) and
  `MaxEntryAssumption`, for any set of threads. The inductive invariant `IInv` is
  type correctness, `MutexHeld`, `OwnerRuns`, `WaiterRemembers`, `NobodyStranded`
  and `CallsConsistent`. The last is the strengthening: it ties pc to op, without
  which a sleeper on the queue might be in a call that never sleeps, and it keeps
  n below its bound. From it: `TypeCorrect`, `MutexDiscipline`, `NoLostWakeup`,
  `OwnershipIsKept`, and `Refinement`, `Spec => Abstract!Spec`, with one step per
  action that maps it to a step of `MonitorSpec` or a stutter.
* `Threads_proofs`, for any sets of creators, children and ids. `IInv` (types,
  `Started`, `Known`, `Joining`, `ListedAlive`) is inductive whatever is joined, and
  gives `TypeCorrect` and `NoDoubleDelete`. As long as no child has been joined twice
  (the history variable `repeated`), `OnceInv` adds that ids in use differ, that joins
  hold their own child and that an entry outlives its child's program, and gives
  `ListLeadsToChild` and `JoinWaits`.
* `Monitor_proofs`, the queue, from `ThreadAssumption`, `BoundAssumption` and `EntryAssumption`
  (a counter that can count two entries). `JobIInv` is `IInv` of the monitor, `QueueInv`
  (types, each producer's jobs in order, jobs conserved) and `Placed(t)`, the
  strengthening: a table of the entries a thread has at every place of its method, and of
  what a wait remembers. Without the last a thread could come back from `wait` with one entry of
  two. `MonitorMoves` shows that every step is one of `Monitor` or leaves it alone, so
  that `JobsUseTheMonitor` and what is proved of the monitor is used, not repeated. Result: `MethodsOwn`,
  `NothingMislaid`.
* `Locks_proofs`, for the parser lock, from `MainAssumption`, `NoneAssumption`, `BoundAssumption` and
  `UsedAssumption`, for any threads, depths and totals. `LockInv` and `ParserInv` are
  inductive together, after they were completed: that operations nest (`OperationsNest`),
  that main joins from code, that the entries held are bounded on each side by its own cause
  (`kept`, `overreleased`), and that no two contexts lead back to the same one, without which
  closing one would leave the other dangling. A step puts one operation on a thread's stack,
  takes one off or changes the top one (`Grows`, `Shrinks`, `Changes`); the lemmas about
  counts and chains are about those three. Result: `LockSafety`, `ParserSafety`, `JoinSafety`.
* `Locks_proofs`, for the composition of the monitors of objects with the parser lock, in addition from
  `VarAssumption`, `BlocksAssumption` and `MonAssumption` (findMonitor makes a monitor when
  the free list is empty, so there are never fewer monitors than objects). The invariant is
  that of `ParserLock` and `MonitorsIInv`: `AsksOwn`, `BlocksHold` (a thread has entered a
  monitor as often as it is in blocks of its object) and `EntriesCounted`. `BlocksExclude` and
  `NoOtherDeadlock` follow. Result: `MonitorsSafety`, `BlocksSafety`, `DeadlockSafety`, and
  `BlocksLockSafety`: `LockInv` and `ParserInv` of the composition, where a block takes the
  parser lock on its way out and keeps it when its release throws.
* `ThreadStreams_proofs`, from `ThreadStreamsAssumption`. The strengthening of
  `ConnectionInv` says who has which lock at each place (`LocksHeld`), how far a connection
  has come (`Progress`) and where the bytes are (`Accounts`). Result: `ConnectionSafety`,
  `OutlivesSafety`. In the second, a late use needs the creator at a place of its connect
  where it is not connected yet (`Progress`), before which nothing was written (`Accounts`).
* `Coroutines_proofs`, from `FunctionAssumption` and `DepthAssumption`, for any functions
  and any depth of nesting. Both theorems have the hypothesis `Gentle` (no yield inside a try or a
  second loop): without it the code does not do what they say (section 5), so it cannot be
  dropped. `StackInv` says that the activations' parts of the stacks lie one
  above the other (`Bases`), that nobody is active twice (`OneEach`), that a suspended
  function has its part in its closure (`ClosuresRight`), and of every activation that its
  loops, scopes and handlers are those of its text (`Right`). The strengthening is
  `HandlersFit`: the sizes a handler remembers divide the marks on the stacks into those
  begun before its try and those begun in it; without it nothing is known after an exception.
  The statements of one body are proved for the activation that runs (`Parts`, a predicate
  on sequences), `Kept` carries the others over. Result: `ResumesSafety`, `MonitorSafety`.
* `Calls_proofs`, for any text of a program, from `BlocksAssumption`, `BoundsAssumption`,
  `NestingAssumption` (the text nests: every block's level is one more than its parent's,
  and the levels end) and `HierarchyAssumption` (a superclass is written in a block
  around its subclass, and no class extends itself), and with the hypothesis `Gentle`, which
  leaves out the four uses the links are wrong for (section 5). `Around` and `Supers` are least
  closed sets, so that what the proof needs of the text (the blocks around a superclass
  are around its subclass too; a name's innermost holder exists) is proved without
  recursion. The invariant is `Chain`: a list of frames is right for a block c if it has, for
  each block around c, a frame that plays it, from which the list goes on as the text of
  that frame does. It says of a suffix of the list what it says of the whole, which is what a
  number of links to skip needs. `TextChain` shows that an object's links, cut at a superclass's
  level, are right for the superclass; each of the ways to call is shown to compute
  such a list (`Entered`), and one lemma for all shows that a new frame keeps the invariant. For
  the counts, `Held` says why each frame that can be named is kept, and `Counted` that its count is
  its call and the closure. Result: `LinksSafety`, `FramesSafety`.
* `Heap_proofs`, from `BoundsAssumption` (an object has two fields, and one initial state has
  two cells) and `VariablesAssumption` (no name is two things), for any threads, shared
  variables, cells, lengths of vectors and numbers of statements. The counts are sums over what
  the threads are in the middle of, so the invariant is about a function: `Ref` gives for each
  slot (a place, a loop, a task) the cell it holds, where `Job[t][k]` is the k-th task of t from the
  end, which keeps its name while tasks above it come and go. `Core` says that a cell that is not
  being deleted has exactly as many slots as its count, at least one, and an object a second
  beside its pointer to itself; that a cell that is being deleted has no slot but that
  pointer. A step changes one or two slots, and one lemma for each such change keeps `Core`
  (`OneMore`, `Moved`, `Give`, `GiveOne`, `Forgotten`, `FreedOne`, `NewVector`, `NewObject`).
  The strengthening is why the changes are the right ones. `Orderly` says what each task
  relies on: the place it writes is its own or under the lock, with the vector it is in held by
  a variable that nobody else writes; a constructor's object is kept by the reference that is given
  up last; a store comes right after its own old value's deletion. `Once` says that no two
  tasks delete one cell, `Phases` what is known of it in each phase: the count of 100 that keeps
  the finalizer's own use from deleting it again, and whether the finalizer has run.
  `Keeps` shows that a step of another thread disturbs nothing a thread relies on. Result:
  `Invariance`, `CountsAreRight`, `NothingIsFreedEarly`, `FinalizersRunOnce`.
* `Interpreter_proofs`, from `MaxTrueAssumption`, for any program whose instructions have the
  operands their opcodes need (`WellFormed`), not only what the code generator issues.
  `FramesMove` classifies what a step does to the stack of `dotry` activations:
  nothing, one more, one less, or the top one in a later phase. Every action is
  shown to keep the types and to make such a move; `TypeCorrect` and
  `PhasesMonotone` follow.

Only model-checked, and why:

* Liveness (`FreeMonitorTaken`, `EverybodyServed`, `JoinReturns`, `LoopsEnd`, `ReadsReturn`,
  `LocksSettle`): it needs ENABLED, which the provers do not have.
* Everything about modules with recursive operators (`Codegen`, `Execution`, `Values` to
  `Expressions`, `ObjectCode`, `Serialization`, `Library`): induction over programs and values.
  A proof about `Execution` would need what the generator makes of every tree, by induction on it.

## 5. Findings

`threads_join`: `findThread` dereferences its map iterator after the unlock, and
`threadJoin` uses the `OSThread` object, while the ending child erases and deletes
both. The test joins threads that may be ending.

Seen while modelling. The models follow the code in each case; the property that
would be violated names the limit, or the programs are outside its premise.

Threads, streams and monitors:

* A timed wait the system refuses answers like a notification: `os.h:319` promises -1
  for an error and `timewait` tests for it, but `timedwait` returns `v != ETIMEDOUT`.
* `deleteThread` may run before `insertThread`: `numThreads` is -1 for a while, and an
  entry for an ended child stays on the list.
* A child that ends before or in the middle of the creator's first use deletes the stream
  and the frame that `connect` then locks, sets and unlocks (`connect.cc:40-57`). What a child writes before the connection goes to
  the standard output (`aikido.h:866`). A refused pipe leaves the lock taken
  (`aikido.h:929`). Writing when the other end is deleted raises SIGPIPE.
* `getExpression` reads `currentMajorScope` after it has given the lock back
  (`parser.cc:2765`).

Statements:

* Catch code of a statement with finally code runs in a nested `execute` that only
  handles exceptions; the int thrown by a return (or break, or continue) that leaves an
  outer try skips the finally code, which `README:168` says runs always.
* Without a catch (`README:176`), the catch label is the end of the statement
  (`codegen.cc:2222`). An exception then runs everything up to the end of the function,
  then the finally code, then everything after the statement again; it is lost.
* An exception in the finally code after a normal try block is caught by the same
  statement. A break in catch code goes on inside the nested `execute`, and scopes are
  popped once too often.
* `buildThrow` leaves `monitorlevel - trylevel` monitors, so one synchronized block in one
  try keeps its monitor after the catch. An exception that is not thrown by a throw
  statement never leaves any.
* A switch case with `>=` compares with `>` (`codegen.cc:1886`), and a `continue` in a do
  loop skips the condition.
* A coroutine that yields in a try block, or in the second of two loops, does not go on
  where it was, though `README:316` says it does.

Calls and values:

* An inherited method gets the static link of its object's class, which is nested
  elsewhere than its own (`interpret.cc:3512`). When a superclass of a superclass is made, the
  cut starts at the level of the object's class and not at that of the class that is being
  made (`interpret.cc:4702`): with class C in a function in a function, B in the outer function and
  A outside, C extends B extends A, A's code has no links left. An object may outlive the function its
  class is nested in, whose frame its methods then use. A closure's variable that is
  overwritten while the closure runs frees it.
* A finalizer that stores its object leaves a reference to a deleted object (`value.cc:977`).
* Vectors and maps compare only the truth of their elements (`value.cc:594`).
  `delete s[i]` on strings counts wrongly (`interpret.cc:7343`); `s[1:2] = "XY"` replaces
  by a part of itself (`interpret.cc:7489`). `>` between a number and an enum constant
  is `<` (`interpret.cc:710`). `-` of vectors is the symmetric difference (`value.cc:682`),
  and of pointers an addition. `cast<bytevector>` appends to a global.
* The smallest integer, to a string and back, is off by one.
* `opMOD_I` tests the operand's own number and not the divisor (`interpret.cc:2610`): a register
  0 always divides by zero, a zero in another place is divided by. `opMOD_R` throws where
  `%` gives no number.
* A generic variable that holds a string refuses `1 + 2`, and takes `f(1) + 2`: `setint` and
  its like look at the old value and not at the flags (`interpret.cc:1914`), as does a
  variable that holds a function that has yielded. `return` of an integer variable that
  holds a character returns an integer (`interpret.cc:2826`).
* `!` and `sizeof` of an object have a static type, though the class may define them
  (`parser.cc:8606`); `in` and `instanceof` have that of their operands.
* A variable declared with the name of a type has the static type none, so that `<...>`
  after it is always an error.

Expressions:

* `x = 0 || x` and `z = y && z` use the variable as their temporary (`codegen.cc:1618`). An
  assignment of a constant or a variable, used as an operand, reads a register that was
  never set (`codegen.cc:1222`). `v[f()] += 1` evaluates f twice.
* `(a)[1]`, `(f)(1)` and `(a)++` are read as casts (`parser.cc:7865`), and `sizeof (x + y)` is a
  syntax error.

Object files:

* A try with finally code is dumped with three words, and two are loaded
  (`codegen.cc:3337`, 3499): everything after it is misread.
* The lower half of a 64 bit number is sign extended over the upper (`parser.cc:9563`).
* Lists of tags get an unknown tag for each in the first pass (`parser.cc:9962`). A
  library whose path has no slash makes `substr(-1)` throw (`parser.cc:9862`). The scope
  operand of a PUSHSCOPE without one is lost, vectors, maps and closures are dumped as
  types only, and a source position at line 0 is dumped as two words and loaded as one.

Serialization:

* XML: `-5` comes back as -25, because the sign goes in as a digit; a byte comes back as the
  code of its first digit; `"` in a string ends the attribute; an escape replaces the whole
  text read so far (`native.cc`, `news =+ '<'`); null is text, which is an unknown node;
  everything that starts with `!`, CDATA sections too, is taken for a comment.
* JSON: strings are not unescaped; characters throw; `{}` is read for ever; a whole real
  comes back as an integer; keys of maps become strings.
* Binary: a null is a byte 0 that is read as no value; a function or an enum constant in a
  vector writes nothing, and what follows is read in its place; a reference to an enclosing
  object is null, in JSON too.
* In all: `__aikido_is_monitor=true` makes a monitor lose its members, inherited members are
  never restored, and a bytevector is counted through a member of another type.

Natives and subscripts:

* `fill` and range assignment give every byte of a bytevector the value 0 or 1
  (`native.cc:1858`), and a range of a bytevector reads as 0 and 1 (`interpret.cc:7436`).
* `findn`, `trim` and `replace` take a bytevector for a vector of values, and see a
  sixteenth of it or walk beyond it (`native.cc:1942`).
* `split` at "" and `replace` of all "" never return, nor does the hash of a map with a key.
  A number and a string that are equal have different hash codes.
* `format` passes over `%c`, which `vformat` knows; `%b` loses the upper digits when the
  width is too small, and adds a space on the left justified side.
* `parsedate` reads a difference from UTC and does not use it. `expand` loses the character
  after a single `#`, keeps the `=` of `<%=` and evaluates an unclosed `#{` with an end of
  file in it. `clone` makes integers of characters, bytes and truth values.
* `delete s[i]` of a string deletes i characters from i, `delete s[lo:hi]` hi characters
  (`interpret.cc:7344`, 7674). `s[lo:hi] = t` makes s its own range (7495). The range of a
  vector is assigned from the same places of the other vector, beyond its end unless lo is 0
  (7508). `new C[2][3]` makes the first object of each row the same (7588).
* The address of a missing element of a map is that of a constant all share (7139).

## 6. Not modelled, and the plan

* Coroutines: synchronized blocks around a yield, and the registers; closures that are
  resumed twice. Parser lock: what is parsed. Threads: priorities.
* Signals and the debugger: next.
* The statement and declaration parser, the lexer's characters, the natives, streams and
  files.
* Containers of the library against sequences and functions.
* Theorems to add: that a POPSCOPE of the levels between a jump and its target restores the
  target's stacks, for any levels.

Out of reach or of no use here: input and output as such (network, terminal, XML, ZIP,
files), the command line, the Windows port, vendored and generated code (PCRE, GTK),
examples and extras.
