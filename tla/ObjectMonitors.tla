--------------------------- MODULE ObjectMonitors ---------------------------
(***************************************************************************)
(* The monitors of synchronized blocks: findMonitor and freeMonitor of     *)
(* src/src/parser.cc, monitorEnter and monitorExit of                      *)
(* src/src/interpret.cc, composed with the parser lock, which monitorExit  *)
(* takes around the release.                                               *)
(*                                                                         *)
(* An object gets a monitor when a block first asks for it, and the        *)
(* monitor goes to a free list when the object goes, which is when no      *)
(* variable refers to it any more.  A block names a variable, and reads it *)
(* again at its end.  When it was assigned meanwhile, the block leaves     *)
(* another object's monitor, or fails; "mixed" records the assignments     *)
(* that can do this.                                                       *)
(***************************************************************************)
EXTENDS ParserLock, SequencesExt

CONSTANTS Var,      \* variables of the program, shared by the threads
          Addr,     \* addresses of objects
          Mon,      \* monitors made by findMonitor
          Blocks    \* bound: synchronized blocks nested in one thread

ASSUME VarAssumption == None \notin Addr \cup Mon
\* findMonitor can make a monitor for every object.
ASSUME MonAssumption == /\ IsFiniteSet(Addr) /\ IsFiniteSet(Mon)
                        /\ Cardinality(Addr) <= Cardinality(Mon)
ASSUME BlocksAssumption == Blocks \in Nat

VARIABLES val,              \* val[x]: the object x refers to, or None
          monitorCache,     \* the monitor of an object, or None
          monitorFreeList,
          mowner, mn,       \* of each monitor
          blocks,           \* blocks[t]: the blocks t is in, innermost last
          asking,           \* asking[t]: the monitor t is about to acquire
          mixed             \* a variable was assigned while a block uses it

ovars == <<val, monitorCache, monitorFreeList, mowner, mn, blocks, asking, mixed>>

\* A block was entered on variable x with object obj, at the depth of ops.
Block == [x : Var, obj : Addr, depth : 0..Depth]

\* The fields have their types; a monitor is owned exactly when it is entered.
ObjTypeOK == /\ val \in [Var -> Addr \cup {None}]
             /\ monitorCache \in [Addr -> Mon \cup {None}]
             /\ monitorFreeList \in Seq(Mon)
             /\ mowner \in [Mon -> Thread \cup {None}]
             /\ mn \in [Mon -> 0..Blocks]
             /\ \A m \in Mon : mowner[m] = None <=> mn[m] = 0
             /\ blocks \in [Thread -> Seq(Block)]
             /\ \A t \in Thread : Len(blocks[t]) <= Blocks
             /\ asking \in [Thread -> Mon \cup {None}]
             /\ mixed \in BOOLEAN

ObjInit == /\ Init
           /\ val = [x \in Var |-> None]
           /\ monitorCache = [a \in Addr |-> None]
           /\ monitorFreeList = <<>>
           /\ mowner = [m \in Mon |-> None]
           /\ mn = [m \in Mon |-> 0]
           /\ blocks = [t \in Thread |-> <<>>]
           /\ asking = [t \in Thread |-> None]
           /\ mixed = FALSE

Live == Range(val) \ {None}

-----------------------------------------------------------------------------
\* The cache.

\* The monitors there are; the next one to be made.
Made == (Range(monitorCache) \ {None}) \cup Range(monitorFreeList)
Unmade == CHOOSE m \in Mon : m \notin Made

\* The monitor of object a: its own, the first of the free list, or a new one.
findMonitor(a) ==
    IF monitorCache[a] # None THEN monitorCache[a]
    ELSE IF monitorFreeList # <<>> THEN Head(monitorFreeList)
    ELSE Unmade

\* What findMonitor does to the cache and the list.
Found(a) ==
    /\ monitorCache' = [monitorCache EXCEPT ![a] = findMonitor(a)]
    /\ monitorFreeList' = IF monitorCache[a] = None /\ monitorFreeList # <<>>
                          THEN Tail(monitorFreeList)
                          ELSE monitorFreeList

\* A mutant: the object stays in the cache.
freeMonitor_KeepsEntry(a) ==
    IF monitorCache[a] # None
    THEN /\ monitorFreeList' = Append(monitorFreeList, monitorCache[a])
         /\ UNCHANGED monitorCache
    ELSE UNCHANGED <<monitorFreeList, monitorCache>>

\* The object at a goes.
freeMonitor(a) ==
    IF monitorCache[a] # None
    THEN /\ monitorFreeList' = Append(monitorFreeList, monitorCache[a])
         /\ monitorCache' = [monitorCache EXCEPT ![a] = None]
    ELSE UNCHANGED <<monitorFreeList, monitorCache>>

-----------------------------------------------------------------------------
\* The blocks of the program.

\* t's code runs, and t is not on its way into a monitor.
Goes(t) == Runs(t) /\ asking[t] = None

Innermost(t) == blocks[t][Len(blocks[t])]

\* The blocks t is in were begun by the code that runs now.
OwnBlock(t) == blocks[t] # <<>> /\ Innermost(t).depth = Len(ops[t])

InUse(x) == \E t \in Thread : \E i \in 1..Len(blocks[t]) : blocks[t][i].x = x

\* x is assigned a new object, another variable's, or none.  The old object
\* goes with its last reference, and its address may be used again.
Assign(t, x, a) ==
    /\ Goes(t)
    /\ a # val[x]
    /\ val' = [val EXCEPT ![x] = a]
    /\ mixed' = (mixed \/ InUse(x))
    /\ IF val[x] # None /\ \A y \in Var \ {x} : val[y] # val[x]
       THEN freeMonitor(val[x])
       ELSE UNCHANGED <<monitorCache, monitorFreeList>>
    /\ UNCHANGED <<vars, mowner, mn, blocks, asking>>

\* monitorEnter looks the monitor up.  The block has no reference of its own.
Look(t, x) ==
    /\ Goes(t)
    /\ Len(blocks[t]) < Blocks
    /\ val[x] # None
    /\ Found(val[x])
    /\ asking' = [asking EXCEPT ![t] = findMonitor(val[x])]
    /\ blocks' = [blocks EXCEPT ![t] = Append(@, [x |-> x, obj |-> val[x],
                                                  depth |-> Len(ops[t])])]
    /\ UNCHANGED <<vars, val, mowner, mn, mixed>>

\* A mutant: a monitor that is entered already is entered by anybody.
Enter_Anyhow(t) ==
    /\ asking[t] # None
    /\ mowner' = [mowner EXCEPT ![asking[t]] = t]
    /\ mn' = [mn EXCEPT ![asking[t]] = @ + 1]
    /\ asking' = [asking EXCEPT ![t] = None]
    /\ UNCHANGED <<vars, val, monitorCache, monitorFreeList, blocks, mixed>>

\* ... and acquires it.
Enter(t) ==
    /\ asking[t] # None
    /\ mowner[asking[t]] \in {None, t}
    /\ mowner' = [mowner EXCEPT ![asking[t]] = t]
    /\ mn' = [mn EXCEPT ![asking[t]] = @ + 1]
    /\ asking' = [asking EXCEPT ![t] = None]
    /\ UNCHANGED <<vars, val, monitorCache, monitorFreeList, blocks, mixed>>

Leave(t) == blocks' = [blocks EXCEPT ![t] = Front(@)]

\* A mutant: the last exit does not give the monitor back.
Exit_KeepsOwner(t) ==
    /\ Goes(t) /\ OwnBlock(t)
    /\ Free(t)
    /\ LET a == val[Innermost(t).x]
           m == findMonitor(a)
       IN /\ a # None
          /\ mowner[m] = t
          /\ mn' = [mn EXCEPT ![m] = @ - 1]
          /\ Found(a)
    /\ Leave(t)
    /\ UNCHANGED <<vars, val, mowner, asking, mixed>>

\* A mutant: monitorExit keeps the parser lock.
Exit_KeepsParserLock(t) ==
    /\ Goes(t) /\ OwnBlock(t)
    /\ Acquire(t)
    /\ LET a == val[Innermost(t).x]
           m == findMonitor(a)
       IN /\ a # None
          /\ mowner[m] = t
          /\ mn' = [mn EXCEPT ![m] = @ - 1]
          /\ mowner' = [mowner EXCEPT ![m] = IF mn[m] = 1 THEN None ELSE t]
          /\ Found(a)
    /\ Leave(t)
    /\ UNCHANGED <<ops, raising, joining, currentContext, currentScope, spoilt,
                   val, asking, mixed>>

\* monitorExit reads the variable again, and releases its object's monitor
\* under the parser lock.
Exit(t) ==
    /\ Goes(t) /\ OwnBlock(t)
    /\ Free(t)
    /\ LET a == val[Innermost(t).x]
           m == findMonitor(a)
       IN /\ a # None
          /\ mowner[m] = t
          /\ mn' = [mn EXCEPT ![m] = @ - 1]
          /\ mowner' = [mowner EXCEPT ![m] = IF mn[m] = 1 THEN None ELSE t]
          /\ Found(a)
    /\ Leave(t)
    /\ UNCHANGED <<vars, val, asking, mixed>>

\* The thread does not own that monitor: release throws, and the parser lock
\* is kept.
ExitThrows(t) ==
    /\ Goes(t) /\ OwnBlock(t)
    /\ Acquire(t)
    /\ LET a == val[Innermost(t).x]
       IN a # None /\ mowner[findMonitor(a)] # t /\ Found(a)
    /\ Leave(t)
    /\ raising' = raising \cup {t}
    /\ Spoil("kept")
    /\ UNCHANGED <<ops, joining, currentContext, currentScope,
                   val, mowner, mn, asking, mixed>>

\* The variable has no object any more: an exception before the lock.
ExitNothing(t) ==
    /\ Goes(t) /\ OwnBlock(t)
    /\ val[Innermost(t).x] = None
    /\ Leave(t)
    /\ raising' = raising \cup {t}
    /\ UNCHANGED <<owner, n, ops, joining, currentContext, currentScope, spoilt,
                   val, monitorCache, monitorFreeList, mowner, mn, asking, mixed>>

-----------------------------------------------------------------------------
\* The operations of the parser lock; the code of one ends after its blocks.
Lock(t) == /\ asking[t] = None
           /\ \/ \E o \in Used : Begin(t, o)
              \/ Advance(t) /\ (ops[t] # <<>> /\ Top(t).at = "code" => ~OwnBlock(t))
           /\ UNCHANGED ovars

Joins == /\ \E u \in Thread : Join(u) /\ asking[Main] = None
         /\ UNCHANGED ovars

EndJoin == /\ Joined
           /\ \A u \in joining : blocks[u] = <<>>
           /\ UNCHANGED ovars

ObjNext == \/ \E t \in Thread : \/ \E x \in Var, a \in Addr \cup {None} : Assign(t, x, a)
                                \/ \E x \in Var : Look(t, x)
                                \/ Enter(t)
                                \/ Exit(t) \/ ExitThrows(t) \/ ExitNothing(t)
                                \/ Lock(t)
           \/ Joins \/ EndJoin

ObjSpec == ObjInit /\ [][ObjNext]_<<vars, ovars>>

-----------------------------------------------------------------------------
\* A live object has one monitor, no two share one, and a monitor on the free
\* list is on it once and is no object's: findMonitor and freeMonitor keep a
\* one-to-one map whatever objects come and go and addresses are used again.
OneMonitorEach ==
    /\ \A a, b \in Addr : monitorCache[a] = monitorCache[b] => a = b \/ monitorCache[a] = None
    /\ IsInjective(monitorFreeList)
    /\ Range(monitorFreeList) \cap Range(monitorCache) = {}
    /\ \A a \in Addr : monitorCache[a] # None => a \in Live

\* A monitor on the free list is neither owned nor asked for, as long as no
\* variable is assigned while a block uses it: freeing an object then never
\* lends a monitor that somebody is in.
FreeMonitorsUnowned ==
    ~mixed => \A m \in Range(monitorFreeList) :
                  mowner[m] = None /\ \A t \in Thread : asking[t] # m

\* A thread on its way into a monitor runs code, and has begun a block; it is that
\* block's object whose monitor it asks for, as long as no variable is assigned.
AsksOwn ==
    \A t \in Thread : asking[t] # None =>
        /\ t \notin raising /\ (ops[t] # <<>> => Top(t).at = "code")
        /\ blocks[t] # <<>>
        /\ ~mixed => asking[t] = monitorCache[Innermost(t).obj]

\* The blocks of t that are inside monitor m.
Entered(t, m) == {i \in 1..Len(blocks[t]) : /\ monitorCache[blocks[t][i].obj] = m
                                            /\ i = Len(blocks[t]) => asking[t] = None}

\* As long as no variable is assigned while a block uses it, a block's variable still
\* has the block's object, the object its monitor, and a thread has entered a monitor
\* exactly as often as it is in blocks of its object.
BlocksHold ==
    ~mixed => \A t \in Thread :
        /\ \A i \in 1..Len(blocks[t]) : /\ val[blocks[t][i].x] = blocks[t][i].obj
                                        /\ monitorCache[blocks[t][i].obj] # None
        /\ \A m \in Mon : Cardinality(Entered(t, m)) = IF mowner[m] = t THEN mn[m] ELSE 0

\* The entries of monitors t has, each by its number.
EntriesOf(t) == {e \in Mon \X (1..Blocks) : mowner[e[1]] = t /\ e[2] <= mn[e[1]]}

\* A thread has as many entries as it is in blocks, whatever monitors its blocks leave
\* when variables are assigned, until the exception of a block that finds no monitor to
\* leave stops it.
EntriesCounted ==
    \A t \in Thread :
        /\ Cardinality(EntriesOf(t)) <= Blocks
        /\ t \notin raising =>
              Cardinality(EntriesOf(t)) = IF asking[t] = None THEN Len(blocks[t])
                                                             ELSE Len(blocks[t]) - 1

\* The map from objects to monitors with its free list, and who has entered them.
MonitorsInv == /\ ObjTypeOK /\ OneMonitorEach /\ FreeMonitorsUnowned
               /\ AsksOwn /\ BlocksHold /\ EntriesCounted

\* t is inside a block that was entered with object a.
Inside(t, a) == \E i \in 1..Len(blocks[t]) :
                    blocks[t][i].obj = a /\ (i = Len(blocks[t]) => asking[t] = None)

\* Two threads are never inside blocks of the same object, as long as no
\* variable is assigned while a block uses it.
BlocksExclude ==
    ~mixed => \A t, u \in Thread : \A a \in Addr :
                  Inside(t, a) /\ Inside(u, a) => t = u

\* t waits for u: for a monitor, for the parser lock, or in a join.
WaitsFor(t, u) ==
    \/ asking[t] # None /\ mowner[asking[t]] = u
    \/ asking[t] = None /\ owner = u
       /\ \/ WantsLock(t)
          \/ OwnBlock(t) /\ Goes(t)
    \/ t = Main /\ u \in joining

\* Two threads wait for each other only when blocks are nested, a thread runs
\* code of eval or executePreload with the parser lock, joins inside a block,
\* or the lock was kept: monitorExit's use of the parser lock adds no other
\* way to wait for ever.
NoOtherDeadlock ==
    (\E t, u \in Thread : t # u /\ WaitsFor(t, u) /\ WaitsFor(u, t)) =>
        \/ spoilt # {}
        \/ \E t \in Thread : Len(blocks[t]) > 1
        \/ joining # {} /\ blocks[Main] # <<>>
        \/ \E i \in Ids : Len(ops[i[1]]) >= i[2] /\ ops[i[1]][i[2]].op \in {"eval", "run"}
=============================================================================
