-------------------------- MODULE Coroutines_proofs --------------------------
(***************************************************************************)
(* What a resumed function finds, for every number of functions and every  *)
(* depth of nesting.                                                       *)
(***************************************************************************)
EXTENDS Coroutines, FiniteSetTheorems, TLAPS

-----------------------------------------------------------------------------
(***************************************************************************)
(* The inductive invariant.                                                *)
(***************************************************************************)
LoopEnd(n)  == IF n = Len(calls) THEN Len(forStack) ELSE calls[n + 1].loops
ScopeEnd(n) == IF n = Len(calls) THEN Len(scopeStack) ELSE calls[n + 1].scopes

\* The parts of the stacks lie one above the other.
Bases ==
    \A n \in DOMAIN calls :
        /\ calls[n].loops <= Len(forStack) /\ calls[n].scopes < Len(scopeStack)
        /\ \A m \in 1 .. n - 1 : /\ calls[m].loops <= calls[n].loops
                                 /\ calls[m].scopes < calls[n].scopes

\* No function is active twice.
OneEach == \A m, n \in DOMAIN calls : calls[m].who = calls[n].who => m = n

LoopsRight(n) ==
    Lists(forStack, calls[n].loops + 1 .. LoopEnd(n), calls[n].who, "foreach")

ScopesRight(n) ==
    /\ scopeStack[calls[n].scopes + 1] = <<calls[n].who, 0>>
    /\ Lists(scopeStack, calls[n].scopes + 2 .. ScopeEnd(n), calls[n].who, "block")

\* The handlers as a list of marks, and the sizes they remember.
Depths(tries, f) == [i \in DOMAIN tries |-> <<f, tries[i].at>>]
LoopSizes(tries) == [i \in DOMAIN tries |-> tries[i].loops]
ScopeSizes(tries) == [i \in DOMAIN tries |-> tries[i].scopes]

TriesRight(n) ==
    Lists(Depths(calls[n].tries, calls[n].who), DOMAIN calls[n].tries, calls[n].who, "try")

\* Up to the size a handler remembers are the marks of what was begun before
\* its try.
Fits(tries, sizes, stack, begin, end) ==
    \A i \in DOMAIN tries :
        /\ sizes[i] \in begin - 1 .. end
        /\ \A j \in begin .. end : j <= sizes[i] <=> stack[j][2] < tries[i].at

HandlersFit(n) ==
    LET tries == calls[n].tries IN
    /\ Fits(tries, LoopSizes(tries), forStack, calls[n].loops + 1, LoopEnd(n))
    /\ Fits(tries, ScopeSizes(tries), scopeStack, calls[n].scopes + 2, ScopeEnd(n))

Right(n) == LoopsRight(n) /\ ScopesRight(n) /\ TriesRight(n) /\ HandlersFit(n)

\* A suspended function has its part of the stacks in its closure.
Saved(f) ==
    LET s == closure[f].scopes IN
    /\ At(f, "try") = {}
    /\ Lists(closure[f].loops, 1 .. Len(closure[f].loops), f, "foreach")
    /\ s # <<>> /\ s[1] = <<f, 0>>
    /\ Lists(s, 2 .. Len(s), f, "block")

ClosuresRight ==
    \A f \in Function :
        /\ closure[f].status = "new" => inside[f] = <<>>
        /\ closure[f].status = "suspended" => Saved(f)
        /\ closure[f].status = "running" <=> \E n \in DOMAIN calls : calls[n].who = f

StackInv == TypeOK /\ Bases /\ OneEach /\ ClosuresRight /\ \A n \in DOMAIN calls : Right(n)

CoInv == StackInv /\ MonitorsFollow

-----------------------------------------------------------------------------
(***************************************************************************)
(* What every step leaves alone.                                           *)
(***************************************************************************)

\* The running activation, and where the parts of the stacks end.
LEMMA Top ==
    ASSUME StackInv
    PROVE  /\ Len(calls) \in Nat \ {0} /\ DOMAIN calls = 1 .. Len(calls)
           /\ me = calls[Len(calls)] /\ self = calls[Len(calls)].who /\ self \in Body
           /\ Len(forStack) \in Nat /\ Len(scopeStack) \in Nat
           /\ \A n \in DOMAIN calls :
                  /\ calls[n] \in Activation /\ calls[n].loops \in Nat /\ calls[n].scopes \in Nat
                  /\ LoopEnd(n) \in Nat /\ ScopeEnd(n) \in Nat
                  /\ calls[n].loops <= LoopEnd(n) /\ LoopEnd(n) <= Len(forStack)
                  /\ calls[n].scopes < ScopeEnd(n) /\ ScopeEnd(n) <= Len(scopeStack)
                  /\ n < Len(calls) => /\ LoopEnd(n) <= calls[Len(calls)].loops
                                       /\ ScopeEnd(n) <= calls[Len(calls)].scopes
  <1>1. /\ calls \in Seq(Activation) /\ calls # <<>>
        /\ forStack \in Seq(Mark) /\ scopeStack \in Seq(Mark)
    BY DEF StackInv, TypeOK
  <1>2. /\ Len(calls) \in Nat \ {0} /\ DOMAIN calls = 1 .. Len(calls)
        /\ Len(forStack) \in Nat /\ Len(scopeStack) \in Nat
    BY <1>1
  <1>3. /\ me = calls[Len(calls)] /\ self = calls[Len(calls)].who
    BY <1>1, <1>2 DEF me, self, Last
  <1>4. \A n \in DOMAIN calls : calls[n] \in Activation
    BY <1>1, <1>2
  <1>5. \A n \in DOMAIN calls : calls[n].loops \in Nat /\ calls[n].scopes \in Nat /\ calls[n].who \in Body
    BY <1>4 DEF Activation
  <1>6. ASSUME NEW n \in DOMAIN calls
        PROVE  /\ LoopEnd(n) \in Nat /\ ScopeEnd(n) \in Nat
               /\ calls[n].loops <= LoopEnd(n) /\ LoopEnd(n) <= Len(forStack)
               /\ calls[n].scopes < ScopeEnd(n) /\ ScopeEnd(n) <= Len(scopeStack)
               /\ n < Len(calls) => /\ LoopEnd(n) <= calls[Len(calls)].loops
                                    /\ ScopeEnd(n) <= calls[Len(calls)].scopes
    <2>1. CASE n = Len(calls)
      BY <1>2, <1>5, <2>1 DEF LoopEnd, ScopeEnd, StackInv, Bases
    <2>2. CASE n < Len(calls)
      <3>1. n + 1 \in DOMAIN calls /\ n \in 1 .. (n + 1) - 1 /\ Len(calls) \in DOMAIN calls
        BY <1>2, <2>2
      <3>2. /\ calls[n].loops <= calls[n + 1].loops /\ calls[n].scopes < calls[n + 1].scopes
            /\ calls[n + 1].loops <= Len(forStack) /\ calls[n + 1].scopes < Len(scopeStack)
        BY <3>1 DEF StackInv, Bases
      <3>3. n + 1 = Len(calls) \/ n + 1 \in 1 .. Len(calls) - 1
        BY <1>2, <2>2
      <3>4. /\ calls[n + 1].loops <= calls[Len(calls)].loops
            /\ calls[n + 1].scopes <= calls[Len(calls)].scopes
        BY <1>5, <3>1, <3>3 DEF StackInv, Bases
      <3>5. LoopEnd(n) = calls[n + 1].loops /\ ScopeEnd(n) = calls[n + 1].scopes
        BY <2>2 DEF LoopEnd, ScopeEnd
      <3>6. QED
        BY <1>5, <3>1, <3>2, <3>4, <3>5
    <2>3. QED
      BY <1>2, <2>1, <2>2
  <1>7. QED
    BY <1>2, <1>3, <1>4, <1>5, <1>6

\* An activation is right as long as its part of the stacks, its handlers and
\* its place in its body stay.
LEMMA Kept ==
    ASSUME StackInv, NEW n \in DOMAIN calls, Right(n), calls'[n] = calls[n],
           LoopEnd(n)' = LoopEnd(n), ScopeEnd(n)' = ScopeEnd(n),
           \A j \in 1 .. LoopEnd(n) : forStack'[j] = forStack[j],
           \A j \in 1 .. ScopeEnd(n) : scopeStack'[j] = scopeStack[j],
           inside'[calls[n].who] = inside[calls[n].who]
    PROVE  Right(n)'
  <1>1. PICK f : f = calls[n].who
    OBVIOUS
  <1>2. \A c : At(f, c)' = At(f, c)
    BY <1>1 DEF At
  <1>3. /\ LoopEnd(n) \in Nat /\ ScopeEnd(n) \in Nat /\ calls[n].scopes < ScopeEnd(n)
        /\ calls[n].loops \in Nat /\ calls[n].scopes \in Nat
    BY Top
  <1>4. LoopsRight(n)'
    <2>1. \A j \in calls[n].loops + 1 .. LoopEnd(n) : j \in 1 .. LoopEnd(n)
      BY <1>3
    <2>2. QED
      BY <1>1, <1>2, <2>1 DEF Right, LoopsRight, Lists
  <1>5. ScopesRight(n)'
    <2>1. /\ \A j \in calls[n].scopes + 2 .. ScopeEnd(n) : j \in 1 .. ScopeEnd(n)
          /\ calls[n].scopes + 1 \in 1 .. ScopeEnd(n)
      BY <1>3
    <2>2. QED
      BY <1>1, <1>2, <2>1 DEF Right, ScopesRight, Lists
  <1>6. TriesRight(n)'
    BY <1>1, <1>2 DEF Right, TriesRight, Lists
  <1>7. HandlersFit(n)'
    <2>1. \A j \in calls[n].loops + 1 .. LoopEnd(n) : j \in 1 .. LoopEnd(n)
      BY <1>3
    <2>2. \A j \in calls[n].scopes + 2 .. ScopeEnd(n) : j \in 1 .. ScopeEnd(n)
      BY <1>3
    <2>3. QED
      BY <2>1, <2>2 DEF Right, HandlersFit, Fits
  <1>8. QED
    BY <1>4, <1>5, <1>6, <1>7 DEF Right

\* A step after which the activation number k is the running one: its own part
\* of the stacks is right, the parts below it stay.
LEMMA Leaves ==
    ASSUME StackInv, TypeOK', ClosuresRight', NEW k \in DOMAIN calls, Right(k)',
           Len(calls') = k, \A n \in 1 .. k - 1 : calls'[n] = calls[n],
           calls'[k].who = calls[k].who, calls'[k].loops = calls[k].loops,
           calls'[k].scopes = calls[k].scopes,
           calls[k].loops <= Len(forStack'), calls[k].scopes < Len(scopeStack'),
           \A j \in 1 .. calls[k].loops : forStack'[j] = forStack[j],
           \A j \in 1 .. calls[k].scopes : scopeStack'[j] = scopeStack[j],
           \A n \in 1 .. k - 1 : inside'[calls[n].who] = inside[calls[n].who]
    PROVE  StackInv'
  <1> DEFINE N == Len(calls)
  <1>1. N \in Nat \ {0} /\ DOMAIN calls = 1 .. N /\ k \in 1 .. N
    BY Top
  <1>2. DOMAIN calls' = 1 .. k
    BY <1>1 DEF TypeOK
  <1>3. \A n \in 1 .. k : /\ calls'[n].who = calls[n].who /\ calls'[n].loops = calls[n].loops
                          /\ calls'[n].scopes = calls[n].scopes
    <2> TAKE n \in 1 .. k
    <2>1. n = k \/ n \in 1 .. k - 1
      BY <1>1
    <2>2. QED
      BY <1>1, <2>1
  <1>4. \A n \in 1 .. k : calls[n].loops \in Nat /\ calls[n].scopes \in Nat
    BY <1>1, Top, SMTT(30)
  <1>5. \A n \in 1 .. k : calls[n].loops <= calls[k].loops /\ calls[n].scopes <= calls[k].scopes
    <2> TAKE n \in 1 .. k
    <2>1. n = k \/ n \in 1 .. k - 1
      BY <1>1
    <2>2. CASE n \in 1 .. k - 1
      BY <1>1, <1>4, <2>2 DEF StackInv, Bases
    <2>3. QED
      BY <1>1, <1>4, <2>1, <2>2
  <1>6. Len(forStack') \in Nat /\ Len(scopeStack') \in Nat
    BY DEF TypeOK
  <1>7. Bases'
    <2> SUFFICES ASSUME NEW n \in 1 .. k
                 PROVE  /\ calls'[n].loops <= Len(forStack') /\ calls'[n].scopes < Len(scopeStack')
                        /\ \A m \in 1 .. n - 1 : /\ calls'[m].loops <= calls'[n].loops
                                                 /\ calls'[m].scopes < calls'[n].scopes
      BY <1>2 DEF Bases
    <2>1. calls'[n].loops <= Len(forStack') /\ calls'[n].scopes < Len(scopeStack')
      BY <1>1, <1>3, <1>4, <1>5, <1>6
    <2>2. n \in 1 .. N /\ \A m \in 1 .. n - 1 : m \in 1 .. k
      BY <1>1
    <2>3. QED
      BY <1>1, <1>3, <2>1, <2>2, SMTT(30) DEF StackInv, Bases
  <1>8. OneEach'
    BY <1>1, <1>2, <1>3 DEF StackInv, OneEach
  <1>9. ASSUME NEW n \in 1 .. k
        PROVE  Right(n)'
    <2>1. CASE n = k
      BY <2>1
    <2>2. CASE n # k
      <3>0. n \in Int /\ k \in Int /\ N \in Int /\ 1 <= n /\ n <= k /\ k <= N
        <4>1. k \in Int /\ N \in Int /\ k <= N
          BY ONLY <1>1
        <4>2. n \in 1 .. k
          OBVIOUS
        <4>3. QED
          BY ONLY <4>1, <4>2
      <3>1. n \in 1 .. k - 1 /\ n < k /\ n \in 1 .. N /\ n # N
        BY ONLY <2>2, <3>0
      <3>2. n + 1 \in 1 .. k
        BY ONLY <3>0, <3>1
      <3>3. /\ LoopEnd(n)' = LoopEnd(n) /\ ScopeEnd(n)' = ScopeEnd(n)
            /\ LoopEnd(n) <= calls[k].loops /\ ScopeEnd(n) <= calls[k].scopes
            /\ LoopEnd(n) \in Nat /\ ScopeEnd(n) \in Nat
        <4>1. LoopEnd(n) = calls[n + 1].loops /\ ScopeEnd(n) = calls[n + 1].scopes
          BY <3>1 DEF LoopEnd, ScopeEnd
        <4>2. LoopEnd(n)' = calls'[n + 1].loops /\ ScopeEnd(n)' = calls'[n + 1].scopes
          BY <3>1 DEF LoopEnd, ScopeEnd
        <4>3. QED
          BY <1>3, <1>4, <1>5, <3>2, <4>1, <4>2
      <3>4. /\ \A j \in 1 .. LoopEnd(n) : j \in 1 .. calls[k].loops
            /\ \A j \in 1 .. ScopeEnd(n) : j \in 1 .. calls[k].scopes
        BY <1>1, <1>4, <3>3, SMTT(30)
      <3>5. n \in DOMAIN calls /\ Right(n) /\ calls'[n] = calls[n]
        BY <1>1, <3>1 DEF StackInv
      <3>6. /\ \A j \in 1 .. LoopEnd(n) : forStack'[j] = forStack[j]
            /\ \A j \in 1 .. ScopeEnd(n) : scopeStack'[j] = scopeStack[j]
            /\ inside'[calls[n].who] = inside[calls[n].who]
        BY <3>1, <3>4
      <3>7. QED
        BY ONLY StackInv, <3>3, <3>5, <3>6, Kept
    <2>3. QED
      BY <2>1, <2>2
  <1>10. QED
    BY <1>2, <1>7, <1>8, <1>9 DEF StackInv

\* The functions that are not active, and what is saved of them, stay.
LEMMA ClosuresStay ==
    ASSUME StackInv, UNCHANGED closure,
           \A f \in Function : closure[f].status # "running" => inside'[f] = inside[f],
           \A f \in Function : (\E n \in DOMAIN calls' : calls'[n].who = f)
                               <=> \E n \in DOMAIN calls : calls[n].who = f
    PROVE  ClosuresRight'
  <1>1. ASSUME NEW f \in Function, closure[f].status = "suspended"
        PROVE  Saved(f)'
    <2>1. Saved(f) /\ inside'[f] = inside[f]
      BY <1>1 DEF StackInv, ClosuresRight
    <2>2. \A c : At(f, c)' = At(f, c)
      BY <2>1 DEF At
    <2>3. QED
      BY <2>1, <2>2 DEF Saved, Lists
  <1>2. QED
    BY <1>1 DEF StackInv, ClosuresRight

-----------------------------------------------------------------------------
(***************************************************************************)
(* A part of a stack that lists a set of depths, in order.                 *)
(***************************************************************************)
Listed(stack, I, f, A) ==
    /\ \A i \in I : stack[i][1] = f /\ stack[i][2] \in A
    /\ \A i, j \in I : i < j => stack[i][2] < stack[j][2]
    /\ \A d \in A : \E i \in I : stack[i][2] = d

LEMMA ListsListed ==
    \A stack, I, f, c : Lists(stack, I, f, c) <=> Listed(stack, I, f, At(f, c))
  BY DEF Lists, Listed

LEMMA ListedSame ==
    ASSUME NEW s, NEW t, NEW I, NEW f, NEW A, Listed(s, I, f, A),
           \A j \in I : t[j] = s[j]
    PROVE  Listed(t, I, f, A)
  BY DEF Listed

LEMMA ListedGrows ==
    ASSUME NEW s, NEW t, NEW a \in Nat, NEW b \in Nat, a <= b + 1, NEW f, NEW d \in Nat,
           NEW A \in SUBSET (1 .. d), Listed(s, a .. b, f, A),
           \A j \in a .. b : t[j] = s[j], t[b + 1] = <<f, d + 1>>
    PROVE  Listed(t, a .. b + 1, f, A \cup {d + 1})
  <1>1. \A j \in a .. b + 1 : j \in a .. b \/ j = b + 1
    OBVIOUS
  <1>2. \A j \in a .. b : j \in a .. b + 1 /\ j < b + 1
    OBVIOUS
  <1>3. b + 1 \in a .. b + 1
    OBVIOUS
  <1>4. \A x \in A : x \in Nat /\ x < d + 1
    OBVIOUS
  <1>5. \A i, j \in a .. b + 1 : i < j => t[i][2] < t[j][2]
    <2> SUFFICES ASSUME NEW i \in a .. b + 1, NEW j \in a .. b + 1, i < j
                 PROVE  t[i][2] < t[j][2]
      OBVIOUS
    <2>1. i \in a .. b
      OBVIOUS
    <2>2. CASE j \in a .. b
      BY <2>1, <2>2 DEF Listed
    <2>3. CASE j = b + 1
      <3>1. t[i][2] = s[i][2] /\ s[i][2] \in A /\ t[j][2] = d + 1
        BY <2>1, <2>3 DEF Listed
      <3>2. QED
        BY <1>4, <3>1
    <2>4. QED
      BY <1>1, <2>2, <2>3
  <1>6. QED
    BY <1>1, <1>2, <1>3, <1>5 DEF Listed

LEMMA ListedShrinks ==
    ASSUME NEW s, NEW a \in Nat, NEW b \in Nat, a <= b + 1, NEW f, NEW d \in Nat,
           NEW A \in SUBSET (1 .. d), d \in A, Listed(s, a .. b, f, A)
    PROVE  /\ a <= b /\ s[b][2] = d
           /\ Listed(s, a .. b - 1, f, A \ {d})
  <1>1. PICK i \in a .. b : s[i][2] = d
    BY DEF Listed
  <1>2. b \in a .. b
    OBVIOUS
  <1>3. i = b
    <2> SUFFICES ASSUME i < b
                 PROVE  FALSE
      OBVIOUS
    <2>1. s[i][2] < s[b][2] /\ s[b][2] \in A
      BY <1>2 DEF Listed
    <2>2. \A x \in A : x \in Nat /\ x <= d
      OBVIOUS
    <2>3. PICK x : x = s[b][2]
      OBVIOUS
    <2>4. d < x /\ x \in Nat /\ x <= d
      BY <1>1, <2>1, <2>2, <2>3
    <2>5. QED
      BY <2>4
  <1>4. \A j \in a .. b - 1 : j \in a .. b /\ j < b
    OBVIOUS
  <1>5. \A j \in a .. b : j # b => j \in a .. b - 1
    OBVIOUS
  <1>6. \A j \in a .. b - 1 : s[j][2] < d /\ s[j][2] \in A
    BY <1>1, <1>2, <1>3, <1>4 DEF Listed
  <1>7. \A x \in A : x \in Nat
    OBVIOUS
  <1>8. Listed(s, a .. b - 1, f, A \ {d})
    BY <1>1, <1>3, <1>4, <1>5, <1>6, <1>7 DEF Listed
  <1>9. QED
    BY <1>1, <1>2, <1>3, <1>8

LEMMA ListedCut ==
    ASSUME NEW s, NEW a \in Nat, NEW b \in Nat, NEW e \in Nat, e <= b, NEW f, NEW k \in Nat,
           NEW A, NEW B, B = {d \in A : d < k}, Listed(s, a .. b, f, A),
           \A j \in a .. b : j <= e <=> s[j][2] < k
    PROVE  Listed(s, a .. e, f, B)
  <1>1. \A j \in a .. e : j \in a .. b /\ j <= e
    OBVIOUS
  <1>2. \A j \in a .. b : j <= e => j \in a .. e
    OBVIOUS
  <1>3. QED
    BY <1>1, <1>2 DEF Listed

LEMMA ListedShifts ==
    ASSUME NEW s, NEW t, NEW a \in Nat, NEW b \in Nat, NEW o \in Int, NEW f, NEW A,
           Listed(s, a .. b, f, A),
           \A j \in a .. b : t[j + o] = s[j]
    PROVE  Listed(t, a + o .. b + o, f, A)
  <1>1. \A j \in a + o .. b + o : j - o \in a .. b /\ t[j] = s[j - o]
    <2> TAKE j \in a + o .. b + o
    <2>1. j - o \in a .. b /\ (j - o) + o = j
      OBVIOUS
    <2>2. QED
      BY <2>1
  <1>2. \A i, j \in a + o .. b + o : i < j => i - o < j - o
    OBVIOUS
  <1>3. \A j \in a .. b : j + o \in a + o .. b + o
    OBVIOUS
  <1>4. \A i \in a + o .. b + o : t[i][1] = f /\ t[i][2] \in A
    BY <1>1 DEF Listed
  <1>5. \A i, j \in a + o .. b + o : i < j => t[i][2] < t[j][2]
    <2> TAKE i, j \in a + o .. b + o
    <2>1. /\ t[i] = s[i - o] /\ t[j] = s[j - o]
          /\ i - o \in a .. b /\ j - o \in a .. b
          /\ i < j => i - o < j - o
      BY <1>1, <1>2
    <2>2. QED
      BY <2>1 DEF Listed
  <1>6. \A d \in A : \E i \in a + o .. b + o : t[i][2] = d
    <2> TAKE d \in A
    <2>1. PICK i \in a .. b : s[i][2] = d
      BY DEF Listed
    <2>2. i + o \in a + o .. b + o /\ t[i + o] = s[i]
      BY <1>3
    <2>3. QED
      BY <2>1, <2>2
  <1>7. QED
    BY <1>4, <1>5, <1>6 DEF Listed

\* A listed set has as many elements as its part of the stack has places.
LEMMA ListedCounts ==
    ASSUME NEW s, NEW a \in Nat, NEW b \in Nat, a <= b + 1, NEW f,
           NEW A \in SUBSET Nat, Listed(s, a .. b, f, A)
    PROVE  IsFiniteSet(A) /\ Cardinality(A) = b + 1 - a
  <1> DEFINE g == [i \in a .. b |-> s[i][2]]
  <1>1. g \in Surjection(a .. b, A)
    BY DEF Listed, Surjection
  <1>2. \A i, j \in a .. b : i # j => g[i] # g[j]
    <2> SUFFICES ASSUME NEW i \in a .. b, NEW j \in a .. b, i # j
                 PROVE  g[i] # g[j]
      OBVIOUS
    <2>1. i < j \/ j < i
      OBVIOUS
    <2>2. s[i][2] \in Nat /\ s[j][2] \in Nat
      BY DEF Listed
    <2>3. s[i][2] # s[j][2]
      BY <2>1, <2>2 DEF Listed
    <2>4. QED
      BY <2>3
  <1>3. g \in Injection(a .. b, A)
    BY <1>1, <1>2 DEF Injection, Surjection, IsInjective
  <1>4. IsFiniteSet(a .. b) /\ Cardinality(a .. b) = b + 1 - a
    <2>1. Cardinality(a .. b) = IF a > b THEN 0 ELSE b - a + 1
      BY FS_Interval
    <2>2. QED
      BY <2>1, FS_Interval
  <1> HIDE DEF g
  <1>5. QED
    BY <1>1, <1>3, <1>4, FS_Surjection

LEMMA FitsGrow ==
    ASSUME NEW tries, NEW sizes, NEW s, NEW t, NEW a \in Nat, NEW e \in Nat, NEW d \in Nat,
           Fits(tries, sizes, s, a, e), \A j \in a .. e : t[j] = s[j], t[e + 1][2] = d + 1,
           \A i \in DOMAIN tries : tries[i].at \in 1 .. d
    PROVE  Fits(tries, sizes, t, a, e + 1)
  <1> SUFFICES ASSUME NEW i \in DOMAIN tries
               PROVE  /\ sizes[i] \in a - 1 .. e + 1
                      /\ \A j \in a .. e + 1 : j <= sizes[i] <=> t[j][2] < tries[i].at
    BY DEF Fits
  <1>1. sizes[i] \in a - 1 .. e /\ tries[i].at \in 1 .. d
    BY DEF Fits
  <1>2. sizes[i] \in a - 1 .. e + 1
    BY <1>1
  <1>3. ASSUME NEW j \in a .. e
        PROVE  j <= sizes[i] <=> t[j][2] < tries[i].at
    BY <1>3 DEF Fits
  <1>4. ~(e + 1 <= sizes[i]) /\ ~(t[e + 1][2] < tries[i].at)
    BY <1>1
  <1>5. \A j \in a .. e + 1 : j \in a .. e \/ j = e + 1
    OBVIOUS
  <1>6. QED
    BY <1>2, <1>3, <1>4, <1>5

LEMMA FitsShrinks ==
    ASSUME NEW tries, NEW sizes, NEW s, NEW a \in Nat, NEW e \in Nat, NEW d \in Nat,
           a <= e, Fits(tries, sizes, s, a, e), s[e][2] = d,
           \A i \in DOMAIN tries : tries[i].at \in 1 .. d
    PROVE  Fits(tries, sizes, s, a, e - 1)
  <1> SUFFICES ASSUME NEW i \in DOMAIN tries
               PROVE  /\ sizes[i] \in a - 1 .. e - 1
                      /\ \A j \in a .. e - 1 : j <= sizes[i] <=> s[j][2] < tries[i].at
    BY DEF Fits
  <1>1. sizes[i] \in a - 1 .. e /\ tries[i].at \in 1 .. d
    BY DEF Fits
  <1>2. e \in a .. e /\ ~(d < tries[i].at)
    BY <1>1
  <1>3. ~(e <= sizes[i])
    BY <1>2 DEF Fits
  <1>4. sizes[i] \in a - 1 .. e - 1
    BY <1>1, <1>3
  <1>5. \A j \in a .. e - 1 : j \in a .. e
    OBVIOUS
  <1>6. QED
    BY <1>4, <1>5 DEF Fits

LEMMA FitsSame ==
    ASSUME NEW tries, NEW sizes, NEW s, NEW t, NEW a, NEW e,
           Fits(tries, sizes, s, a, e), \A j \in a .. e : t[j] = s[j]
    PROVE  Fits(tries, sizes, t, a, e)
  BY DEF Fits

-----------------------------------------------------------------------------
(***************************************************************************)
(* One activation, apart from the machine: f with its loops from a + 1 on  *)
(* in F, its scopes from b + 1 on in S, and its handlers, in its body.     *)
(***************************************************************************)
Kind(body, c) == {d \in DOMAIN body : body[d] = c}

Parts(F, S, body, f, a, b, tr) ==
    /\ F \in Seq(Mark) /\ S \in Seq(Mark) /\ tr \in Seq(Handler) /\ f \in Body
    /\ body \in Seq(Construct) /\ Len(body) <= Depth
    /\ a \in Nat /\ b \in Nat /\ a <= Len(F) /\ b < Len(S)
    /\ Listed(F, a + 1 .. Len(F), f, Kind(body, "foreach"))
    /\ S[b + 1] = <<f, 0>>
    /\ Listed(S, b + 2 .. Len(S), f, Kind(body, "block"))
    /\ Listed(Depths(tr, f), DOMAIN tr, f, Kind(body, "try"))
    /\ Fits(tr, LoopSizes(tr), F, a + 1, Len(F))
    /\ Fits(tr, ScopeSizes(tr), S, b + 2, Len(S))

LEMMA KindIn ==
    ASSUME NEW body \in Seq(Construct), NEW c
    PROVE  Kind(body, c) \in SUBSET (1 .. Len(body))
  BY DEF Kind

LEMMA KindBegins ==
    ASSUME NEW body \in Seq(Construct), NEW c \in Construct
    PROVE  /\ Append(body, c) \in Seq(Construct) /\ Len(Append(body, c)) = Len(body) + 1
           /\ Kind(Append(body, c), c) = Kind(body, c) \cup {Len(body) + 1}
           /\ \A x : x # c => Kind(Append(body, c), x) = Kind(body, x)
  <1>1. PICK d \in Nat : d = Len(body)
    OBVIOUS
  <1>0. Append(body, c) \in Seq(Construct)
    OBVIOUS
  <1>2. PICK longer \in Seq(Construct) : longer = Append(body, c)
    BY <1>0
  <1>3. /\ Len(longer) = d + 1 /\ DOMAIN longer = 1 .. d + 1 /\ DOMAIN body = 1 .. d
        /\ longer[d + 1] = c /\ \A i \in 1 .. d : longer[i] = body[i]
    BY <1>1, <1>2
  <1>4. \A i : i \in 1 .. d + 1 <=> i \in 1 .. d \/ i = d + 1
    OBVIOUS
  <1>5. Kind(longer, c) = Kind(body, c) \cup {d + 1}
    BY <1>3, <1>4 DEF Kind
  <1>6. ASSUME NEW x, x # c
        PROVE  Kind(longer, x) = Kind(body, x)
    BY <1>3, <1>4, <1>6 DEF Kind
  <1>7. QED
    BY <1>1, <1>2, <1>3, <1>5, <1>6

LEMMA KindEnds ==
    ASSUME NEW body \in Seq(Construct), NEW c, Len(body) > 0, Last(body) = c
    PROVE  /\ Front(body) \in Seq(Construct) /\ Len(Front(body)) = Len(body) - 1
           /\ Len(body) \in Kind(body, c)
           /\ Kind(Front(body), c) = Kind(body, c) \ {Len(body)}
           /\ \A x : x # c => Kind(Front(body), x) = Kind(body, x)
  <1>1. PICK d \in Nat : d = Len(body)
    OBVIOUS
  <1>0. Front(body) \in Seq(Construct)
    BY <1>1 DEF Front
  <1>2. PICK less \in Seq(Construct) : less = Front(body)
    BY <1>0
  <1>3. /\ Len(less) = d - 1 /\ DOMAIN less = 1 .. d - 1 /\ DOMAIN body = 1 .. d
        /\ body[d] = c /\ \A i \in 1 .. d - 1 : less[i] = body[i]
    BY <1>1, <1>2 DEF Front, Last
  <1>4. /\ \A i : i \in 1 .. d <=> i \in 1 .. d - 1 \/ i = d
        /\ d \notin 1 .. d - 1
    BY <1>1
  <1>5. d \in Kind(body, c) /\ Kind(less, c) = Kind(body, c) \ {d}
    BY <1>3, <1>4 DEF Kind
  <1>6. ASSUME NEW x, x # c
        PROVE  Kind(less, x) = Kind(body, x)
    BY <1>3, <1>4, <1>6 DEF Kind
  <1>7. QED
    BY <1>1, <1>2, <1>3, <1>5, <1>6

\* The handlers are in the body.
LEMMA TriesInside ==
    ASSUME NEW F, NEW S, NEW body, NEW f, NEW a, NEW b, NEW tr, Parts(F, S, body, f, a, b, tr)
    PROVE  \A i \in DOMAIN tr : tr[i].at \in Kind(body, "try") /\ tr[i].at \in 1 .. Len(body)
  <1>1. Listed(Depths(tr, f), DOMAIN tr, f, Kind(body, "try"))
    BY DEF Parts
  <1>2. \A i \in DOMAIN tr : Depths(tr, f)[i][2] = tr[i].at
    BY DEF Depths
  <1>3. Kind(body, "try") \in SUBSET (1 .. Len(body))
    BY KindIn DEF Parts
  <1>4. QED
    BY <1>1, <1>2, <1>3 DEF Listed

\* A stack whose marks from a on are those of A, and f's, with the handlers
\* it fits; its body is d deep.
Part(s, a, f, A, tr, sizes, d) ==
    /\ s \in Seq(Mark) /\ a \in Nat /\ 1 <= a /\ a <= Len(s) + 1 /\ f \in Body
    /\ d \in Nat /\ A \in SUBSET (1 .. d) /\ \A i \in DOMAIN tr : tr[i].at \in 1 .. d
    /\ Listed(s, a .. Len(s), f, A) /\ Fits(tr, sizes, s, a, Len(s))

\* A mark goes on top of a stack ...
LEMMA Pushed ==
    ASSUME NEW s, NEW a, NEW f, NEW A, NEW tr, NEW sizes, NEW d, d < Depth,
           Part(s, a, f, A, tr, sizes, d)
    PROVE  Part(Append(s, <<f, d + 1>>), a, f, A \cup {d + 1}, tr, sizes, d + 1)
  <1>0. Len(s) \in Nat
    BY DEF Part
  <1>1. PICK e \in Nat : e = Len(s)
    BY <1>0
  <1>1b. PICK t : t = Append(s, <<f, d + 1>>)
    OBVIOUS
  <1>2. /\ s \in Seq(Mark) /\ a \in Nat /\ 1 <= a /\ a <= e + 1 /\ f \in Body
        /\ d \in Nat /\ A \in SUBSET (1 .. d) /\ \A i \in DOMAIN tr : tr[i].at \in 1 .. d
        /\ Listed(s, a .. e, f, A) /\ Fits(tr, sizes, s, a, e)
    BY <1>1, <1>1b DEF Part
  <1>3. <<f, d + 1>> \in Mark
    BY <1>2, DepthAssumption DEF Mark
  <1>4. /\ t \in Seq(Mark) /\ Len(t) = e + 1 /\ \A j \in 1 .. e : t[j] = s[j]
        /\ t[e + 1] = <<f, d + 1>>
    BY <1>1, <1>1b, <1>2, <1>3
  <1>5. \A j \in a .. e : t[j] = s[j]
    BY <1>2, <1>4
  <1>6. Listed(t, a .. e + 1, f, A \cup {d + 1})
    BY <1>2, <1>4, <1>5, ListedGrows
  <1>7. t[e + 1][2] = d + 1
    BY <1>4
  <1>8. Fits(tr, sizes, t, a, e + 1)
    BY <1>2, <1>5, <1>7, FitsGrow
  <1>9. /\ A \cup {d + 1} \in SUBSET (1 .. d + 1)
        /\ \A i \in DOMAIN tr : tr[i].at \in 1 .. d + 1
    BY <1>2
  <1>10. QED
    BY <1>1, <1>1b, <1>2, <1>4, <1>6, <1>8, <1>9 DEF Part

\* ... or the top one comes off ...
LEMMA Popped ==
    ASSUME NEW s, NEW a, NEW f, NEW A, NEW tr, NEW sizes, NEW d,
           Part(s, a, f, A, tr, sizes, d), d \in A, \A i \in DOMAIN tr : tr[i].at # d
    PROVE  /\ a <= Len(s) /\ Part(Front(s), a, f, A \ {d}, tr, sizes, d - 1)
  <1>0. Len(s) \in Nat
    BY DEF Part
  <1>1. PICK e \in Nat : e = Len(s)
    BY <1>0
  <1>1b. PICK t : t = Front(s)
    OBVIOUS
  <1>2. /\ s \in Seq(Mark) /\ a \in Nat /\ 1 <= a /\ a <= e + 1 /\ f \in Body
        /\ d \in Nat /\ A \in SUBSET (1 .. d) /\ \A i \in DOMAIN tr : tr[i].at \in 1 .. d
        /\ Listed(s, a .. e, f, A) /\ Fits(tr, sizes, s, a, e)
    BY <1>1, <1>1b DEF Part
  <1>3. a <= e /\ s[e][2] = d /\ Listed(s, a .. e - 1, f, A \ {d})
    BY <1>2, ListedShrinks
  <1>4. t \in Seq(Mark) /\ Len(t) = e - 1 /\ \A j \in 1 .. e - 1 : t[j] = s[j]
    BY <1>1, <1>1b, <1>2, <1>3 DEF Front
  <1>5. \A j \in a .. e - 1 : t[j] = s[j]
    BY <1>2, <1>4
  <1>6. Fits(tr, sizes, s, a, e - 1)
    BY <1>2, <1>3, FitsShrinks
  <1>7. Listed(t, a .. e - 1, f, A \ {d})
    BY <1>3, <1>5, ListedSame
  <1>8. Fits(tr, sizes, t, a, e - 1)
    BY <1>5, <1>6, FitsSame
  <1>9. d - 1 \in Nat /\ A \ {d} \in SUBSET (1 .. d - 1) /\ \A i \in DOMAIN tr : tr[i].at \in 1 .. d - 1
    BY <1>2
  <1>10. QED
    BY <1>1, <1>1b, <1>2, <1>3, <1>4, <1>7, <1>8, <1>9 DEF Part

\* ... or it stays and the body grows or shrinks by another construct.
LEMMA Stayed ==
    ASSUME NEW s, NEW a, NEW f, NEW A, NEW tr, NEW sizes, NEW d, Part(s, a, f, A, tr, sizes, d)
    PROVE  /\ Part(s, a, f, A, tr, sizes, d + 1)
           /\ d \notin A /\ d > 0 /\ (\A i \in DOMAIN tr : tr[i].at # d) =>
                 Part(s, a, f, A, tr, sizes, d - 1)
  <1>1. /\ d \in Nat /\ A \in SUBSET (1 .. d) /\ \A i \in DOMAIN tr : tr[i].at \in 1 .. d
    BY DEF Part
  <1>2. /\ d + 1 \in Nat /\ A \in SUBSET (1 .. d + 1) /\ \A i \in DOMAIN tr : tr[i].at \in 1 .. d + 1
    BY <1>1
  <1>3. Part(s, a, f, A, tr, sizes, d + 1)
    BY <1>2 DEF Part
  <1>4. ASSUME d \notin A, d > 0, \A i \in DOMAIN tr : tr[i].at # d
        PROVE  Part(s, a, f, A, tr, sizes, d - 1)
    <2>1. d - 1 \in Nat /\ A \in SUBSET (1 .. d - 1) /\ \A i \in DOMAIN tr : tr[i].at \in 1 .. d - 1
      BY <1>1, <1>4
    <2>2. QED
      BY <2>1 DEF Part
  <1>5. QED
    BY <1>3, <1>4

\* The two views of an activation.
LEMMA TwoParts ==
    ASSUME NEW F, NEW S, NEW body, NEW f, NEW a, NEW b, NEW tr
    PROVE  Parts(F, S, body, f, a, b, tr) <=>
               /\ body \in Seq(Construct) /\ Len(body) <= Depth /\ tr \in Seq(Handler)
               /\ a \in Nat /\ b \in Nat /\ b < Len(S) /\ S[b + 1] = <<f, 0>>
               /\ Part(F, a + 1, f, Kind(body, "foreach"), tr, LoopSizes(tr), Len(body))
               /\ Part(S, b + 2, f, Kind(body, "block"), tr, ScopeSizes(tr), Len(body))
               /\ Listed(Depths(tr, f), DOMAIN tr, f, Kind(body, "try"))
  <1>1. ASSUME Parts(F, S, body, f, a, b, tr)
        PROVE  /\ body \in Seq(Construct) /\ Len(body) <= Depth /\ tr \in Seq(Handler)
               /\ a \in Nat /\ b \in Nat /\ b < Len(S) /\ S[b + 1] = <<f, 0>>
               /\ Part(F, a + 1, f, Kind(body, "foreach"), tr, LoopSizes(tr), Len(body))
               /\ Part(S, b + 2, f, Kind(body, "block"), tr, ScopeSizes(tr), Len(body))
               /\ Listed(Depths(tr, f), DOMAIN tr, f, Kind(body, "try"))
    <2>1. /\ a + 1 \in Nat /\ 1 <= a + 1 /\ a + 1 <= Len(F) + 1 /\ Len(body) \in Nat
          /\ b + 2 \in Nat /\ 1 <= b + 2 /\ b + 2 <= Len(S) + 1
      BY <1>1 DEF Parts
    <2>2. \A i \in DOMAIN tr : tr[i].at \in 1 .. Len(body)
      BY <1>1, TriesInside
    <2>3. \A c : Kind(body, c) \in SUBSET (1 .. Len(body))
      BY <1>1, KindIn DEF Parts
    <2>4. QED
      BY <1>1, <2>1, <2>2, <2>3 DEF Parts, Part
  <1>2. ASSUME /\ body \in Seq(Construct) /\ Len(body) <= Depth /\ tr \in Seq(Handler)
               /\ a \in Nat /\ b \in Nat /\ b < Len(S) /\ S[b + 1] = <<f, 0>>
               /\ Part(F, a + 1, f, Kind(body, "foreach"), tr, LoopSizes(tr), Len(body))
               /\ Part(S, b + 2, f, Kind(body, "block"), tr, ScopeSizes(tr), Len(body))
               /\ Listed(Depths(tr, f), DOMAIN tr, f, Kind(body, "try"))
        PROVE  Parts(F, S, body, f, a, b, tr)
    <2>1. F \in Seq(Mark) /\ a + 1 <= Len(F) + 1
      BY <1>2 DEF Part
    <2>2. a <= Len(F)
      BY <1>2, <2>1
    <2>3. QED
      BY <1>2, <2>1, <2>2 DEF Parts, Part
  <1>3. QED
    BY <1>1, <1>2

-----------------------------------------------------------------------------
(***************************************************************************)
(* What each construct does to one activation.                             *)
(***************************************************************************)
LEMMA BlockBegins ==
    ASSUME NEW F, NEW S, NEW body, NEW f, NEW a, NEW b, NEW tr, Parts(F, S, body, f, a, b, tr),
           Len(body) < Depth
    PROVE  Parts(F, Append(S, <<f, Len(body) + 1>>), Append(body, "block"), f, a, b, tr)
  <1>1. PICK d, t, longer : /\ d = Len(body) /\ t = Append(S, <<f, d + 1>>)
                            /\ longer = Append(body, "block")
    OBVIOUS
  <1>2. /\ body \in Seq(Construct) /\ Len(body) <= Depth /\ tr \in Seq(Handler)
        /\ a \in Nat /\ b \in Nat /\ b < Len(S) /\ S[b + 1] = <<f, 0>> /\ d < Depth
        /\ Part(F, a + 1, f, Kind(body, "foreach"), tr, LoopSizes(tr), d)
        /\ Part(S, b + 2, f, Kind(body, "block"), tr, ScopeSizes(tr), d)
        /\ Listed(Depths(tr, f), DOMAIN tr, f, Kind(body, "try"))
    BY <1>1, TwoParts
  <1>3. "block" \in Construct
    BY DEF Construct
  <1>4. /\ longer \in Seq(Construct) /\ Len(longer) = d + 1
        /\ Kind(longer, "block") = Kind(body, "block") \cup {d + 1}
        /\ Kind(longer, "foreach") = Kind(body, "foreach") /\ Kind(longer, "try") = Kind(body, "try")
    BY <1>1, <1>2, <1>3, KindBegins
  <1>5. /\ Part(t, b + 2, f, Kind(longer, "block"), tr, ScopeSizes(tr), d + 1)
        /\ Part(F, a + 1, f, Kind(longer, "foreach"), tr, LoopSizes(tr), d + 1)
    <2>1. Part(Append(S, <<f, d + 1>>), b + 2, f, Kind(body, "block") \cup {d + 1}, tr,
               ScopeSizes(tr), d + 1)
      BY ONLY <1>2, Pushed, Zenon
    <2>2. Part(F, a + 1, f, Kind(body, "foreach"), tr, LoopSizes(tr), d + 1)
      BY ONLY <1>2, Stayed, Zenon
    <2>3. QED
      BY ONLY <1>1, <1>4, <2>1, <2>2
  <1>6. S \in Seq(Mark) /\ <<f, d + 1>> \in Mark /\ d \in Nat
    BY <1>2, DepthAssumption, SMTT(30) DEF Part, Mark
  <1>7. Len(t) = Len(S) + 1 /\ t[b + 1] = S[b + 1] /\ d + 1 <= Depth
    BY <1>1, <1>2, <1>6, DepthAssumption
  <1>8. b < Len(t)
    BY <1>2, <1>6, <1>7
  <1>9. Parts(F, t, longer, f, a, b, tr)
    BY <1>2, <1>4, <1>5, <1>7, <1>8, TwoParts
  <1>10. QED
    BY <1>1, <1>9

LEMMA LoopBegins ==
    ASSUME NEW F, NEW S, NEW body, NEW f, NEW a, NEW b, NEW tr, Parts(F, S, body, f, a, b, tr),
           Len(body) < Depth
    PROVE  Parts(Append(F, <<f, Len(body) + 1>>), S, Append(body, "foreach"), f, a, b, tr)
  <1>1. PICK d, t, longer : /\ d = Len(body) /\ t = Append(F, <<f, d + 1>>)
                            /\ longer = Append(body, "foreach")
    OBVIOUS
  <1>2. /\ body \in Seq(Construct) /\ Len(body) <= Depth /\ tr \in Seq(Handler)
        /\ a \in Nat /\ b \in Nat /\ b < Len(S) /\ S[b + 1] = <<f, 0>> /\ d < Depth
        /\ Part(F, a + 1, f, Kind(body, "foreach"), tr, LoopSizes(tr), d)
        /\ Part(S, b + 2, f, Kind(body, "block"), tr, ScopeSizes(tr), d)
        /\ Listed(Depths(tr, f), DOMAIN tr, f, Kind(body, "try"))
    BY <1>1, TwoParts
  <1>3. "foreach" \in Construct
    BY DEF Construct
  <1>4. /\ longer \in Seq(Construct) /\ Len(longer) = d + 1
        /\ Kind(longer, "foreach") = Kind(body, "foreach") \cup {d + 1}
        /\ Kind(longer, "block") = Kind(body, "block") /\ Kind(longer, "try") = Kind(body, "try")
    BY <1>1, <1>2, <1>3, KindBegins
  <1>5. /\ Part(t, a + 1, f, Kind(longer, "foreach"), tr, LoopSizes(tr), d + 1)
        /\ Part(S, b + 2, f, Kind(longer, "block"), tr, ScopeSizes(tr), d + 1)
    <2>1. Part(Append(F, <<f, d + 1>>), a + 1, f, Kind(body, "foreach") \cup {d + 1}, tr,
               LoopSizes(tr), d + 1)
      BY ONLY <1>2, Pushed, Zenon
    <2>2. Part(S, b + 2, f, Kind(body, "block"), tr, ScopeSizes(tr), d + 1)
      BY ONLY <1>2, Stayed, Zenon
    <2>3. QED
      BY ONLY <1>1, <1>4, <2>1, <2>2
  <1>6. d \in Nat /\ d + 1 <= Depth
    BY <1>1, <1>2, DepthAssumption
  <1>7. Parts(t, S, longer, f, a, b, tr)
    BY <1>2, <1>4, <1>5, <1>6, TwoParts
  <1>8. QED
    BY <1>1, <1>7

\* The construct that ends is no try: the handlers are of others.
LEMMA OthersTries ==
    ASSUME NEW F, NEW S, NEW body, NEW f, NEW a, NEW b, NEW tr, Parts(F, S, body, f, a, b, tr),
           NEW c, c # "try", NEW d \in Kind(body, c)
    PROVE  \A i \in DOMAIN tr : tr[i].at # d
  <1>1. \A i \in DOMAIN tr : tr[i].at \in Kind(body, "try")
    BY TriesInside
  <1>2. QED
    BY <1>1 DEF Kind

LEMMA BlockEnds ==
    ASSUME NEW F, NEW S, NEW body, NEW f, NEW a, NEW b, NEW tr, Parts(F, S, body, f, a, b, tr),
           Len(body) > 0, Last(body) = "block"
    PROVE  /\ Parts(F, Front(S), Front(body), f, a, b, tr)
           /\ b + 2 <= Len(S)
  <1>1. PICK d, t, less : d = Len(body) /\ t = Front(S) /\ less = Front(body)
    OBVIOUS
  <1>2. /\ body \in Seq(Construct) /\ Len(body) <= Depth /\ tr \in Seq(Handler)
        /\ a \in Nat /\ b \in Nat /\ b < Len(S) /\ S[b + 1] = <<f, 0>> /\ d > 0
        /\ Part(F, a + 1, f, Kind(body, "foreach"), tr, LoopSizes(tr), d)
        /\ Part(S, b + 2, f, Kind(body, "block"), tr, ScopeSizes(tr), d)
        /\ Listed(Depths(tr, f), DOMAIN tr, f, Kind(body, "try"))
    BY <1>1, TwoParts
  <1>3. /\ less \in Seq(Construct) /\ Len(less) = d - 1 /\ d \in Kind(body, "block")
        /\ Kind(less, "block") = Kind(body, "block") \ {d}
        /\ Kind(less, "foreach") = Kind(body, "foreach") /\ Kind(less, "try") = Kind(body, "try")
    BY <1>1, <1>2, KindEnds
  <1>4. \A i \in DOMAIN tr : tr[i].at # d
    BY <1>3, OthersTries
  <1>5. d \notin Kind(body, "foreach")
    BY <1>3 DEF Kind
  <1>6. /\ b + 2 <= Len(S) /\ Part(t, b + 2, f, Kind(less, "block"), tr, ScopeSizes(tr), d - 1)
    <2>1. /\ b + 2 <= Len(S)
          /\ Part(Front(S), b + 2, f, Kind(body, "block") \ {d}, tr, ScopeSizes(tr), d - 1)
      BY ONLY <1>2, <1>3, <1>4, Popped, Zenon
    <2>2. QED
      BY ONLY <1>1, <1>3, <2>1
  <1>7. Part(F, a + 1, f, Kind(less, "foreach"), tr, LoopSizes(tr), d - 1)
    BY <1>2, <1>3, <1>4, <1>5, Stayed
  <1>8. S \in Seq(Mark) /\ d \in Nat /\ d - 1 <= Depth
    BY <1>1, <1>2, DepthAssumption DEF Part
  <1>9. Len(t) = Len(S) - 1 /\ t[b + 1] = S[b + 1]
    BY <1>1, <1>2, <1>6, <1>8 DEF Front
  <1>10. b < Len(t)
    BY <1>2, <1>6, <1>8, <1>9
  <1>11. Parts(F, t, less, f, a, b, tr)
    BY <1>2, <1>3, <1>6, <1>7, <1>8, <1>9, <1>10, TwoParts
  <1>12. QED
    BY <1>1, <1>6, <1>11

LEMMA LoopEnds ==
    ASSUME NEW F, NEW S, NEW body, NEW f, NEW a, NEW b, NEW tr, Parts(F, S, body, f, a, b, tr),
           Len(body) > 0, Last(body) = "foreach"
    PROVE  /\ Parts(Front(F), S, Front(body), f, a, b, tr)
           /\ a + 1 <= Len(F)
  <1>1. PICK d, t, less : d = Len(body) /\ t = Front(F) /\ less = Front(body)
    OBVIOUS
  <1>2. /\ body \in Seq(Construct) /\ Len(body) <= Depth /\ tr \in Seq(Handler)
        /\ a \in Nat /\ b \in Nat /\ b < Len(S) /\ S[b + 1] = <<f, 0>> /\ d > 0
        /\ Part(F, a + 1, f, Kind(body, "foreach"), tr, LoopSizes(tr), d)
        /\ Part(S, b + 2, f, Kind(body, "block"), tr, ScopeSizes(tr), d)
        /\ Listed(Depths(tr, f), DOMAIN tr, f, Kind(body, "try"))
    BY <1>1, TwoParts
  <1>3. /\ less \in Seq(Construct) /\ Len(less) = d - 1 /\ d \in Kind(body, "foreach")
        /\ Kind(less, "foreach") = Kind(body, "foreach") \ {d}
        /\ Kind(less, "block") = Kind(body, "block") /\ Kind(less, "try") = Kind(body, "try")
    BY <1>1, <1>2, KindEnds
  <1>4. \A i \in DOMAIN tr : tr[i].at # d
    BY <1>3, OthersTries
  <1>5. d \notin Kind(body, "block")
    BY <1>3 DEF Kind
  <1>6. /\ a + 1 <= Len(F) /\ Part(t, a + 1, f, Kind(less, "foreach"), tr, LoopSizes(tr), d - 1)
    <2>1. /\ a + 1 <= Len(F)
          /\ Part(Front(F), a + 1, f, Kind(body, "foreach") \ {d}, tr, LoopSizes(tr), d - 1)
      BY ONLY <1>2, <1>3, <1>4, Popped, Zenon
    <2>2. QED
      BY ONLY <1>1, <1>3, <2>1
  <1>7. Part(S, b + 2, f, Kind(less, "block"), tr, ScopeSizes(tr), d - 1)
    BY <1>2, <1>3, <1>4, <1>5, Stayed
  <1>8. d \in Nat /\ d - 1 <= Depth
    BY <1>1, <1>2, DepthAssumption
  <1>9. Parts(t, S, less, f, a, b, tr)
    BY <1>2, <1>3, <1>6, <1>7, <1>8, TwoParts
  <1>10. QED
    BY <1>1, <1>6, <1>9

\* A handler remembers how high a stack is ...
LEMMA Remembered ==
    ASSUME NEW s, NEW a, NEW f, NEW A, NEW tr \in Seq(Handler), NEW sizes, NEW d,
           Part(s, a, f, A, tr, sizes, d),
           NEW h \in Handler, h.at = d + 1, NEW more, more = Append(tr, h),
           NEW others, others[Len(tr) + 1] = Len(s), \A i \in 1 .. Len(tr) : others[i] = sizes[i]
    PROVE  Part(s, a, f, A, more, others, d + 1)
  <1>1. /\ s \in Seq(Mark) /\ a \in Nat /\ 1 <= a /\ a <= Len(s) + 1 /\ f \in Body /\ Len(s) \in Nat
        /\ d \in Nat /\ A \in SUBSET (1 .. d) /\ \A i \in DOMAIN tr : tr[i].at \in 1 .. d
        /\ Listed(s, a .. Len(s), f, A) /\ Fits(tr, sizes, s, a, Len(s))
    BY DEF Part
  <1>2. PICK n \in Nat, e \in Nat : n = Len(tr) /\ e = Len(s)
    BY <1>1
  <1>3. /\ DOMAIN more = 1 .. n + 1 /\ DOMAIN tr = 1 .. n /\ more[n + 1] = h
        /\ \A i \in 1 .. n : more[i] = tr[i]
    BY <1>2
  <1>4. \A i \in 1 .. n + 1 : i \in 1 .. n \/ i = n + 1
    BY <1>2
  <1>5. ASSUME NEW i \in 1 .. n
        PROVE  /\ others[i] \in a - 1 .. e /\ more[i].at \in 1 .. d + 1
               /\ \A j \in a .. e : j <= others[i] <=> s[j][2] < more[i].at
    <2>1. i \in DOMAIN tr /\ others[i] = sizes[i] /\ more[i] = tr[i]
      BY <1>2, <1>3
    <2>2. sizes[i] \in a - 1 .. e /\ \A j \in a .. e : j <= sizes[i] <=> s[j][2] < tr[i].at
      BY <1>1, <1>2, <2>1 DEF Fits
    <2>3. tr[i].at \in 1 .. d + 1
      BY <1>1, <2>1
    <2>4. QED
      BY <2>1, <2>2, <2>3
  <1>6. /\ others[n + 1] \in a - 1 .. e /\ more[n + 1].at \in 1 .. d + 1
        /\ \A j \in a .. e : j <= others[n + 1] <=> s[j][2] < more[n + 1].at
    <2>1. others[n + 1] = e /\ more[n + 1].at = d + 1
      BY <1>2, <1>3
    <2>2. ASSUME NEW j \in a .. e
          PROVE  j <= e /\ s[j][2] < d + 1
      <3>1. s[j][2] \in A
        BY <1>1, <1>2 DEF Listed
      <3>2. s[j][2] \in 1 .. d
        BY <1>1, <3>1
      <3>3. PICK x : x = s[j][2]
        OBVIOUS
      <3>4. QED
        BY <1>1, <1>2, <3>2, <3>3
    <2>3. QED
      BY <1>1, <1>2, <2>1, <2>2
  <1>7. \A i \in DOMAIN more : more[i].at \in 1 .. d + 1
    BY <1>3, <1>4, <1>5, <1>6
  <1>8. Fits(more, others, s, a, e)
    BY <1>3, <1>4, <1>5, <1>6 DEF Fits
  <1>9. d + 1 \in Nat /\ A \in SUBSET (1 .. d + 1)
    BY <1>1
  <1>10. QED
    BY <1>1, <1>2, <1>7, <1>8, <1>9 DEF Part

\* ... and its try is the innermost.
LEMMA TriesInOrder ==
    ASSUME NEW F, NEW S, NEW body, NEW f, NEW a, NEW b, NEW tr, Parts(F, S, body, f, a, b, tr)
    PROVE  \A i, j \in 1 .. Len(tr) : i < j => tr[i].at < tr[j].at
  <1>1. Listed(Depths(tr, f), DOMAIN tr, f, Kind(body, "try")) /\ DOMAIN tr = 1 .. Len(tr)
    BY DEF Parts
  <1>2. \A i \in DOMAIN tr : Depths(tr, f)[i][2] = tr[i].at
    BY DEF Depths
  <1>3. QED
    BY <1>1, <1>2 DEF Listed

LEMMA TryBegins ==
    ASSUME NEW F, NEW S, NEW body, NEW f, NEW a, NEW b, NEW tr, Parts(F, S, body, f, a, b, tr),
           Len(body) < Depth
    PROVE  Parts(F, S, Append(body, "try"), f, a, b,
                 Append(tr, [at |-> Len(body) + 1, loops |-> Len(F), scopes |-> Len(S)]))
  <1>1. PICK d, h, more, longer :
             /\ d = Len(body) /\ h = [at |-> d + 1, loops |-> Len(F), scopes |-> Len(S)]
             /\ more = Append(tr, h) /\ longer = Append(body, "try")
    OBVIOUS
  <1>2. /\ body \in Seq(Construct) /\ Len(body) <= Depth /\ tr \in Seq(Handler)
        /\ a \in Nat /\ b \in Nat /\ b < Len(S) /\ S[b + 1] = <<f, 0>> /\ d < Depth
        /\ Part(F, a + 1, f, Kind(body, "foreach"), tr, LoopSizes(tr), d)
        /\ Part(S, b + 2, f, Kind(body, "block"), tr, ScopeSizes(tr), d)
        /\ Listed(Depths(tr, f), DOMAIN tr, f, Kind(body, "try"))
    BY <1>1, TwoParts
  <1>3. "try" \in Construct
    BY DEF Construct
  <1>4. /\ longer \in Seq(Construct) /\ Len(longer) = d + 1
        /\ Kind(longer, "try") = Kind(body, "try") \cup {d + 1}
        /\ Kind(longer, "foreach") = Kind(body, "foreach")
        /\ Kind(longer, "block") = Kind(body, "block")
    BY <1>1, <1>2, <1>3, KindBegins
  <1>5. /\ d \in Nat /\ d + 1 \in 1 .. Depth /\ F \in Seq(Mark) /\ S \in Seq(Mark)
        /\ Kind(body, "try") \in SUBSET (1 .. d)
    BY <1>1, <1>2, DepthAssumption, KindIn, SMTT(30) DEF Part
  <1>6. h \in Handler /\ h.at = d + 1 /\ h.loops = Len(F) /\ h.scopes = Len(S)
    BY <1>1, <1>5 DEF Handler
  <1>7. PICK n \in Nat : n = Len(tr)
    BY <1>2
  <1>8. /\ more \in Seq(Handler) /\ DOMAIN more = 1 .. n + 1 /\ DOMAIN tr = 1 .. n
        /\ more[n + 1] = h /\ \A i \in 1 .. n : more[i] = tr[i]
    BY <1>1, <1>2, <1>6, <1>7
  <1>9. /\ LoopSizes(more)[n + 1] = Len(F) /\ ScopeSizes(more)[n + 1] = Len(S)
        /\ \A i \in 1 .. n : /\ LoopSizes(more)[i] = LoopSizes(tr)[i]
                             /\ ScopeSizes(more)[i] = ScopeSizes(tr)[i]
    <2>1. n + 1 \in DOMAIN more /\ \A i \in 1 .. n : i \in DOMAIN more
      BY <1>7, <1>8
    <2>2. QED
      BY <1>6, <1>8, <2>1 DEF LoopSizes, ScopeSizes
  <1>10. Part(F, a + 1, f, Kind(body, "foreach"), more, LoopSizes(more), d + 1)
    <2>1. /\ LoopSizes(more)[Len(tr) + 1] = Len(F)
          /\ \A i \in 1 .. Len(tr) : LoopSizes(more)[i] = LoopSizes(tr)[i]
      BY <1>7, <1>9
    <2>2. QED
      BY ONLY <1>1, <1>2, <1>6, <2>1, Remembered, ZenonT(40)
  <1>11. Part(S, b + 2, f, Kind(body, "block"), more, ScopeSizes(more), d + 1)
    <2>1. /\ ScopeSizes(more)[Len(tr) + 1] = Len(S)
          /\ \A i \in 1 .. Len(tr) : ScopeSizes(more)[i] = ScopeSizes(tr)[i]
      BY <1>7, <1>9
    <2>2. /\ tr \in Seq(Handler) /\ h \in Handler /\ h.at = d + 1 /\ more = Append(tr, h)
          /\ Part(S, b + 2, f, Kind(body, "block"), tr, ScopeSizes(tr), d)
      BY <1>1, <1>2, <1>6
    <2>3. QED
      BY ONLY <2>1, <2>2, Remembered, Zenon
  <1>12. Listed(Depths(more, f), 1 .. n + 1, f, Kind(body, "try") \cup {d + 1})
    <2>0. PICK A \in SUBSET (1 .. d) : A = Kind(body, "try")
      BY <1>5
    <2>1. PICK one \in Nat : one = 1
      OBVIOUS
    <2>1b. PICK s, t : s = Depths(tr, f) /\ t = Depths(more, f)
      OBVIOUS
    <2>2. n + 1 \in DOMAIN more /\ \A i \in 1 .. n : i \in DOMAIN more
      BY <1>7, <1>8
    <2>3. t[n + 1] = <<f, d + 1>> /\ \A j \in one .. n : t[j] = s[j]
      BY <1>6, <1>8, <2>1, <2>1b, <2>2 DEF Depths
    <2>4. Listed(s, one .. n, f, A) /\ one <= n + 1 /\ d \in Nat
      BY <1>2, <1>5, <1>8, <2>0, <2>1, <2>1b
    <2>5. Listed(t, one .. n + 1, f, A \cup {d + 1})
      BY <2>0, <2>3, <2>4, ListedGrows
    <2>6. QED
      BY <2>0, <2>1, <2>1b, <2>5
  <1>13. Len(longer) <= Depth
    BY <1>4, <1>5, DepthAssumption
  <1>14. Parts(F, S, longer, f, a, b, more)
    <2>1. /\ Part(F, a + 1, f, Kind(longer, "foreach"), more, LoopSizes(more), Len(longer))
          /\ Part(S, b + 2, f, Kind(longer, "block"), more, ScopeSizes(more), Len(longer))
          /\ Listed(Depths(more, f), DOMAIN more, f, Kind(longer, "try"))
      BY ONLY <1>4, <1>8, <1>10, <1>11, <1>12
    <2>2. QED
      BY ONLY <1>2, <1>4, <1>8, <1>13, <2>1, TwoParts
  <1>15. QED
    BY <1>1, <1>14

\* Where an activation was when it executed the innermost of its tries: e is
\* the size that was remembered, k the place of the try.
Innermost(s, a, f, A, tr, sizes, d, e, k, B, less, others) ==
    /\ Part(s, a, f, A, tr, sizes, d)
    /\ tr \in Seq(Handler) /\ tr # <<>> /\ less = Front(tr)
    /\ \A i, j \in 1 .. Len(tr) : i < j => tr[i].at < tr[j].at
    /\ k = tr[Len(tr)].at /\ e = sizes[Len(tr)] /\ B = {x \in A : x < k}
    /\ \A i \in 1 .. Len(tr) - 1 : others[i] = sizes[i]

LEMMA Caught ==
    ASSUME NEW s, NEW a, NEW f, NEW A, NEW tr, NEW sizes, NEW d, NEW e, NEW k, NEW B,
           NEW less, NEW others, Innermost(s, a, f, A, tr, sizes, d, e, k, B, less, others)
    PROVE  /\ e \in Nat /\ a <= e + 1 /\ e <= Len(s)
           /\ Part(Cut(s, e), a, f, B, less, others, k - 1)
  <1>1. /\ tr \in Seq(Handler) /\ less = Front(tr) /\ tr # <<>>
        /\ Part(s, a, f, A, tr, sizes, d)
        /\ \A i, j \in 1 .. Len(tr) : i < j => tr[i].at < tr[j].at
        /\ k = tr[Len(tr)].at /\ e = sizes[Len(tr)] /\ B = {x \in A : x < k}
        /\ \A i \in 1 .. Len(tr) - 1 : others[i] = sizes[i]
    BY DEF Innermost
  <1>2. PICK n \in Nat : n = Len(tr) /\ n > 0
    BY <1>1
  <1>3. /\ k = tr[n].at /\ e = sizes[n] /\ \A i \in 1 .. n - 1 : others[i] = sizes[i]
        /\ \A i, j \in 1 .. n : i < j => tr[i].at < tr[j].at
    BY <1>1, <1>2
  <1>4. /\ s \in Seq(Mark) /\ a \in Nat /\ 1 <= a /\ a <= Len(s) + 1 /\ f \in Body /\ Len(s) \in Nat
        /\ d \in Nat /\ A \in SUBSET (1 .. d) /\ \A i \in DOMAIN tr : tr[i].at \in 1 .. d
        /\ Listed(s, a .. Len(s), f, A) /\ Fits(tr, sizes, s, a, Len(s))
    BY <1>1 DEF Part
  <1>5. DOMAIN tr = 1 .. n /\ n \in 1 .. n
    BY <1>1, <1>2
  <1>6. PICK l \in Nat : l = Len(s)
    BY <1>4
  <1>7. /\ e \in a - 1 .. l /\ \A j \in a .. l : j <= e <=> s[j][2] < k
    BY <1>4, <1>5, <1>6, <1>3 DEF Fits
  <1>8. e \in Nat /\ e <= l /\ a <= e + 1
    BY <1>4, <1>7
  <1>9. k \in 1 .. d
    BY <1>4, <1>5, <1>3
  <1>10. PICK t : t = Cut(s, e)
    OBVIOUS
  <1>11. t \in Seq(Mark) /\ Len(t) = e /\ \A j \in 1 .. e : t[j] = s[j]
    BY <1>4, <1>6, <1>8, <1>10 DEF Cut
  <1>12. \A j \in a .. e : t[j] = s[j] /\ j \in a .. l
    BY <1>4, <1>8, <1>11
  <1>13. Listed(t, a .. e, f, B)
    <2>1. PICK i \in Nat, o \in Nat : i = k /\ o = e /\ B = {x \in A : x < i}
      BY <1>1, <1>8, <1>9
    <2>2. Listed(s, a .. l, f, A) /\ a \in Nat /\ o <= l /\ \A j \in a .. l : j <= o <=> s[j][2] < i
      BY <1>4, <1>6, <1>7, <1>8, <2>1
    <2>3. Listed(s, a .. o, f, B)
      BY ONLY <1>6, <2>1, <2>2, ListedCut
    <2>4. QED
      BY <1>12, <2>1, <2>3, ListedSame
  <1>14. /\ DOMAIN less = 1 .. n - 1 /\ \A i \in 1 .. n - 1 : less[i] = tr[i] /\ i \in 1 .. n
    BY <1>1, <1>2 DEF Front
  <1>15. ASSUME NEW i \in 1 .. n - 1
         PROVE  /\ others[i] \in a - 1 .. e /\ less[i].at \in 1 .. k - 1
                /\ \A j \in a .. e : j <= others[i] <=> t[j][2] < less[i].at
    <2>1. i \in DOMAIN tr /\ i < n /\ i \in 1 .. n
      BY <1>5
    <2>2. PICK z, y : z = sizes[i] /\ y = tr[i].at
      OBVIOUS
    <2>3. z \in a - 1 .. l /\ \A j \in a .. l : j <= z <=> s[j][2] < y
      BY <1>4, <1>6, <2>1, <2>2 DEF Fits
    <2>4. y \in 1 .. d /\ y < k
      BY <1>4, <1>5, <1>3, <2>1, <2>2
    <2>5. z <= e
      <3> SUFFICES ASSUME z > e
                   PROVE  FALSE
        BY <1>4, <1>8, <2>3
      <3>1. z \in a .. l /\ z <= z
        BY <1>4, <1>8, <2>3
      <3>2. s[z][2] < y
        BY <2>3, <3>1
      <3>3. s[z][2] \in 1 .. d
        BY <1>4, <1>6, <3>1 DEF Listed
      <3>4. PICK x \in Nat : x = s[z][2]
        BY <3>3
      <3>5. x < k
        BY <1>9, <2>4, <3>2, <3>4
      <3>6. z <= e
        BY <1>7, <3>1, <3>4, <3>5
      <3>7. QED
        BY <1>4, <1>8, <3>1, <3>6
    <2>6. z \in a - 1 .. e /\ y \in 1 .. k - 1
      BY <1>4, <1>8, <1>9, <2>3, <2>4, <2>5
    <2>7. \A j \in a .. e : j <= z <=> t[j][2] < y
      BY <1>12, <2>3
    <2>8. QED
      BY <1>14, <1>3, <2>2, <2>6, <2>7
  <1>16. Fits(less, others, t, a, e)
    BY <1>14, <1>15 DEF Fits
  <1>17. k - 1 \in Nat /\ B \in SUBSET (1 .. k - 1)
    <2>1. \A x \in A : x \in 1 .. d
      BY <1>4
    <2>2. \A x \in A : x < k => x \in 1 .. k - 1
      BY <1>4, <1>9, <2>1
    <2>3. k - 1 \in Nat
      BY <1>9
    <2>4. QED
      BY <1>1, <2>2, <2>3
  <1>18. \A i \in DOMAIN less : less[i].at \in 1 .. k - 1
    BY <1>14, <1>15
  <1>19. Part(t, a, f, B, less, others, k - 1)
    BY <1>4, <1>8, <1>11, <1>13, <1>16, <1>17, <1>18 DEF Part
  <1>20. QED
    BY <1>6, <1>8, <1>10, <1>19

LEMMA KindCut ==
    ASSUME NEW body \in Seq(Construct), NEW k \in 1 .. Len(body)
    PROVE  /\ Cut(body, k - 1) \in Seq(Construct) /\ Len(Cut(body, k - 1)) = k - 1
           /\ \A c : Kind(Cut(body, k - 1), c) = {x \in Kind(body, c) : x < k}
  <1>1. PICK d \in Nat : d = Len(body)
    OBVIOUS
  <1>1b. PICK less : less = Cut(body, k - 1)
    OBVIOUS
  <1>2. k \in 1 .. d /\ k - 1 \in 0 .. d
    BY <1>1, <1>1b
  <1>3. /\ less \in Seq(Construct) /\ Len(less) = k - 1 /\ DOMAIN less = 1 .. k - 1
        /\ DOMAIN body = 1 .. d /\ \A i \in 1 .. k - 1 : less[i] = body[i]
    BY <1>1, <1>1b, <1>2 DEF Cut
  <1>4. \A i : i \in 1 .. k - 1 <=> i \in 1 .. d /\ i < k
    BY <1>2
  <1>5. ASSUME NEW c
        PROVE  Kind(less, c) = {x \in Kind(body, c) : x < k}
    <2>1. Kind(less, c) = {i \in 1 .. k - 1 : less[i] = c} /\ Kind(body, c) = {i \in 1 .. d : body[i] = c}
      BY <1>3 DEF Kind
    <2>2. \A i : i \in {j \in 1 .. k - 1 : less[j] = c} <=> i \in 1 .. d /\ body[i] = c /\ i < k
      BY <1>3, <1>4
    <2>3. \A i : i \in {x \in Kind(body, c) : x < k} <=> i \in 1 .. d /\ body[i] = c /\ i < k
      BY <2>1
    <2>4. QED
      BY <2>1, <2>2, <2>3
  <1>6. QED
    BY <1>1, <1>1b, <1>3, <1>5

LEMMA HandlerCatches ==
    ASSUME NEW F, NEW S, NEW body, NEW f, NEW a, NEW b, NEW tr, Parts(F, S, body, f, a, b, tr),
           tr # <<>>, NEW h, h = Last(tr)
    PROVE  /\ Parts(Cut(F, h.loops), Cut(S, h.scopes), Cut(body, h.at - 1), f, a, b, Front(tr))
           /\ h.loops \in a .. Len(F) /\ h.scopes \in b + 1 .. Len(S)
           /\ h.at \in 1 .. Len(body) /\ h.at \in Kind(body, "try")
  <1>1. /\ body \in Seq(Construct) /\ Len(body) <= Depth /\ tr \in Seq(Handler)
        /\ a \in Nat /\ b \in Nat /\ b < Len(S) /\ S[b + 1] = <<f, 0>>
        /\ Part(F, a + 1, f, Kind(body, "foreach"), tr, LoopSizes(tr), Len(body))
        /\ Part(S, b + 2, f, Kind(body, "block"), tr, ScopeSizes(tr), Len(body))
        /\ Listed(Depths(tr, f), DOMAIN tr, f, Kind(body, "try"))
    BY TwoParts
  <1>2. PICK n \in Nat : n = Len(tr)
    BY <1>1
  <1>3. n > 0 /\ h = tr[n] /\ n \in DOMAIN tr /\ DOMAIN tr = 1 .. n
    BY <1>1, <1>2 DEF Last
  <1>4. PICK less \in Seq(Handler) : less = Front(tr)
    <2>1. Front(tr) \in Seq(Handler)
      BY <1>1, <1>2, <1>3 DEF Front
    <2>2. QED
      BY <2>1
  <1>5. DOMAIN less = 1 .. n - 1 /\ \A i \in 1 .. n - 1 : less[i] = tr[i] /\ i \in 1 .. n
    BY <1>1, <1>2, <1>3, <1>4 DEF Front
  <1>6. h.at \in Kind(body, "try") /\ h.at \in 1 .. Len(body)
    BY <1>3, TriesInside
  <1>7. PICK k \in 1 .. Len(body) : k = h.at
    BY <1>6
  <1>8. /\ LoopSizes(tr)[n] = h.loops /\ ScopeSizes(tr)[n] = h.scopes
        /\ \A i \in 1 .. n - 1 : /\ LoopSizes(less)[i] = LoopSizes(tr)[i]
                                 /\ ScopeSizes(less)[i] = ScopeSizes(tr)[i]
    <2>1. \A i \in 1 .. n - 1 : i \in DOMAIN less /\ i \in DOMAIN tr /\ less[i] = tr[i]
      BY <1>3, <1>5
    <2>2. QED
      BY <1>3, <2>1 DEF LoopSizes, ScopeSizes
  <1>9. \A i, j \in 1 .. Len(tr) : i < j => tr[i].at < tr[j].at
    BY TriesInOrder
  <1>10. PICK d, x, y : d = Len(body) /\ x = h.loops /\ y = h.scopes
    OBVIOUS
  <1>11. PICK FA, SA, Fs, Ss, Fm, Sm :
              /\ FA = Kind(body, "foreach") /\ SA = Kind(body, "block")
              /\ Fs = LoopSizes(tr) /\ Ss = ScopeSizes(tr)
              /\ Fm = LoopSizes(less) /\ Sm = ScopeSizes(less)
    OBVIOUS
  <1>0. PICK FB, SB : FB = {z \in FA : z < k} /\ SB = {z \in SA : z < k}
    OBVIOUS
  <1>12. /\ x \in Nat /\ a + 1 <= x + 1 /\ x <= Len(F)
         /\ Part(Cut(F, x), a + 1, f, FB, less, Fm, k - 1)
    <2>1. Innermost(F, a + 1, f, FA, tr, Fs, d, x, k, FB, less, Fm)
      BY <1>0, <1>1, <1>2, <1>3, <1>4, <1>7, <1>8, <1>9, <1>10, <1>11 DEF Innermost
    <2>2. QED
      BY ONLY <2>1, Caught, Zenon
  <1>13. /\ y \in Nat /\ b + 2 <= y + 1 /\ y <= Len(S)
         /\ Part(Cut(S, y), b + 2, f, SB, less, Sm, k - 1)
    <2>1. Innermost(S, b + 2, f, SA, tr, Ss, d, y, k, SB, less, Sm)
      BY <1>0, <1>1, <1>2, <1>3, <1>4, <1>7, <1>8, <1>9, <1>10, <1>11 DEF Innermost
    <2>2. QED
      BY ONLY <2>1, Caught, Zenon
  <1>14. PICK shorter : shorter = Cut(body, k - 1)
    OBVIOUS
  <1>15. /\ shorter \in Seq(Construct) /\ Len(shorter) = k - 1
         /\ \A c : Kind(shorter, c) = {z \in Kind(body, c) : z < k}
    BY <1>1, <1>14, KindCut
  <1>16. Listed(Depths(less, f), DOMAIN less, f, Kind(shorter, "try"))
    <2>1. PICK A \in SUBSET (1 .. Len(body)) : A = Kind(body, "try")
      BY <1>1, KindIn
    <2>2. PICK one \in Nat, m \in Nat : one = 1 /\ m = n - 1
      BY <1>3
    <2>2b. PICK s, t : s = Depths(tr, f) /\ t = Depths(less, f)
      OBVIOUS
    <2>3. \A j \in one .. n : s[j][2] = tr[j].at
      BY <1>3, <2>2, <2>2b DEF Depths
    <2>4. \A j \in one .. m : t[j] = s[j]
      BY <1>3, <1>5, <2>2, <2>2b DEF Depths
    <2>5. \A j \in one .. n : j <= m <=> s[j][2] < k
      <3> TAKE j \in one .. n
      <3>1. j = n \/ j < n
        BY <2>2, <2>2b
      <3>2. j \in 1 .. Len(tr) /\ n \in 1 .. Len(tr) /\ s[j][2] = tr[j].at /\ k = tr[n].at
        BY <1>2, <1>3, <1>7, <2>2, <2>2b, <2>3
      <3>3. CASE j = n
        BY <2>2, <2>2b, <3>2, <3>3
      <3>4. CASE j < n
        BY <1>9, <2>2, <2>2b, <3>2, <3>4
      <3>5. QED
        BY <3>1, <3>3, <3>4
    <2>6. k \in Nat /\ m <= n /\ Listed(s, one .. n, f, A)
      BY <1>1, <1>3, <2>1, <2>2, <2>2b
    <2>7. PICK i \in Nat : i = k
      BY <2>6
    <2>7b. PICK B : B = {z \in A : z < i}
      OBVIOUS
    <2>8. \A j \in one .. n : j <= m <=> s[j][2] < i
      BY <2>5, <2>7, <2>7b
    <2>9. Listed(s, one .. m, f, B)
      BY ONLY <1>2, <2>2, <2>2b, <2>6, <2>7, <2>7b, <2>8, ListedCut
    <2>10. Listed(t, one .. m, f, B)
      BY <2>4, <2>9, ListedSame
    <2>11. QED
      BY <1>5, <1>15, <2>1, <2>2, <2>2b, <2>7, <2>7b, <2>10
  <1>17. PICK G, T : G = Cut(F, x) /\ T = Cut(S, y)
    OBVIOUS
  <1>18. b < Len(T) /\ T[b + 1] = <<f, 0>>
    <2>1. S \in Seq(Mark)
      BY <1>1 DEF Part
    <2>2. /\ b \in Nat /\ b < Len(S) /\ S[b + 1] = <<f, 0>>
          /\ y \in Nat /\ b + 2 <= y + 1 /\ y <= Len(S) /\ T = Cut(S, y)
      BY ONLY <1>1, <1>13, <1>17
    <2>3. Len(T) = y /\ \A j \in 1 .. y : T[j] = S[j]
      BY ONLY <2>1, <2>2 DEF Cut
    <2>4. b < y /\ b + 1 \in 1 .. y
      BY ONLY <2>2
    <2>5. QED
      BY ONLY <2>2, <2>3, <2>4
  <1>19. Len(shorter) <= Depth
    BY <1>1, <1>15, DepthAssumption
  <1>20. Parts(G, T, shorter, f, a, b, less)
    <2>1. /\ Part(G, a + 1, f, Kind(shorter, "foreach"), less, LoopSizes(less), Len(shorter))
          /\ Part(T, b + 2, f, Kind(shorter, "block"), less, ScopeSizes(less), Len(shorter))
      <3>1. /\ Kind(shorter, "foreach") = {z \in FA : z < k}
            /\ Kind(shorter, "block") = {z \in SA : z < k} /\ Len(shorter) = k - 1
        BY ONLY <1>11, <1>15
      <3>2. QED
        BY ONLY <1>0, <1>11, <1>12, <1>13, <1>17, <3>1
    <2>2. QED
      BY ONLY <1>1, <1>4, <1>15, <1>16, <1>18, <1>19, <2>1, TwoParts
  <1>21. /\ h.loops \in a .. Len(F) /\ h.scopes \in b + 1 .. Len(S)
    <2>1. F \in Seq(Mark) /\ S \in Seq(Mark)
      BY <1>1 DEF Part
    <2>2. Len(F) \in Nat /\ Len(S) \in Nat
      BY ONLY <2>1
    <2>3. /\ a \in Nat /\ x \in Nat /\ a + 1 <= x + 1 /\ x <= Len(F)
          /\ b \in Nat /\ y \in Nat /\ b + 2 <= y + 1 /\ y <= Len(S)
      BY ONLY <1>1, <1>12, <1>13
    <2>4. x \in a .. Len(F) /\ y \in b + 1 .. Len(S)
      BY ONLY <2>2, <2>3
    <2>5. QED
      BY ONLY <1>10, <2>4
  <1>22. QED
    BY <1>4, <1>6, <1>7, <1>10, <1>14, <1>17, <1>20, <1>21

LEMMA TryEnds ==
    ASSUME NEW F, NEW S, NEW body, NEW f, NEW a, NEW b, NEW tr, Parts(F, S, body, f, a, b, tr),
           Len(body) > 0, Last(body) = "try"
    PROVE  tr # <<>> /\ Parts(F, S, Front(body), f, a, b, Front(tr))
  <1>1. /\ body \in Seq(Construct) /\ tr \in Seq(Handler) /\ F \in Seq(Mark) /\ S \in Seq(Mark)
        /\ a \in Nat /\ b \in Nat
        /\ Listed(F, a + 1 .. Len(F), f, Kind(body, "foreach"))
        /\ Listed(S, b + 2 .. Len(S), f, Kind(body, "block"))
        /\ Listed(Depths(tr, f), DOMAIN tr, f, Kind(body, "try"))
        /\ Fits(tr, LoopSizes(tr), F, a + 1, Len(F))
        /\ Fits(tr, ScopeSizes(tr), S, b + 2, Len(S))
    BY DEF Parts
  <1>2. PICK d \in Nat, n \in Nat : d = Len(body) /\ n = Len(tr)
    BY <1>1
  <1>3. d \in Kind(body, "try") /\ d > 0
    BY <1>1, <1>2, KindEnds
  <1>4. PICK i \in DOMAIN tr : tr[i].at = d
    <2>1. \A j \in DOMAIN tr : Depths(tr, f)[j][2] = tr[j].at
      BY DEF Depths
    <2>2. QED
      BY <1>1, <1>3, <2>1 DEF Listed
  <1>5. n > 0 /\ tr # <<>> /\ n \in DOMAIN tr /\ DOMAIN tr = 1 .. n
    BY <1>1, <1>2, <1>4
  <1>6. PICK h : h = Last(tr)
    OBVIOUS
  <1>7. h = tr[n]
    BY <1>2, <1>6 DEF Last
  <1>8. h.at = d
    <2>1. i = n \/ i < n
      BY <1>5
    <2>2. tr[n].at \in 1 .. d
      BY <1>2, <1>5, TriesInside
    <2>3. i < n => d < tr[n].at
      BY <1>2, <1>4, <1>5, TriesInOrder
    <2>4. QED
      BY <1>4, <1>7, <2>1, <2>2, <2>3
  <1>9. /\ Parts(Cut(F, h.loops), Cut(S, h.scopes), Cut(body, h.at - 1), f, a, b, Front(tr))
        /\ h.loops \in a .. Len(F) /\ h.scopes \in b + 1 .. Len(S)
    BY <1>5, <1>6, HandlerCatches
  <1>10. PICK x \in Nat, y \in Nat, l \in Nat, e \in Nat :
              x = h.loops /\ y = h.scopes /\ l = Len(F) /\ e = Len(S)
    BY <1>1, <1>9
  <1>11. x = l
    <2> SUFFICES ASSUME x < l
                 PROVE  FALSE
      BY <1>9, <1>10
    <2>1. l \in a + 1 .. l /\ ~(l <= x)
      BY <1>1, <1>9, <1>10
    <2>2. LoopSizes(tr)[n] = x
      BY <1>5, <1>7, <1>10 DEF LoopSizes
    <2>3. ~(F[l][2] < d)
      BY <1>1, <1>5, <1>7, <1>8, <1>10, <2>1, <2>2 DEF Fits
    <2>4. F[l][2] \in Kind(body, "foreach")
      BY <1>1, <1>10, <2>1 DEF Listed
    <2>5. Kind(body, "foreach") \in SUBSET (1 .. d) /\ d \notin Kind(body, "foreach")
      BY <1>1, <1>2, <1>3, KindIn DEF Kind
    <2>6. PICK z \in 1 .. d : z = F[l][2] /\ z # d
      BY <2>4, <2>5
    <2>7. QED
      BY <2>3, <2>6
  <1>12. y = e
    <2> SUFFICES ASSUME y < e
                 PROVE  FALSE
      BY <1>9, <1>10
    <2>1. e \in b + 2 .. e /\ ~(e <= y)
      BY <1>1, <1>9, <1>10
    <2>2. ScopeSizes(tr)[n] = y
      BY <1>5, <1>7, <1>10 DEF ScopeSizes
    <2>3. ~(S[e][2] < d)
      BY <1>1, <1>5, <1>7, <1>8, <1>10, <2>1, <2>2 DEF Fits
    <2>4. S[e][2] \in Kind(body, "block")
      BY <1>1, <1>10, <2>1 DEF Listed
    <2>5. Kind(body, "block") \in SUBSET (1 .. d) /\ d \notin Kind(body, "block")
      BY <1>1, <1>2, <1>3, KindIn DEF Kind
    <2>6. PICK z \in 1 .. d : z = S[e][2] /\ z # d
      BY <2>4, <2>5
    <2>7. QED
      BY <2>3, <2>6
  <1>13. Cut(F, x) = F /\ Cut(S, y) = S /\ Cut(body, d - 1) = Front(body)
    BY <1>1, <1>2, <1>10, <1>11, <1>12 DEF Cut, Front
  <1>14. QED
    BY ONLY <1>5, <1>8, <1>9, <1>10, <1>13

-----------------------------------------------------------------------------
(***************************************************************************)
(* The activations of the machine.                                         *)
(***************************************************************************)
LEMMA AtKind == \A f, c : At(f, c) = Kind(inside[f], c)
  BY DEF At, Kind

LEMMA BodyFacts ==
    ASSUME StackInv, NEW g \in Body
    PROVE  inside[g] \in Seq(Construct) /\ Len(inside[g]) \in Nat /\ Len(inside[g]) <= Depth
  BY DEF StackInv, TypeOK

LEMMA RightParts ==
    ASSUME StackInv, NEW n \in DOMAIN calls
    PROVE  /\ calls[n].tries \in Seq(Handler) /\ calls[n].who \in Body
           /\ Len(Cut(forStack, LoopEnd(n))) = LoopEnd(n)
           /\ Len(Cut(scopeStack, ScopeEnd(n))) = ScopeEnd(n)
           /\ Parts(Cut(forStack, LoopEnd(n)), Cut(scopeStack, ScopeEnd(n)), inside[calls[n].who],
                    calls[n].who, calls[n].loops, calls[n].scopes, calls[n].tries)
  <1>1. PICK f, a, b, tr, body, F, S, l, e :
             /\ f = calls[n].who /\ a = calls[n].loops /\ b = calls[n].scopes /\ tr = calls[n].tries
             /\ body = inside[f] /\ F = Cut(forStack, l) /\ S = Cut(scopeStack, e)
             /\ l = LoopEnd(n) /\ e = ScopeEnd(n)
    OBVIOUS
  <1>2. /\ l \in Nat /\ e \in Nat /\ a \in Nat /\ b \in Nat /\ a <= l /\ l <= Len(forStack)
        /\ b < e /\ e <= Len(scopeStack) /\ calls[n] \in Activation
    BY <1>1, Top
  <1>3. /\ forStack \in Seq(Mark) /\ scopeStack \in Seq(Mark) /\ Right(n)
    BY DEF StackInv, TypeOK
  <1>4. f \in Body /\ tr \in Seq(Handler)
    BY <1>1, <1>2 DEF Activation
  <1>5. body \in Seq(Construct) /\ Len(body) <= Depth
    BY <1>1, <1>4, BodyFacts
  <1>6. /\ F \in Seq(Mark) /\ Len(F) = l /\ \A j \in 1 .. l : F[j] = forStack[j]
        /\ S \in Seq(Mark) /\ Len(S) = e /\ \A j \in 1 .. e : S[j] = scopeStack[j]
    BY <1>1, <1>2, <1>3, SMTT(30) DEF Cut
  <1>7. /\ \A j \in a + 1 .. l : F[j] = forStack[j]
        /\ \A j \in b + 2 .. e : S[j] = scopeStack[j]
        /\ S[b + 1] = scopeStack[b + 1]
    BY <1>2, <1>6
  <1>8. /\ Listed(forStack, a + 1 .. l, f, Kind(body, "foreach"))
        /\ scopeStack[b + 1] = <<f, 0>>
        /\ Listed(scopeStack, b + 2 .. e, f, Kind(body, "block"))
        /\ Listed(Depths(tr, f), DOMAIN tr, f, Kind(body, "try"))
        /\ Fits(tr, LoopSizes(tr), forStack, a + 1, l)
        /\ Fits(tr, ScopeSizes(tr), scopeStack, b + 2, e)
    BY <1>1, <1>3, AtKind, ListsListed DEF Right, LoopsRight, ScopesRight, TriesRight, HandlersFit
  <1>9. /\ Listed(F, a + 1 .. l, f, Kind(body, "foreach"))
        /\ Listed(S, b + 2 .. e, f, Kind(body, "block"))
    BY <1>7, <1>8, ListedSame
  <1>10. /\ Fits(tr, LoopSizes(tr), F, a + 1, l) /\ Fits(tr, ScopeSizes(tr), S, b + 2, e)
    BY <1>7, <1>8, FitsSame
  <1>11. Parts(F, S, body, f, a, b, tr)
    BY <1>2, <1>4, <1>5, <1>6, <1>7, <1>8, <1>9, <1>10 DEF Parts
  <1>12. QED
    BY <1>1, <1>4, <1>6, <1>11

\* And back again, after a step.
LEMMA PartsRight ==
    ASSUME NEW n, n \in DOMAIN calls', NEW F, NEW S, NEW body, NEW f, NEW a, NEW b, NEW tr,
           Parts(F, S, body, f, a, b, tr),
           calls'[n].who = f, calls'[n].loops = a, calls'[n].scopes = b, calls'[n].tries = tr,
           inside'[f] = body, LoopEnd(n)' = Len(F), ScopeEnd(n)' = Len(S),
           \A j \in 1 .. Len(F) : forStack'[j] = F[j],
           \A j \in 1 .. Len(S) : scopeStack'[j] = S[j]
    PROVE  Right(n)'
  <1>1. PICK G, T, l, e : /\ G = forStack' /\ T = scopeStack' /\ l = Len(F) /\ e = Len(S)
    OBVIOUS
  <1>2. /\ l \in Nat /\ e \in Nat /\ a \in Nat /\ b \in Nat /\ a <= l /\ b < e
        /\ Listed(F, a + 1 .. l, f, Kind(body, "foreach"))
        /\ S[b + 1] = <<f, 0>>
        /\ Listed(S, b + 2 .. e, f, Kind(body, "block"))
        /\ Listed(Depths(tr, f), DOMAIN tr, f, Kind(body, "try"))
        /\ Fits(tr, LoopSizes(tr), F, a + 1, l)
        /\ Fits(tr, ScopeSizes(tr), S, b + 2, e)
    BY <1>1 DEF Parts
  <1>3. /\ \A j \in a + 1 .. l : G[j] = F[j]
        /\ \A j \in b + 2 .. e : T[j] = S[j]
        /\ T[b + 1] = S[b + 1]
    <2>1. /\ \A j \in a + 1 .. l : j \in 1 .. l
          /\ \A j \in b + 2 .. e : j \in 1 .. e
          /\ b + 1 \in 1 .. e
      BY <1>2
    <2>2. QED
      BY <1>1, <2>1
  <1>4. /\ Listed(G, a + 1 .. l, f, Kind(body, "foreach"))
        /\ Listed(T, b + 2 .. e, f, Kind(body, "block"))
    BY <1>2, <1>3, ListedSame
  <1>5. /\ Fits(tr, LoopSizes(tr), G, a + 1, l) /\ Fits(tr, ScopeSizes(tr), T, b + 2, e)
    BY <1>2, <1>3, FitsSame, SMTT(30)
  <1>6. \A c : At(f, c)' = Kind(body, c)
    BY DEF At, Kind
  <1>7. LoopsRight(n)'
    BY <1>1, <1>4, <1>6 DEF LoopsRight, Lists, Listed
  <1>8. ScopesRight(n)'
    BY <1>1, <1>2, <1>3, <1>4, <1>6 DEF ScopesRight, Lists, Listed
  <1>9. TriesRight(n)'
    BY <1>2, <1>6 DEF TriesRight, Lists, Listed
  <1>10. HandlersFit(n)'
    BY <1>1, <1>5 DEF HandlersFit
  <1>11. QED
    BY <1>7, <1>8, <1>9, <1>10 DEF Right

\* The running activation, in one place ...
LEMMA TopParts ==
    ASSUME StackInv
    PROVE  Parts(forStack, scopeStack, inside[self], self, me.loops, me.scopes, me.tries)
  <1>1. PICK N : N = Len(calls)
    OBVIOUS
  <1>2. N \in DOMAIN calls /\ me = calls[N] /\ self = calls[N].who
    BY <1>1, Top
  <1>3. LoopEnd(N) = Len(forStack) /\ ScopeEnd(N) = Len(scopeStack)
    BY <1>1 DEF LoopEnd, ScopeEnd
  <1>4. Cut(forStack, LoopEnd(N)) = forStack /\ Cut(scopeStack, ScopeEnd(N)) = scopeStack
    BY <1>3 DEF Cut, StackInv, TypeOK
  <1>5. Parts(Cut(forStack, LoopEnd(N)), Cut(scopeStack, ScopeEnd(N)), inside[calls[N].who],
              calls[N].who, calls[N].loops, calls[N].scopes, calls[N].tries)
    BY <1>2, RightParts
  <1>6. QED
    BY ONLY <1>2, <1>4, <1>5

\* ... and what a step in its body has to bring about again.
GoesOn(F, S, body, tr) ==
    /\ Parts(F, S, body, self, me.loops, me.scopes, tr)
    /\ UNCHANGED <<closure, held>> /\ forStack' = F /\ scopeStack' = S
    /\ calls' = [calls EXCEPT ![Len(calls)].tries = tr]
    /\ inside' = [inside EXCEPT ![self] = body]
    /\ \A j \in 1 .. me.loops : F[j] = forStack[j]
    /\ \A j \in 1 .. me.scopes : S[j] = scopeStack[j]

LEMMA TopAgain ==
    ASSUME StackInv, NEW F, NEW S, NEW body, NEW tr, GoesOn(F, S, body, tr)
    PROVE  StackInv'
  <1>0. /\ Parts(F, S, body, self, me.loops, me.scopes, tr)
        /\ UNCHANGED <<closure, held>> /\ forStack' = F /\ scopeStack' = S
        /\ calls' = [calls EXCEPT ![Len(calls)].tries = tr]
        /\ inside' = [inside EXCEPT ![self] = body]
        /\ \A j \in 1 .. me.loops : F[j] = forStack[j]
        /\ \A j \in 1 .. me.scopes : S[j] = scopeStack[j]
    BY DEF GoesOn
  <1>1. PICK N, f, a, b : N = Len(calls) /\ f = self /\ a = me.loops /\ b = me.scopes
    OBVIOUS
  <1>2. /\ N \in Nat \ {0} /\ N \in DOMAIN calls /\ f = calls[N].who /\ DOMAIN calls = 1 .. N
        /\ a = calls[N].loops /\ b = calls[N].scopes
        /\ f \in Body /\ calls[N] \in Activation
    BY <1>1, Top
  <1>3. /\ calls \in Seq(Activation) /\ inside \in [Body -> Seq(Construct)]
        /\ \A g \in Body : Len(inside[g]) <= Depth
        /\ calls # <<>> /\ calls[1].who = Main /\ held \in 0 .. Len(calls)
    BY DEF StackInv, TypeOK
  <1>4. /\ F \in Seq(Mark) /\ S \in Seq(Mark) /\ tr \in Seq(Handler)
        /\ body \in Seq(Construct) /\ Len(body) <= Depth
        /\ a \in Nat /\ b \in Nat /\ a <= Len(F) /\ b < Len(S)
    BY <1>0, <1>1 DEF Parts
  <1>5. calls' = [calls EXCEPT ![N] = [calls[N] EXCEPT !.tries = tr]]
    BY <1>0, <1>1
  <1>6. PICK top : top = [calls[N] EXCEPT !.tries = tr]
    OBVIOUS
  <1>7. /\ top \in Activation /\ top.who = f /\ top.loops = a /\ top.scopes = b /\ top.tries = tr
    BY <1>2, <1>4, <1>6 DEF Activation
  <1>8. /\ calls' \in Seq(Activation) /\ Len(calls') = N /\ DOMAIN calls' = 1 .. N
        /\ \A n \in 1 .. N - 1 : calls'[n] = calls[n]
        /\ calls'[N] = top
    <2>1. calls' = [calls EXCEPT ![N] = top]
      BY ONLY <1>5, <1>6
    <2>2. PICK later : later = calls'
      OBVIOUS
    <2>3. calls \in Seq(Activation) /\ Len(calls) = N /\ N \in 1 .. Len(calls) /\ top \in Activation
      BY <1>1, <1>2, <1>3, <1>7
    <2>4. /\ later \in Seq(Activation) /\ Len(later) = N /\ DOMAIN later = 1 .. N
          /\ \A n \in 1 .. N - 1 : later[n] = calls[n]
          /\ later[N] = top
      BY ONLY <2>1, <2>2, <2>3
    <2>5. QED
      BY ONLY <2>2, <2>4
  <1>9. /\ inside' \in [Body -> Seq(Construct)] /\ inside'[f] = body
        /\ \A g \in Body : g # f => inside'[g] = inside[g]
    BY <1>0, <1>1, <1>2, <1>3, <1>4
  <1>10. TypeOK'
    <2>1. calls' # <<>> /\ calls'[1].who = Main
      <3>1. N = 1 \/ 1 \in 1 .. N - 1
        BY <1>2
      <3>2. QED
        BY <1>2, <1>3, <1>7, <1>8, <3>1
    <2>2. \A g \in Body : Len(inside'[g]) <= Depth
      BY <1>3, <1>4, <1>9
    <2>3. /\ closure' = closure /\ held' \in 0 .. Len(calls')
          /\ closure \in [Function -> [status : {"new", "running", "suspended"},
                                       loops : Seq(Mark), scopes : Seq(Mark)]]
      BY <1>0, <1>1, <1>3, <1>8 DEF StackInv, TypeOK
    <2>4. QED
      BY <1>0, <1>4, <1>8, <1>9, <2>1, <2>2, <2>3 DEF TypeOK
  <1>11. \A n \in 1 .. N : calls'[n].who = calls[n].who
    <2> TAKE n \in 1 .. N
    <2>1. n = N \/ n \in 1 .. N - 1
      BY <1>2
    <2>2. QED
      BY <1>2, <1>7, <1>8, <2>1
  <1>12. ClosuresRight'
    <2>1. \A g \in Function : (\E n \in DOMAIN calls' : calls'[n].who = g)
                              <=> \E n \in DOMAIN calls : calls[n].who = g
      BY <1>2, <1>8, <1>11
    <2>2. \A g \in Function : closure[g].status # "running" => g # f /\ g \in Body
      BY <1>2 DEF StackInv, ClosuresRight, Body
    <2>3. QED
      BY <1>0, <1>9, <2>1, <2>2, ClosuresStay
  <1>13. Right(N)'
    <2>1. LoopEnd(N)' = Len(F) /\ ScopeEnd(N)' = Len(S)
      BY <1>0, <1>8 DEF LoopEnd, ScopeEnd
    <2>2. N \in DOMAIN calls' /\ calls'[N].who = f /\ calls'[N].loops = a /\ calls'[N].scopes = b
          /\ calls'[N].tries = tr /\ Parts(F, S, body, f, a, b, tr)
      BY <1>0, <1>1, <1>2, <1>7, <1>8
    <2>3. /\ \A j \in 1 .. Len(F) : forStack'[j] = F[j]
          /\ \A j \in 1 .. Len(S) : scopeStack'[j] = S[j]
      BY <1>0
    <2>4. QED
      BY ONLY <1>9, <2>1, <2>2, <2>3, PartsRight
  <1>14. \A n \in 1 .. N - 1 : inside'[calls[n].who] = inside[calls[n].who]
    <2> TAKE n \in 1 .. N - 1
    <2>1. n \in DOMAIN calls /\ n # N
      BY <1>2
    <2>2. calls[n].who \in Body /\ calls[n].who # f
      <3>1. calls[n] \in Activation
        BY <2>1, Top
      <3>2. QED
        BY <1>2, <2>1, <3>1 DEF StackInv, OneEach, Activation
    <2>3. QED
      BY <1>9, <2>2
  <1>15. QED
    <2>1. /\ calls'[N].who = calls[N].who /\ calls'[N].loops = calls[N].loops
          /\ calls'[N].scopes = calls[N].scopes
          /\ calls[N].loops <= Len(forStack') /\ calls[N].scopes < Len(scopeStack')
          /\ \A j \in 1 .. calls[N].loops : forStack'[j] = forStack[j]
          /\ \A j \in 1 .. calls[N].scopes : scopeStack'[j] = scopeStack[j]
      BY <1>0, <1>1, <1>2, <1>4, <1>7, <1>8
    <2>2. QED
      BY ONLY StackInv, <1>2, <1>8, <1>10, <1>12, <1>13, <1>14, <2>1, Leaves

LEMMA SameTries ==
    ASSUME StackInv
    PROVE  /\ calls = [calls EXCEPT ![Len(calls)].tries = me.tries]
           /\ \A t : [calls EXCEPT ![Len(calls)].tries = t]
                     = [calls EXCEPT ![Len(calls)] = [me EXCEPT !.tries = t]]
  <1>1. /\ calls \in Seq(Activation) /\ Len(calls) \in DOMAIN calls /\ me = calls[Len(calls)]
        /\ calls[Len(calls)] \in Activation
    BY Top DEF StackInv, TypeOK
  <1>2. [calls[Len(calls)] EXCEPT !.tries = me.tries] = calls[Len(calls)]
    BY <1>1 DEF Activation
  <1>3. QED
    BY <1>1, <1>2

-----------------------------------------------------------------------------
(***************************************************************************)
(* The steps inside one body.                                              *)
(***************************************************************************)
LEMMA StepOpenBlock ==
    ASSUME StackInv, OpenBlock
    PROVE  StackInv'
  <1>1. PICK F, S, body, f, a, b, tr :
             /\ F = forStack /\ S = scopeStack /\ body = inside[self] /\ f = self
             /\ a = me.loops /\ b = me.scopes /\ tr = me.tries
    OBVIOUS
  <1>2. Parts(F, S, body, f, a, b, tr)
    BY <1>1, TopParts
  <1>3. PICK G, T, next, others :
             /\ G = F /\ T = Append(S, <<f, Len(body) + 1>>)
             /\ next = Append(body, "block") /\ others = tr
    OBVIOUS
  <1>4. /\ Len(body) < Depth
        /\ inside' = [inside EXCEPT ![self] = next]
        /\ forStack' = G /\ scopeStack' = T /\ UNCHANGED <<closure, held>>
    BY <1>1, <1>3 DEF OpenBlock, Begin, Here
  <1>5. calls' = [calls EXCEPT ![Len(calls)].tries = others]
    BY <1>1, <1>3, SameTries DEF OpenBlock
  <1>6. Parts(G, T, next, f, a, b, others)
    BY ONLY <1>2, <1>3, <1>4, BlockBegins
  <1>7. /\ F \in Seq(Mark) /\ S \in Seq(Mark) /\ a \in Nat /\ b \in Nat /\ a <= Len(F) /\ b < Len(S)
    BY <1>2 DEF Parts
  <1>8. /\ \A j \in 1 .. a : G[j] = F[j]
        /\ \A j \in 1 .. b : T[j] = S[j]
    BY <1>3, <1>7
  <1>9. /\ Parts(G, T, next, self, me.loops, me.scopes, others)
        /\ \A j \in 1 .. me.loops : G[j] = forStack[j]
        /\ \A j \in 1 .. me.scopes : T[j] = scopeStack[j]
    BY ONLY <1>1, <1>6, <1>8
  <1>10. GoesOn(G, T, next, others)
    BY ONLY <1>4, <1>5, <1>9 DEF GoesOn
  <1>11. QED
    BY ONLY StackInv, <1>10, TopAgain

LEMMA StepCloseBlock ==
    ASSUME StackInv, CloseBlock
    PROVE  StackInv'
  <1>1. PICK F, S, body, f, a, b, tr :
             /\ F = forStack /\ S = scopeStack /\ body = inside[self] /\ f = self
             /\ a = me.loops /\ b = me.scopes /\ tr = me.tries
    OBVIOUS
  <1>2. Parts(F, S, body, f, a, b, tr)
    BY <1>1, TopParts
  <1>3. PICK G, T, next, others :
             /\ G = F /\ T = Front(S)
             /\ next = Front(body) /\ others = tr
    OBVIOUS
  <1>4. /\ Len(body) > 0 /\ Last(body) = "block"
        /\ inside' = [inside EXCEPT ![self] = next]
        /\ forStack' = G /\ scopeStack' = T /\ UNCHANGED <<closure, held>>
    BY <1>1, <1>3 DEF CloseBlock, End, Here
  <1>5. calls' = [calls EXCEPT ![Len(calls)].tries = others]
    BY <1>1, <1>3, SameTries DEF CloseBlock
  <1>6. Parts(G, T, next, f, a, b, others) /\ b + 2 <= Len(S)
    BY ONLY <1>2, <1>3, <1>4, BlockEnds
  <1>7. /\ F \in Seq(Mark) /\ S \in Seq(Mark) /\ a \in Nat /\ b \in Nat /\ a <= Len(F) /\ b < Len(S)
    BY <1>2 DEF Parts
  <1>8. /\ \A j \in 1 .. a : G[j] = F[j]
        /\ \A j \in 1 .. b : T[j] = S[j]
    BY <1>3, <1>6, <1>7 DEF Front
  <1>9. /\ Parts(G, T, next, self, me.loops, me.scopes, others)
        /\ \A j \in 1 .. me.loops : G[j] = forStack[j]
        /\ \A j \in 1 .. me.scopes : T[j] = scopeStack[j]
    BY ONLY <1>1, <1>6, <1>8
  <1>10. GoesOn(G, T, next, others)
    BY ONLY <1>4, <1>5, <1>9 DEF GoesOn
  <1>11. QED
    BY ONLY StackInv, <1>10, TopAgain

LEMMA StepForeach ==
    ASSUME StackInv, Foreach
    PROVE  StackInv'
  <1>1. PICK F, S, body, f, a, b, tr :
             /\ F = forStack /\ S = scopeStack /\ body = inside[self] /\ f = self
             /\ a = me.loops /\ b = me.scopes /\ tr = me.tries
    OBVIOUS
  <1>2. Parts(F, S, body, f, a, b, tr)
    BY <1>1, TopParts
  <1>3. PICK G, T, next, others :
             /\ G = Append(F, <<f, Len(body) + 1>>) /\ T = S
             /\ next = Append(body, "foreach") /\ others = tr
    OBVIOUS
  <1>4. /\ Len(body) < Depth
        /\ inside' = [inside EXCEPT ![self] = next]
        /\ forStack' = G /\ scopeStack' = T /\ UNCHANGED <<closure, held>>
    BY <1>1, <1>3 DEF Foreach, Begin, Here
  <1>5. calls' = [calls EXCEPT ![Len(calls)].tries = others]
    BY <1>1, <1>3, SameTries DEF Foreach
  <1>6. Parts(G, T, next, f, a, b, others)
    BY ONLY <1>2, <1>3, <1>4, LoopBegins
  <1>7. /\ F \in Seq(Mark) /\ S \in Seq(Mark) /\ a \in Nat /\ b \in Nat /\ a <= Len(F) /\ b < Len(S)
    BY <1>2 DEF Parts
  <1>8. /\ \A j \in 1 .. a : G[j] = F[j]
        /\ \A j \in 1 .. b : T[j] = S[j]
    BY <1>3, <1>7
  <1>9. /\ Parts(G, T, next, self, me.loops, me.scopes, others)
        /\ \A j \in 1 .. me.loops : G[j] = forStack[j]
        /\ \A j \in 1 .. me.scopes : T[j] = scopeStack[j]
    BY ONLY <1>1, <1>6, <1>8
  <1>10. GoesOn(G, T, next, others)
    BY ONLY <1>4, <1>5, <1>9 DEF GoesOn
  <1>11. QED
    BY ONLY StackInv, <1>10, TopAgain

LEMMA StepLastElement ==
    ASSUME StackInv, LastElement
    PROVE  StackInv'
  <1>1. PICK F, S, body, f, a, b, tr :
             /\ F = forStack /\ S = scopeStack /\ body = inside[self] /\ f = self
             /\ a = me.loops /\ b = me.scopes /\ tr = me.tries
    OBVIOUS
  <1>2. Parts(F, S, body, f, a, b, tr)
    BY <1>1, TopParts
  <1>3. PICK G, T, next, others :
             /\ G = Front(F) /\ T = S
             /\ next = Front(body) /\ others = tr
    OBVIOUS
  <1>4. /\ Len(body) > 0 /\ Last(body) = "foreach"
        /\ inside' = [inside EXCEPT ![self] = next]
        /\ forStack' = G /\ scopeStack' = T /\ UNCHANGED <<closure, held>>
    BY <1>1, <1>3 DEF LastElement, End, Here
  <1>5. calls' = [calls EXCEPT ![Len(calls)].tries = others]
    BY <1>1, <1>3, SameTries DEF LastElement
  <1>6. Parts(G, T, next, f, a, b, others) /\ a + 1 <= Len(F)
    BY ONLY <1>2, <1>3, <1>4, LoopEnds
  <1>7. /\ F \in Seq(Mark) /\ S \in Seq(Mark) /\ a \in Nat /\ b \in Nat /\ a <= Len(F) /\ b < Len(S)
    BY <1>2 DEF Parts
  <1>8. /\ \A j \in 1 .. a : G[j] = F[j]
        /\ \A j \in 1 .. b : T[j] = S[j]
    BY <1>3, <1>6, <1>7 DEF Front
  <1>9. /\ Parts(G, T, next, self, me.loops, me.scopes, others)
        /\ \A j \in 1 .. me.loops : G[j] = forStack[j]
        /\ \A j \in 1 .. me.scopes : T[j] = scopeStack[j]
    BY ONLY <1>1, <1>6, <1>8
  <1>10. GoesOn(G, T, next, others)
    BY ONLY <1>4, <1>5, <1>9 DEF GoesOn
  <1>11. QED
    BY ONLY StackInv, <1>10, TopAgain

LEMMA StepTry ==
    ASSUME StackInv, Try
    PROVE  StackInv'
  <1>1. PICK F, S, body, f, a, b, tr :
             /\ F = forStack /\ S = scopeStack /\ body = inside[self] /\ f = self
             /\ a = me.loops /\ b = me.scopes /\ tr = me.tries
    OBVIOUS
  <1>2. Parts(F, S, body, f, a, b, tr)
    BY <1>1, TopParts
  <1>3. PICK G, T, next, others :
             /\ G = F /\ T = S
             /\ next = Append(body, "try") /\ others = Append(tr, [at |-> Len(body) + 1, loops |-> Len(F), scopes |-> Len(S)])
    OBVIOUS
  <1>4. /\ Len(body) < Depth
        /\ inside' = [inside EXCEPT ![self] = next]
        /\ forStack' = G /\ scopeStack' = T /\ UNCHANGED <<closure, held>>
    BY <1>1, <1>3 DEF Try, Begin, Here
  <1>5. calls' = [calls EXCEPT ![Len(calls)].tries = others]
    BY <1>1, <1>3, SameTries, Top DEF Try, Here
  <1>6. Parts(G, T, next, f, a, b, others)
    BY ONLY <1>2, <1>3, <1>4, TryBegins
  <1>7. /\ F \in Seq(Mark) /\ S \in Seq(Mark) /\ a \in Nat /\ b \in Nat /\ a <= Len(F) /\ b < Len(S)
    BY <1>2 DEF Parts
  <1>8. /\ \A j \in 1 .. a : G[j] = F[j]
        /\ \A j \in 1 .. b : T[j] = S[j]
    BY <1>3, <1>7
  <1>9. /\ Parts(G, T, next, self, me.loops, me.scopes, others)
        /\ \A j \in 1 .. me.loops : G[j] = forStack[j]
        /\ \A j \in 1 .. me.scopes : T[j] = scopeStack[j]
    BY ONLY <1>1, <1>6, <1>8
  <1>10. GoesOn(G, T, next, others)
    BY ONLY <1>4, <1>5, <1>9 DEF GoesOn
  <1>11. QED
    BY ONLY StackInv, <1>10, TopAgain

LEMMA StepEndTry ==
    ASSUME StackInv, EndTry
    PROVE  StackInv'
  <1>1. PICK F, S, body, f, a, b, tr :
             /\ F = forStack /\ S = scopeStack /\ body = inside[self] /\ f = self
             /\ a = me.loops /\ b = me.scopes /\ tr = me.tries
    OBVIOUS
  <1>2. Parts(F, S, body, f, a, b, tr)
    BY <1>1, TopParts
  <1>3. PICK G, T, next, others :
             /\ G = F /\ T = S
             /\ next = Front(body) /\ others = Front(tr)
    OBVIOUS
  <1>4. /\ Len(body) > 0 /\ Last(body) = "try"
        /\ inside' = [inside EXCEPT ![self] = next]
        /\ forStack' = G /\ scopeStack' = T /\ UNCHANGED <<closure, held>>
    BY <1>1, <1>3 DEF EndTry, End, Here
  <1>5. calls' = [calls EXCEPT ![Len(calls)].tries = others]
    BY <1>1, <1>3, SameTries, Top DEF EndTry
  <1>6. Parts(G, T, next, f, a, b, others)
    BY ONLY <1>2, <1>3, <1>4, TryEnds
  <1>7. /\ F \in Seq(Mark) /\ S \in Seq(Mark) /\ a \in Nat /\ b \in Nat /\ a <= Len(F) /\ b < Len(S)
    BY <1>2 DEF Parts
  <1>8. /\ \A j \in 1 .. a : G[j] = F[j]
        /\ \A j \in 1 .. b : T[j] = S[j]
    BY <1>3, <1>7
  <1>9. /\ Parts(G, T, next, self, me.loops, me.scopes, others)
        /\ \A j \in 1 .. me.loops : G[j] = forStack[j]
        /\ \A j \in 1 .. me.scopes : T[j] = scopeStack[j]
    BY ONLY <1>1, <1>6, <1>8
  <1>10. GoesOn(G, T, next, others)
    BY ONLY <1>4, <1>5, <1>9 DEF GoesOn
  <1>11. QED
    BY ONLY StackInv, <1>10, TopAgain

-----------------------------------------------------------------------------
(***************************************************************************)
(* A function is called or resumed: L and T go on top of the stacks.       *)
(***************************************************************************)
Enters(f, top, L, T, c) ==
    /\ f \in Function /\ closure[f].status # "running"
    /\ top \in Activation /\ top.who = f /\ top.tries = <<>>
    /\ top.loops = Len(forStack) /\ top.scopes = Len(scopeStack)
    /\ calls' = Append(calls, top) /\ inside' = inside /\ held' \in 0 .. Len(calls')
    /\ L \in Seq(Mark) /\ forStack' = forStack \o L
    /\ T \in Seq(Mark) /\ scopeStack' = scopeStack \o T
    /\ Kind(inside[f], "try") = {}
    /\ Listed(L, 1 .. Len(L), f, Kind(inside[f], "foreach"))
    /\ T # <<>> /\ T[1] = <<f, 0>>
    /\ Listed(T, 2 .. Len(T), f, Kind(inside[f], "block"))
    /\ c \in [status : {"new", "running", "suspended"}, loops : Seq(Mark), scopes : Seq(Mark)]
    /\ c.status = "running" /\ closure' = [closure EXCEPT ![f] = c]

LEMMA OnTop ==
    ASSUME NEW s \in Seq(Mark), NEW t \in Seq(Mark), NEW u, u = s \o t
    PROVE  /\ u \in Seq(Mark) /\ Len(u) = Len(s) + Len(t)
           /\ \A j \in 1 .. Len(s) : u[j] = s[j]
           /\ \A j \in 1 .. Len(t) : u[j + Len(s)] = t[j]
  OBVIOUS

LEMMA EntersRight ==
    ASSUME StackInv, NEW f, NEW top, NEW L, NEW T, NEW c, Enters(f, top, L, T, c)
    PROVE  StackInv'
  <1>1. PICK N, a, b, body, F, S :
             /\ N = Len(calls) /\ a = Len(forStack) /\ b = Len(scopeStack) /\ body = inside[f]
             /\ F = forStack' /\ S = scopeStack'
    OBVIOUS
  <1>2. /\ f \in Function /\ closure[f].status # "running"
        /\ top \in Activation /\ top.who = f /\ top.tries = <<>>
        /\ top.loops = a /\ top.scopes = b
        /\ calls' = Append(calls, top) /\ inside' = inside /\ held' \in 0 .. Len(calls')
        /\ L \in Seq(Mark) /\ F = forStack \o L
        /\ T \in Seq(Mark) /\ S = scopeStack \o T
        /\ Kind(body, "try") = {}
        /\ Listed(L, 1 .. Len(L), f, Kind(body, "foreach"))
        /\ T # <<>> /\ T[1] = <<f, 0>>
        /\ Listed(T, 2 .. Len(T), f, Kind(body, "block"))
        /\ c \in [status : {"new", "running", "suspended"}, loops : Seq(Mark), scopes : Seq(Mark)]
        /\ c.status = "running" /\ closure' = [closure EXCEPT ![f] = c]
    BY <1>1 DEF Enters
  <1>3. /\ calls \in Seq(Activation) /\ calls # <<>> /\ calls[1].who = Main
        /\ forStack \in Seq(Mark) /\ scopeStack \in Seq(Mark)
        /\ closure \in [Function -> [status : {"new", "running", "suspended"},
                                     loops : Seq(Mark), scopes : Seq(Mark)]]
        /\ inside \in [Body -> Seq(Construct)] /\ \A g \in Body : Len(inside[g]) <= Depth
    BY DEF StackInv, TypeOK
  <1>4. N \in Nat \ {0} /\ DOMAIN calls = 1 .. N /\ a \in Nat /\ b \in Nat /\ f \in Body
    BY <1>1, <1>2, Top DEF Body
  <1>5. /\ calls' \in Seq(Activation) /\ Len(calls') = N + 1 /\ DOMAIN calls' = 1 .. N + 1
        /\ \A n \in 1 .. N : calls'[n] = calls[n]
        /\ calls'[N + 1] = top
    BY <1>1, <1>2, <1>3, <1>4
  <1>6. \A n \in 1 .. N + 1 : n \in 1 .. N \/ n = N + 1
    BY <1>4
  <1>7. PICK l \in Nat, e \in Nat : l = Len(L) /\ e = Len(T) /\ e > 0
    <2>1. Len(L) \in Nat /\ Len(T) \in Nat /\ Len(T) > 0
      BY <1>2
    <2>2. QED
      BY <2>1
  <1>8. /\ F \in Seq(Mark) /\ Len(F) = a + l /\ S \in Seq(Mark) /\ Len(S) = b + e
        /\ \A j \in 1 .. a : F[j] = forStack[j]
        /\ \A j \in 1 .. l : F[j + a] = L[j]
        /\ \A j \in 1 .. b : S[j] = scopeStack[j]
        /\ \A j \in 1 .. e : S[j + b] = T[j]
    <2>1. PICK s \in Seq(Mark), t \in Seq(Mark), u \in Seq(Mark), v \in Seq(Mark) :
               s = forStack /\ t = L /\ u = scopeStack /\ v = T
      BY <1>2, <1>3
    <2>2. F = s \o t /\ S = u \o v
      BY ONLY <1>2, <2>1
    <2>3. /\ F \in Seq(Mark) /\ Len(F) = Len(s) + Len(t)
          /\ \A j \in 1 .. Len(s) : F[j] = s[j]
          /\ \A j \in 1 .. Len(t) : F[j + Len(s)] = t[j]
      BY ONLY <2>1, <2>2, OnTop
    <2>4. /\ S \in Seq(Mark) /\ Len(S) = Len(u) + Len(v)
          /\ \A j \in 1 .. Len(u) : S[j] = u[j]
          /\ \A j \in 1 .. Len(v) : S[j + Len(u)] = v[j]
      BY ONLY <2>1, <2>2, OnTop
    <2>5. Len(s) = a /\ Len(t) = l /\ Len(u) = b /\ Len(v) = e
      BY ONLY <1>1, <1>7, <2>1
    <2>6. QED
      BY ONLY <2>1, <2>3, <2>4, <2>5
  <1>9. TypeOK'
    <2>1. calls' # <<>> /\ calls'[1].who = Main
      BY <1>3, <1>4, <1>5
    <2>2. closure' \in [Function -> [status : {"new", "running", "suspended"},
                                     loops : Seq(Mark), scopes : Seq(Mark)]]
      BY <1>2, <1>3
    <2>3. QED
      BY <1>1, <1>2, <1>3, <1>5, <1>8, <2>1, <2>2 DEF TypeOK
  <1>10. \A n \in 1 .. N : calls[n].who # f
    BY <1>2, <1>4 DEF StackInv, ClosuresRight
  <1>11. Bases'
    <2> SUFFICES ASSUME NEW n \in 1 .. N + 1
                 PROVE  /\ calls'[n].loops <= Len(F) /\ calls'[n].scopes < Len(S)
                        /\ \A m \in 1 .. n - 1 : /\ calls'[m].loops <= calls'[n].loops
                                                 /\ calls'[m].scopes < calls'[n].scopes
      BY <1>1, <1>5 DEF Bases
    <2>1. \A m \in 1 .. N : /\ calls[m].loops \in Nat /\ calls[m].loops <= a
                            /\ calls[m].scopes \in Nat /\ calls[m].scopes < b
      BY <1>1, <1>4, Top DEF StackInv, Bases
    <2>2. CASE n \in 1 .. N
      <3>1. \A m \in 1 .. n - 1 : m \in 1 .. N
        BY <1>4, <2>2
      <3>2. calls'[n].loops <= Len(F) /\ calls'[n].scopes < Len(S)
        BY <1>4, <1>5, <1>7, <1>8, <2>1, <2>2
      <3>3. \A m \in 1 .. n - 1 : calls[m].loops <= calls[n].loops /\ calls[m].scopes < calls[n].scopes
        BY <1>4, <2>2 DEF StackInv, Bases
      <3>4. QED
        BY <1>5, <2>2, <3>1, <3>2, <3>3
    <2>3. CASE n = N + 1
      <3>1. \A m \in 1 .. n - 1 : m \in 1 .. N
        BY <1>4, <2>3
      <3>2. calls'[n].loops = a /\ calls'[n].scopes = b
        BY <1>2, <1>5, <2>3
      <3>3. a <= Len(F) /\ b < Len(S)
        BY <1>4, <1>7, <1>8
      <3>4. QED
        BY <1>5, <2>1, <3>1, <3>2, <3>3
    <2>4. QED
      BY <1>6, <2>2, <2>3
  <1>12. OneEach'
    <2>1. \A m, n \in 1 .. N + 1 : calls'[m].who = calls'[n].who => m = n
      <3> TAKE m, n \in 1 .. N + 1
      <3>1. calls'[N + 1].who = f /\ \A i \in 1 .. N : calls'[i].who = calls[i].who
        BY <1>2, <1>5
      <3>2. QED
        BY <1>4, <1>6, <1>10, <3>1 DEF StackInv, OneEach
    <2>2. QED
      BY <1>5, <2>1 DEF OneEach
  <1>13. ClosuresRight'
    <2> SUFFICES ASSUME NEW g \in Function
                 PROVE  /\ closure'[g].status = "new" => inside[g] = <<>>
                        /\ closure'[g].status = "suspended" => Saved(g)'
                        /\ closure'[g].status = "running"
                              <=> \E n \in DOMAIN calls' : calls'[n].who = g
      BY <1>2 DEF ClosuresRight
    <2>1. CASE g = f
      <3>1. closure'[f] = c
        BY <1>2, <1>3
      <3>2. N + 1 \in DOMAIN calls' /\ calls'[N + 1].who = f
        BY <1>2, <1>4, <1>5
      <3>3. QED
        BY <1>2, <2>1, <3>1, <3>2
    <2>2. CASE g # f
      <3>1. closure'[g] = closure[g]
        BY <1>2, <1>3, <2>2
      <3>2. (\E n \in DOMAIN calls' : calls'[n].who = g) <=> \E n \in DOMAIN calls : calls[n].who = g
        <4>1. \A n \in 1 .. N : n \in 1 .. N + 1 /\ calls'[n].who = calls[n].who
          BY <1>4, <1>5
        <4>2. calls'[N + 1].who # g
          BY <1>2, <1>5, <2>2
        <4>3. QED
          BY <1>4, <1>5, <1>6, <4>1, <4>2
      <3>3. ASSUME closure[g].status = "suspended"
            PROVE  Saved(g)'
        <4>1. Saved(g)
          BY <3>3 DEF StackInv, ClosuresRight
        <4>2. \A x : At(g, x)' = At(g, x)
          BY <1>2 DEF At
        <4>3. QED
          BY <3>1, <4>1, <4>2 DEF Saved, Lists
      <3>4. QED
        BY <3>1, <3>2, <3>3 DEF StackInv, ClosuresRight
    <2>3. QED
      BY <2>1, <2>2
  <1>14. ASSUME NEW n \in 1 .. N
         PROVE  Right(n)'
    <2>1. n \in DOMAIN calls /\ Right(n) /\ calls'[n] = calls[n]
      BY <1>4, <1>5 DEF StackInv
    <2>2. LoopEnd(n)' = LoopEnd(n) /\ ScopeEnd(n)' = ScopeEnd(n)
      <3>1. LoopEnd(n)' = calls'[n + 1].loops /\ ScopeEnd(n)' = calls'[n + 1].scopes
        BY <1>4, <1>5 DEF LoopEnd, ScopeEnd
      <3>2. CASE n = N
        BY <1>1, <1>2, <1>5, <3>1, <3>2 DEF LoopEnd, ScopeEnd
      <3>3. CASE n # N
        <4>1. n + 1 \in 1 .. N
          BY <1>4, <3>3
        <4>2. QED
          BY <1>1, <1>5, <3>1, <3>3, <4>1 DEF LoopEnd, ScopeEnd
      <3>4. QED
        BY <3>2, <3>3
    <2>3. /\ LoopEnd(n) \in Nat /\ LoopEnd(n) <= a /\ ScopeEnd(n) \in Nat /\ ScopeEnd(n) <= b
      BY <1>1, <2>1, Top
    <2>4. /\ \A j \in 1 .. LoopEnd(n) : forStack'[j] = forStack[j]
          /\ \A j \in 1 .. ScopeEnd(n) : scopeStack'[j] = scopeStack[j]
          /\ inside'[calls[n].who] = inside[calls[n].who]
      <3>1. /\ \A j \in 1 .. LoopEnd(n) : j \in 1 .. a
            /\ \A j \in 1 .. ScopeEnd(n) : j \in 1 .. b
        BY <1>4, <2>3
      <3>2. QED
        BY <1>1, <1>2, <1>8, <3>1
    <2>5. QED
      BY ONLY StackInv, <2>1, <2>2, <2>4, Kept
  <1>15. Parts(F, S, body, f, a, b, <<>>)
    <2>1. Listed(F, a + 1 .. a + l, f, Kind(body, "foreach"))
      <3>1. PICK one \in Nat, o \in Int : one = 1 /\ o = a
        BY <1>4
      <3>1b. PICK A : A = Kind(body, "foreach")
        OBVIOUS
      <3>2. Listed(L, one .. l, f, A) /\ \A j \in one .. l : F[j + o] = L[j]
        BY <1>2, <1>7, <1>8, <3>1, <3>1b
      <3>3. Listed(F, one + o .. l + o, f, A)
        BY ONLY <1>7, <3>1, <3>1b, <3>2, ListedShifts
      <3>4. one + o = a + 1 /\ l + o = a + l
        BY <1>4, <1>7, <3>1, <3>1b
      <3>5. QED
        BY ONLY <3>1, <3>1b, <3>3, <3>4
    <2>2. Listed(S, b + 2 .. b + e, f, Kind(body, "block"))
      <3>1. PICK two \in Nat, o \in Int : two = 2 /\ o = b
        BY <1>4
      <3>1b. PICK A : A = Kind(body, "block")
        OBVIOUS
      <3>0. \A j \in two .. e : j \in 1 .. e
        BY <3>1, <3>1b
      <3>2. Listed(T, two .. e, f, A) /\ \A j \in two .. e : S[j + o] = T[j]
        BY <1>2, <1>7, <1>8, <3>0, <3>1, <3>1b
      <3>3. Listed(S, two + o .. e + o, f, A)
        <4>1. two \in Nat /\ e \in Nat /\ o \in Int
          OBVIOUS
        <4>2. QED
          BY ONLY <3>2, <4>1, ListedShifts, Zenon
      <3>4. two + o = b + 2 /\ e + o = b + e
        BY <1>4, <1>7, <3>1, <3>1b
      <3>5. QED
        BY ONLY <3>1, <3>1b, <3>3, <3>4
    <2>3. S[b + 1] = <<f, 0>>
      <3>1. 1 \in 1 .. e /\ b + 1 = 1 + b
        BY <1>4, <1>7
      <3>2. QED
        BY <1>2, <1>8, <3>1
    <2>4. PICK none : none = <<>>
      OBVIOUS
    <2>5. none \in Seq(Handler) /\ DOMAIN none = {}
      BY <2>4
    <2>6. /\ Listed(Depths(none, f), DOMAIN none, f, Kind(body, "try"))
          /\ \A sizes, stack, i, j : Fits(none, sizes, stack, i, j)
      BY <1>2, <2>5 DEF Listed, Fits
    <2>7. /\ body \in Seq(Construct) /\ Len(body) <= Depth
      BY <1>1, <1>3, <1>4
    <2>8. a <= Len(F) /\ b < Len(S)
      BY <1>4, <1>7, <1>8
    <2>9. Parts(F, S, body, f, a, b, none)
      BY <1>4, <1>8, <2>1, <2>2, <2>3, <2>5, <2>6, <2>7, <2>8 DEF Parts
    <2>10. QED
      BY <2>4, <2>9
  <1>16. Right(N + 1)'
    <2>1. LoopEnd(N + 1)' = Len(F) /\ ScopeEnd(N + 1)' = Len(S)
      BY <1>1, <1>5 DEF LoopEnd, ScopeEnd
    <2>2. /\ N + 1 \in DOMAIN calls' /\ calls'[N + 1].who = f /\ calls'[N + 1].loops = a
          /\ calls'[N + 1].scopes = b /\ calls'[N + 1].tries = <<>> /\ inside'[f] = body
      BY <1>1, <1>2, <1>4, <1>5
    <2>3. /\ \A j \in 1 .. Len(F) : forStack'[j] = F[j]
          /\ \A j \in 1 .. Len(S) : scopeStack'[j] = S[j]
      BY <1>1
    <2>4. QED
      BY ONLY <1>15, <2>1, <2>2, <2>3, PartsRight
  <1>17. QED
    BY <1>5, <1>6, <1>9, <1>11, <1>12, <1>13, <1>14, <1>16 DEF StackInv

-----------------------------------------------------------------------------
(***************************************************************************)
(* The object's monitor is counted by the methods that run.                *)
(***************************************************************************)
Running(cs) == {n \in DOMAIN cs : cs[n].who \in Methods}

LEMMA RunningSize ==
    ASSUME NEW cs \in Seq(Activation)
    PROVE  IsFiniteSet(Running(cs)) /\ Cardinality(Running(cs)) \in 0 .. Len(cs)
  <1>1. PICK N \in Nat : N = Len(cs)
    OBVIOUS
  <1>2. Running(cs) \subseteq 1 .. N
    BY <1>1 DEF Running
  <1>3. IsFiniteSet(1 .. N) /\ Cardinality(1 .. N) = N
    <2>1. Cardinality(1 .. N) = IF 1 > N THEN 0 ELSE N - 1 + 1
      BY FS_Interval
    <2>2. QED
      BY <2>1, FS_Interval
  <1>4. /\ IsFiniteSet(Running(cs)) /\ Cardinality(Running(cs)) <= N
    BY <1>2, <1>3, FS_Subset
  <1>5. Cardinality(Running(cs)) \in Nat
    BY <1>4, FS_CardinalityType
  <1>6. QED
    BY <1>1, <1>4, <1>5

LEMMA RunningGrows ==
    ASSUME NEW cs \in Seq(Activation), NEW top \in Activation
    PROVE  Cardinality(Running(Append(cs, top)))
              = Cardinality(Running(cs)) + (IF top.who \in Methods THEN 1 ELSE 0)
  <1>0. Len(cs) \in Nat
    OBVIOUS
  <1>1. PICK N \in Nat : N = Len(cs)
    BY <1>0
  <1>1b. PICK more, R, M : more = Append(cs, top) /\ R = Running(cs) /\ M = Running(more)
    OBVIOUS
  <1>2. /\ DOMAIN more = 1 .. N + 1 /\ DOMAIN cs = 1 .. N /\ more[N + 1] = top
        /\ \A n \in 1 .. N : more[n] = cs[n]
    BY <1>1, <1>1b
  <1>3. \A n : n \in 1 .. N + 1 <=> n \in 1 .. N \/ n = N + 1
    OBVIOUS
  <1>4. N + 1 \notin R /\ IsFiniteSet(R) /\ Cardinality(R) \in Nat
    <2>1. N + 1 \notin 1 .. N
      OBVIOUS
    <2>2. QED
      BY <1>1, <1>1b, <1>2, <2>1, RunningSize DEF Running
  <1>5. CASE top.who \in Methods
    <2>1. M = R \cup {N + 1}
      BY <1>1, <1>1b, <1>2, <1>3, <1>5 DEF Running
    <2>2. Cardinality(M) = Cardinality(R) + 1
      BY <1>4, <2>1, FS_AddElement
    <2>3. QED
      BY <1>1, <1>1b, <1>5, <2>2
  <1>6. CASE top.who \notin Methods
    <2>1. M = R
      BY <1>1, <1>1b, <1>2, <1>3, <1>6 DEF Running
    <2>2. QED
      BY <1>1, <1>1b, <1>4, <1>6, <2>1
  <1>7. QED
    BY <1>5, <1>6

LEMMA RunningShrinks ==
    ASSUME NEW cs \in Seq(Activation), cs # <<>>
    PROVE  Cardinality(Running(Front(cs)))
              = Cardinality(Running(cs)) - (IF Last(cs).who \in Methods THEN 1 ELSE 0)
  <1>1. PICK N \in Nat : N = Len(cs)
    OBVIOUS
  <1>1b. PICK less, R, M, top : less = Front(cs) /\ R = Running(cs) /\ M = Running(less) /\ top = Last(cs)
    OBVIOUS
  <1>2. /\ DOMAIN less = 1 .. N - 1 /\ DOMAIN cs = 1 .. N /\ cs[N] = top /\ N > 0
        /\ \A n \in 1 .. N - 1 : less[n] = cs[n]
    BY <1>1, <1>1b DEF Front, Last
  <1>3. /\ \A n : n \in 1 .. N <=> n \in 1 .. N - 1 \/ n = N
        /\ N \notin 1 .. N - 1
    BY <1>2
  <1>4. IsFiniteSet(R) /\ Cardinality(R) \in Nat
    BY <1>1, <1>1b, RunningSize
  <1>5. CASE top.who \in Methods
    <2>1. M = R \ {N} /\ N \in R
      BY <1>1, <1>1b, <1>2, <1>3, <1>5 DEF Running
    <2>2. Cardinality(M) = Cardinality(R) - 1
      BY <1>4, <2>1, FS_RemoveElement
    <2>3. QED
      BY <1>1, <1>1b, <1>5, <2>2
  <1>6. CASE top.who \notin Methods
    <2>1. M = R
      BY <1>1, <1>1b, <1>2, <1>3, <1>6 DEF Running
    <2>2. QED
      BY <1>1, <1>1b, <1>4, <1>6, <2>1
  <1>7. QED
    BY <1>5, <1>6

-----------------------------------------------------------------------------
(***************************************************************************)
(* Calling and resuming.                                                   *)
(***************************************************************************)
LEMMA StepCall ==
    ASSUME CoInv, NEW f \in Function, NEW dest \in BOOLEAN, CallFunction(f, dest)
    PROVE  CoInv'
  <1>1. StackInv /\ held = Cardinality(Running(calls))
    BY DEF CoInv, MonitorsFollow, Running
  <1>2. /\ calls \in Seq(Activation) /\ forStack \in Seq(Mark) /\ scopeStack \in Seq(Mark)
        /\ closure[f] \in [status : {"new", "running", "suspended"}, loops : Seq(Mark), scopes : Seq(Mark)]
        /\ closure \in [Function -> [status : {"new", "running", "suspended"},
                                     loops : Seq(Mark), scopes : Seq(Mark)]]
    BY <1>1 DEF StackInv, TypeOK
  <1>3. PICK top : top = [who |-> f, dest |-> dest, loops |-> Len(forStack),
                          scopes |-> Len(scopeStack), tries |-> <<>>]
    OBVIOUS
  <1>4. /\ top \in Activation /\ top.who = f /\ top.tries = <<>>
        /\ top.loops = Len(forStack) /\ top.scopes = Len(scopeStack)
    BY <1>2, <1>3 DEF Activation, Body
  <1>5. /\ closure[f].status = "new" /\ calls' = Append(calls, top)
        /\ scopeStack' = Append(scopeStack, <<f, 0>>)
        /\ closure' = [closure EXCEPT ![f].status = "running"]
        /\ held' = IF f \in Methods THEN held + 1 ELSE held
        /\ forStack' = forStack /\ inside' = inside
    BY <1>3 DEF CallFunction, Acquire
  <1>6. /\ calls' \in Seq(Activation)
        /\ held' = Cardinality(Running(calls'))
    <2>1. Cardinality(Running(calls')) = Cardinality(Running(calls)) + (IF f \in Methods THEN 1 ELSE 0)
      BY <1>2, <1>4, <1>5, RunningGrows
    <2>2. Cardinality(Running(calls)) \in Nat
      BY <1>2, RunningSize
    <2>3. QED
      BY <1>1, <1>2, <1>4, <1>5, <2>1, <2>2
  <1>7. held' \in 0 .. Len(calls')
    <2>1. PICK cs \in Seq(Activation) : cs = calls'
      BY <1>6
    <2>2. QED
      BY <1>6, <2>1, RunningSize
  <1>8. PICK L, T, c : L = <<>> /\ T = <<<<f, 0>>>> /\ c = [closure[f] EXCEPT !.status = "running"]
    OBVIOUS
  <1>9. /\ c \in [status : {"new", "running", "suspended"}, loops : Seq(Mark), scopes : Seq(Mark)]
        /\ c.status = "running" /\ closure' = [closure EXCEPT ![f] = c]
    BY <1>2, <1>5, <1>8
  <1>10. L \in Seq(Mark) /\ forStack' = forStack \o L
    BY <1>2, <1>5, <1>8
  <1>11. T \in Seq(Mark) /\ T # <<>> /\ T[1] = <<f, 0>> /\ Len(T) = 1 /\ scopeStack' = scopeStack \o T
    <2>1. <<f, 0>> \in Mark
      BY DepthAssumption DEF Mark, Body
    <2>2. PICK x \in Mark : x = <<f, 0>>
      BY <2>1
    <2>3. T = <<x>> /\ T \in Seq(Mark) /\ T # <<>> /\ T[1] = x /\ Len(T) = 1
      BY <1>8, <2>2
    <2>4. scopeStack \o T = Append(scopeStack, x)
      BY <1>2, <2>3
    <2>5. QED
      BY <1>5, <2>2, <2>3, <2>4
  <1>12. /\ \A k : Kind(inside[f], k) = {}
         /\ Listed(L, 1 .. Len(L), f, {}) /\ Listed(T, 2 .. Len(T), f, {})
    <2>1. inside[f] = <<>>
      BY <1>1, <1>5 DEF StackInv, ClosuresRight
    <2>2. PICK b : b = <<>> /\ inside[f] = b
      BY <2>1
    <2>3. \A k : Kind(b, k) = {}
      BY <2>2 DEF Kind
    <2>4. 1 .. Len(L) = {} /\ 2 .. Len(T) = {}
      BY <1>8, <1>11
    <2>5. QED
      BY <2>2, <2>3, <2>4 DEF Listed
  <1>13. closure[f].status # "running"
    BY <1>5
  <1>14. Enters(f, top, L, T, c)
    BY ONLY f \in Function, <1>4, <1>5, <1>7, <1>9, <1>10, <1>11, <1>12, <1>13 DEF Enters
  <1>15. StackInv'
    BY ONLY <1>1, <1>14, EntersRight
  <1>16. QED
    BY <1>6, <1>15 DEF CoInv, MonitorsFollow, Running

LEMMA StepResume ==
    ASSUME CoInv, NEW f \in Function, Resume(f)
    PROVE  CoInv'
  <1>1. StackInv /\ held = Cardinality(Running(calls))
    BY DEF CoInv, MonitorsFollow, Running
  <1>2. /\ calls \in Seq(Activation) /\ forStack \in Seq(Mark) /\ scopeStack \in Seq(Mark)
        /\ closure[f] \in [status : {"new", "running", "suspended"}, loops : Seq(Mark), scopes : Seq(Mark)]
    BY <1>1 DEF StackInv, TypeOK
  <1>3. PICK top : top = [who |-> f, dest |-> TRUE, loops |-> Len(forStack),
                          scopes |-> Len(scopeStack), tries |-> <<>>]
    OBVIOUS
  <1>4. /\ top \in Activation /\ top.who = f /\ top.tries = <<>>
        /\ top.loops = Len(forStack) /\ top.scopes = Len(scopeStack)
    BY <1>2, <1>3 DEF Activation, Body
  <1>5. PICK L, T, c : /\ L = closure[f].loops /\ T = closure[f].scopes
                       /\ c = [New EXCEPT !.status = "running"]
    OBVIOUS
  <1>6. /\ closure[f].status = "suspended" /\ calls' = Append(calls, top)
        /\ forStack' = forStack \o L /\ scopeStack' = scopeStack \o T
        /\ closure' = [closure EXCEPT ![f] = c]
        /\ held' = IF f \in Methods THEN held + 1 ELSE held
        /\ inside' = inside
    BY <1>3, <1>5 DEF Resume, Acquire
  <1>7. /\ calls' \in Seq(Activation)
        /\ held' = Cardinality(Running(calls'))
    <2>1. Cardinality(Running(calls')) = Cardinality(Running(calls)) + (IF f \in Methods THEN 1 ELSE 0)
      BY <1>2, <1>4, <1>6, RunningGrows
    <2>2. Cardinality(Running(calls)) \in Nat
      BY <1>2, RunningSize
    <2>3. QED
      BY <1>1, <1>2, <1>4, <1>6, <2>1, <2>2
  <1>8. held' \in 0 .. Len(calls')
    <2>1. PICK cs \in Seq(Activation) : cs = calls'
      BY <1>7
    <2>2. QED
      BY <1>7, <2>1, RunningSize
  <1>9. /\ c \in [status : {"new", "running", "suspended"}, loops : Seq(Mark), scopes : Seq(Mark)]
        /\ c.status = "running"
    <2>1. c = [status |-> "running", loops |-> <<>>, scopes |-> <<>>]
      <3>1. c = [[status |-> "new", loops |-> <<>>, scopes |-> <<>>] EXCEPT !.status = "running"]
        BY <1>5 DEF New
      <3>2. QED
        BY ONLY <3>1
    <2>2. QED
      BY <2>1
  <1>10. Saved(f)
    BY <1>1, <1>6 DEF StackInv, ClosuresRight
  <1>11. /\ L \in Seq(Mark) /\ T \in Seq(Mark) /\ T # <<>> /\ T[1] = <<f, 0>>
         /\ Kind(inside[f], "try") = {}
         /\ Listed(L, 1 .. Len(L), f, Kind(inside[f], "foreach"))
         /\ Listed(T, 2 .. Len(T), f, Kind(inside[f], "block"))
    BY <1>2, <1>5, <1>10, AtKind, ListsListed DEF Saved
  <1>12. closure[f].status # "running"
    BY <1>6
  <1>13. Enters(f, top, L, T, c)
    BY ONLY f \in Function, <1>4, <1>6, <1>8, <1>9, <1>11, <1>12 DEF Enters
  <1>14. StackInv'
    BY ONLY <1>1, <1>13, EntersRight
  <1>15. QED
    BY <1>7, <1>14 DEF CoInv, MonitorsFollow, Running

-----------------------------------------------------------------------------
(***************************************************************************)
(* Returning and yielding.                                                 *)
(***************************************************************************)

\* The running activation goes, with what is of it on the stacks; c is what is
\* left of its function, and body where it is.
Leaving(f, c, body) ==
    /\ f = self /\ f # Main
    /\ calls' = Front(calls)
    /\ forStack' = Cut(forStack, me.loops)
    /\ scopeStack' = Cut(scopeStack, me.scopes)
    /\ c \in [status : {"new", "suspended"}, loops : Seq(Mark), scopes : Seq(Mark)]
    /\ closure' = [closure EXCEPT ![f] = c]
    /\ body \in Seq(Construct) /\ Len(body) <= Depth
    /\ inside' = [inside EXCEPT ![f] = body]
    /\ c.status = "new" => body = <<>>
    /\ c.status = "suspended" => Saved(f)'
    /\ held' \in 0 .. Len(calls')

LEMMA LeavingRight ==
    ASSUME StackInv, NEW f, NEW c, NEW body, Leaving(f, c, body)
    PROVE  StackInv'
  <1>0. f = self
    BY DEF Leaving
  <1>1. PICK N, a, b : N = Len(calls) /\ f = self /\ a = me.loops /\ b = me.scopes
    BY <1>0
  <1>2. /\ f # Main /\ calls' = Front(calls)
        /\ forStack' = Cut(forStack, a) /\ scopeStack' = Cut(scopeStack, b)
        /\ c \in [status : {"new", "suspended"}, loops : Seq(Mark), scopes : Seq(Mark)]
        /\ closure' = [closure EXCEPT ![f] = c]
        /\ body \in Seq(Construct) /\ Len(body) <= Depth
        /\ inside' = [inside EXCEPT ![f] = body]
        /\ c.status = "new" => body = <<>>
        /\ c.status = "suspended" => Saved(f)'
        /\ held' \in 0 .. Len(calls')
    BY <1>1 DEF Leaving
  <1>3. /\ calls \in Seq(Activation) /\ calls # <<>> /\ calls[1].who = Main
        /\ forStack \in Seq(Mark) /\ scopeStack \in Seq(Mark)
        /\ closure \in [Function -> [status : {"new", "running", "suspended"},
                                     loops : Seq(Mark), scopes : Seq(Mark)]]
        /\ inside \in [Body -> Seq(Construct)] /\ \A g \in Body : Len(inside[g]) <= Depth
    BY DEF StackInv, TypeOK
  <1>4. /\ N \in Nat \ {0} /\ DOMAIN calls = 1 .. N /\ f = calls[N].who /\ f \in Body
        /\ N \in DOMAIN calls /\ a = calls[N].loops /\ b = calls[N].scopes
    BY <1>1, Top
  <1>5. f \in Function /\ N > 1
    BY <1>2, <1>3, <1>4 DEF Body
  <1>6. /\ a \in Nat /\ b \in Nat /\ a <= Len(forStack) /\ b < Len(scopeStack)
        /\ Len(forStack) \in Nat /\ Len(scopeStack) \in Nat
    BY <1>1, <1>4, Top DEF StackInv, Bases
  <1>7. PICK k \in Nat : k = N - 1 /\ k >= 1
    BY <1>4, <1>5
  <1>8. /\ calls' \in Seq(Activation) /\ Len(calls') = k /\ DOMAIN calls' = 1 .. k
        /\ \A n \in 1 .. k : calls'[n] = calls[n]
    <2>1. PICK later : later = calls'
      OBVIOUS
    <2>2. later = SubSeq(calls, 1, k)
      BY <1>1, <1>2, <1>7, <2>1 DEF Front
    <2>3. /\ later \in Seq(Activation) /\ Len(later) = k /\ DOMAIN later = 1 .. k
          /\ \A n \in 1 .. k : later[n] = calls[n]
      BY <1>1, <1>3, <1>4, <1>7, <2>2
    <2>4. QED
      BY ONLY <2>1, <2>3
  <1>9. PICK G, T : G = forStack' /\ T = scopeStack'
    OBVIOUS
  <1>10. /\ G \in Seq(Mark) /\ Len(G) = a /\ \A j \in 1 .. a : G[j] = forStack[j]
         /\ T \in Seq(Mark) /\ Len(T) = b /\ \A j \in 1 .. b : T[j] = scopeStack[j]
    BY <1>2, <1>3, <1>6, <1>9, SMTT(30) DEF Cut
  <1>11. /\ inside' \in [Body -> Seq(Construct)] /\ inside'[f] = body
         /\ \A g \in Body : g # f => inside'[g] = inside[g]
         /\ \A g \in Body : Len(inside'[g]) <= Depth
    BY <1>2, <1>3, <1>4
  <1>12. /\ closure' \in [Function -> [status : {"new", "running", "suspended"},
                                       loops : Seq(Mark), scopes : Seq(Mark)]]
         /\ closure'[f] = c /\ \A g \in Function : g # f => closure'[g] = closure[g]
    BY <1>2, <1>3, <1>5
  <1>13. TypeOK'
    <2>1. calls' # <<>> /\ calls'[1].who = Main
      BY <1>3, <1>7, <1>8
    <2>2. QED
      BY <1>2, <1>8, <1>9, <1>10, <1>11, <1>12, <2>1 DEF TypeOK
  <1>14. \A n \in 1 .. k : n \in 1 .. N /\ n # N
    BY <1>4, <1>7
  <1>15. \A n \in 1 .. k : calls[n].who \in Body /\ calls[n].who # f
    <2> TAKE n \in 1 .. k
    <2>1. n \in DOMAIN calls /\ n # N
      BY <1>4, <1>14
    <2>2. calls[n] \in Activation
      BY <2>1, Top
    <2>3. QED
      BY <1>4, <2>1, <2>2 DEF StackInv, OneEach, Activation
  <1>16. ClosuresRight'
    <2> SUFFICES ASSUME NEW g \in Function
                 PROVE  /\ closure'[g].status = "new" => inside'[g] = <<>>
                        /\ closure'[g].status = "suspended" => Saved(g)'
                        /\ closure'[g].status = "running"
                              <=> \E n \in DOMAIN calls' : calls'[n].who = g
      BY DEF ClosuresRight
    <2>1. CASE g = f
      BY <1>2, <1>8, <1>11, <1>12, <1>15, <2>1
    <2>2. CASE g # f
      <3>1. closure'[g] = closure[g] /\ inside'[g] = inside[g]
        BY <1>11, <1>12, <2>2 DEF Body
      <3>2. (\E n \in DOMAIN calls' : calls'[n].who = g) <=> \E n \in DOMAIN calls : calls[n].who = g
        <4>1. \A n \in 1 .. N : n \in 1 .. k \/ n = N
          BY <1>4, <1>7
        <4>2. QED
          BY <1>4, <1>8, <1>14, <2>2, <4>1
      <3>3. ASSUME closure[g].status = "suspended"
            PROVE  Saved(g)'
        <4>1. Saved(g)
          BY <3>3 DEF StackInv, ClosuresRight
        <4>2. \A x : At(g, x)' = At(g, x)
          BY <3>1 DEF At
        <4>3. QED
          BY <3>1, <4>1, <4>2 DEF Saved, Lists
      <3>4. QED
        BY <3>1, <3>2, <3>3 DEF StackInv, ClosuresRight
    <2>3. QED
      BY <2>1, <2>2
  <1>17. k \in DOMAIN calls /\ k \in 1 .. k
    BY <1>4, <1>7
  <1>18. Right(k)'
    <2>1. Right(k) /\ calls'[k] = calls[k]
      BY <1>8, <1>17 DEF StackInv
    <2>2. LoopEnd(k) = a /\ ScopeEnd(k) = b
      <3>1. k # N /\ k + 1 = N
        BY <1>4, <1>7
      <3>2. QED
        BY <1>1, <1>4, <3>1 DEF LoopEnd, ScopeEnd
    <2>3. LoopEnd(k)' = a /\ ScopeEnd(k)' = b
      BY <1>8, <1>9, <1>10 DEF LoopEnd, ScopeEnd
    <2>4. /\ \A j \in 1 .. LoopEnd(k) : forStack'[j] = forStack[j]
          /\ \A j \in 1 .. ScopeEnd(k) : scopeStack'[j] = scopeStack[j]
          /\ inside'[calls[k].who] = inside[calls[k].who]
          /\ LoopEnd(k)' = LoopEnd(k) /\ ScopeEnd(k)' = ScopeEnd(k)
      BY <1>9, <1>10, <1>11, <1>15, <1>17, <2>2, <2>3
    <2>5. QED
      BY ONLY StackInv, <1>17, <2>1, <2>4, Kept
  <1>19. QED
    <2>1. calls'[k] = calls[k] /\ \A n \in 1 .. k - 1 : calls'[n] = calls[n] /\ n \in 1 .. k
      BY <1>7, <1>8, <1>17
    <2>2. \A n \in 1 .. k - 1 : inside'[calls[n].who] = inside[calls[n].who]
      BY <1>11, <1>15, <2>1
    <2>3. /\ calls[k].loops <= a /\ calls[k].scopes < b
          /\ calls[k].loops \in Nat /\ calls[k].scopes \in Nat
      <3>1. k \in 1 .. N - 1
        BY <1>4, <1>7
      <3>2. QED
        BY <1>4, <1>17, <3>1, Top DEF StackInv, Bases
    <2>4. /\ \A j \in 1 .. calls[k].loops : j \in 1 .. a
          /\ \A j \in 1 .. calls[k].scopes : j \in 1 .. b
      BY <1>6, <2>3
    <2>5. /\ calls[k].loops <= Len(forStack') /\ calls[k].scopes < Len(scopeStack')
          /\ \A j \in 1 .. calls[k].loops : forStack'[j] = forStack[j]
          /\ \A j \in 1 .. calls[k].scopes : scopeStack'[j] = scopeStack[j]
      BY <1>9, <1>10, <2>3, <2>4
    <2>6. QED
      BY ONLY StackInv, <1>8, <1>13, <1>16, <1>17, <1>18, <2>1, <2>2, <2>5, Leaves

\* What the monitor counts when the running activation goes.
LEMMA HeldLess ==
    ASSUME CoInv, calls' = Front(calls), Len(calls) > 1, Release(self)
    PROVE  /\ held' = Cardinality(Running(calls')) /\ held' \in 0 .. Len(calls')
  <1>1. PICK cs \in Seq(Activation) : cs = calls
    BY DEF CoInv, StackInv, TypeOK
  <1>1b. PICK next, f : next = calls' /\ f = self
    OBVIOUS
  <1>2. cs # <<>> /\ next = Front(cs) /\ f = Last(cs).who /\ held = Cardinality(Running(cs))
    BY <1>1, <1>1b DEF CoInv, MonitorsFollow, Running, self, me
  <1>3. next \in Seq(Activation)
    BY <1>1, <1>1b, <1>2 DEF Front
  <1>4. Cardinality(Running(next))
           = Cardinality(Running(cs)) - (IF f \in Methods THEN 1 ELSE 0)
    BY <1>1, <1>1b, <1>2, RunningShrinks
  <1>5. Cardinality(Running(cs)) \in Nat /\ Cardinality(Running(next)) \in 0 .. Len(next)
    BY <1>1, <1>1b, <1>3, RunningSize
  <1>6. held' = IF f \in Methods THEN held - 1 ELSE held
    BY <1>1, <1>1b DEF Release
  <1>7. held' = Cardinality(Running(next))
    BY <1>2, <1>4, <1>5, <1>6
  <1>8. QED
    BY <1>1, <1>1b, <1>5, <1>7

LEMMA StepReturn ==
    ASSUME CoInv, Return
    PROVE  CoInv'
  <1>1. StackInv
    BY DEF CoInv
  <1>2. PICK F, S, body, f, a, b, tr :
             /\ F = forStack /\ S = scopeStack /\ body = inside[self] /\ f = self
             /\ a = me.loops /\ b = me.scopes /\ tr = me.tries
    OBVIOUS
  <1>3. Parts(F, S, body, f, a, b, tr)
    BY <1>1, <1>2, TopParts
  <1>4. PICK A : A = Kind(body, "foreach")
    OBVIOUS
  <1>5. Cardinality(A) = Len(F) - a
    <2>1. PICK l \in Nat, base \in Nat : l = Len(F) /\ base = a + 1 /\ base <= l + 1
      BY <1>3 DEF Parts
    <2>2. A \in SUBSET Nat
      BY <1>3, <1>4, KindIn DEF Parts
    <2>3. Listed(F, base .. l, f, A)
      BY <1>3, <1>4, <2>1 DEF Parts
    <2>4. Cardinality(A) = l + 1 - base
      BY ONLY <2>1, <2>2, <2>3, ListedCounts
    <2>5. QED
      BY <1>3, <2>1, <2>4 DEF Parts
  <1>6. At(self, "foreach") = A
    BY <1>2, <1>4, AtKind
  <1>7. forStack' = Cut(forStack, me.loops)
    <2>1. Len(F) \in Nat /\ a \in Nat
      BY <1>3 DEF Parts
    <2>2. Len(F) - Cardinality(A) = a
      BY <1>5, <2>1
    <2>3. forStack' = Cut(F, Len(F) - Cardinality(A))
      BY <1>2, <1>6 DEF Return
    <2>4. QED
      BY ONLY <1>2, <2>2, <2>3
  <1>8. /\ self # Main /\ calls' = Front(calls) /\ scopeStack' = Cut(scopeStack, me.scopes)
        /\ closure' = [closure EXCEPT ![self] = New] /\ inside' = [inside EXCEPT ![self] = <<>>]
        /\ Release(self)
    BY DEF Return
  <1>9. Len(calls) > 1
    <2>1. calls # <<>> /\ calls[1].who = Main /\ Len(calls) \in Nat \ {0} /\ self = calls[Len(calls)].who
      BY <1>1, Top DEF StackInv, TypeOK
    <2>2. QED
      BY <1>8, <2>1
  <1>10. held' = Cardinality(Running(calls')) /\ held' \in 0 .. Len(calls')
    BY <1>8, <1>9, HeldLess
  <1>11. PICK c, none : Leaving(f, c, none)
    <2>1. /\ New \in [status : {"new", "suspended"}, loops : Seq(Mark), scopes : Seq(Mark)]
          /\ New.status = "new"
      BY DEF New
    <2>2. PICK c, none : c = New /\ none = <<>>
      OBVIOUS
    <2>3. none \in Seq(Construct) /\ Len(none) <= Depth
      BY <2>2, DepthAssumption
    <2>4. Leaving(f, c, none)
      BY ONLY <1>2, <1>7, <1>8, <1>10, <2>1, <2>2, <2>3 DEF Leaving
    <2>5. QED
      BY ONLY <2>4
  <1>12. StackInv'
    BY ONLY <1>1, <1>11, LeavingRight
  <1>13. QED
    BY <1>10, <1>12 DEF CoInv, MonitorsFollow, Running

\* What a gentle yield takes off the stacks, kept as it was.
LEMMA YieldSaves ==
    ASSUME NEW F, NEW S, NEW body, NEW f, NEW a, NEW b, NEW tr, Parts(F, S, body, f, a, b, tr),
           Kind(body, "try") = {}, Cardinality(Kind(body, "foreach")) <= 1,
           NEW L, L = Above(F, a), NEW T, T = Above(S, b)
    PROVE  /\ tr = <<>> /\ L \in Seq(Mark) /\ T \in Seq(Mark) /\ Reverse(L) = L
           /\ Listed(L, 1 .. Len(L), f, Kind(body, "foreach"))
           /\ T # <<>> /\ T[1] = <<f, 0>>
           /\ Listed(T, 2 .. Len(T), f, Kind(body, "block"))
  <1>1. /\ F \in Seq(Mark) /\ S \in Seq(Mark) /\ tr \in Seq(Handler) /\ body \in Seq(Construct)
        /\ a \in Nat /\ b \in Nat /\ a <= Len(F) /\ b < Len(S)
        /\ Listed(F, a + 1 .. Len(F), f, Kind(body, "foreach"))
        /\ S[b + 1] = <<f, 0>>
        /\ Listed(S, b + 2 .. Len(S), f, Kind(body, "block"))
        /\ Listed(Depths(tr, f), DOMAIN tr, f, Kind(body, "try"))
    BY DEF Parts
  <1>2. PICK l \in Nat, e \in Nat : l = Len(F) /\ e = Len(S)
    BY <1>1
  <1>3. /\ L \in Seq(Mark) /\ Len(L) = l - a /\ \A j \in 1 .. l - a : L[j] = F[j + a]
        /\ T \in Seq(Mark) /\ Len(T) = e - b /\ \A j \in 1 .. e - b : T[j] = S[j + b]
    BY <1>1, <1>2, SMTT(30) DEF Above
  <1>4. tr = <<>>
    <2>1. DOMAIN tr = {}
      BY <1>1 DEF Listed
    <2>2. QED
      BY <1>1, <2>1
  <1>5. Listed(L, 1 .. Len(L), f, Kind(body, "foreach"))
    <2>1. PICK base \in Nat, o \in Int : base = a + 1 /\ o = 0 - a
      BY <1>1
    <2>1b. PICK A : A = Kind(body, "foreach")
      OBVIOUS
    <2>2. Listed(F, base .. l, f, A)
      BY <1>1, <1>2, <2>1, <2>1b
    <2>3. \A j \in base .. l : L[j + o] = F[j]
      <3> TAKE j \in base .. l
      <3>1. j + o \in 1 .. l - a /\ (j + o) + a = j
        BY <1>1, <2>1, <2>1b
      <3>2. QED
        BY <1>3, <3>1
    <2>4. Listed(L, base + o .. l + o, f, A)
      <3>1. base \in Nat /\ l \in Nat /\ o \in Int
        OBVIOUS
      <3>2. QED
        BY ONLY <2>2, <2>3, <3>1, ListedShifts, Zenon
    <2>5. base + o = 1 /\ l + o = Len(L)
      BY <1>1, <1>3, <2>1, <2>1b
    <2>6. QED
      BY ONLY <2>1, <2>1b, <2>4, <2>5
  <1>6. Listed(T, 2 .. Len(T), f, Kind(body, "block"))
    <2>0. b + 2 \in Nat /\ 0 - b \in Int
      BY <1>1
    <2>1. PICK base \in Nat, o \in Int : base = b + 2 /\ o = 0 - b
      BY <2>0
    <2>1b. PICK A : A = Kind(body, "block")
      OBVIOUS
    <2>2. Listed(S, base .. e, f, A)
      BY <1>1, <1>2, <2>1, <2>1b
    <2>3. \A j \in base .. e : T[j + o] = S[j]
      <3> TAKE j \in base .. e
      <3>1. j + o \in 1 .. e - b /\ (j + o) + b = j
        BY <1>1, <2>1, <2>1b
      <3>2. QED
        BY <1>3, <3>1
    <2>4. Listed(T, base + o .. e + o, f, A)
      <3>1. base \in Nat /\ e \in Nat /\ o \in Int
        OBVIOUS
      <3>2. QED
        BY ONLY <2>2, <2>3, <3>1, ListedShifts, Zenon
    <2>5. base + o = 2 /\ e + o = Len(T)
      BY <1>1, <1>3, <2>1, <2>1b
    <2>6. QED
      BY ONLY <2>1, <2>1b, <2>4, <2>5
  <1>7. T # <<>> /\ T[1] = <<f, 0>>
    <2>1. 1 \in 1 .. e - b /\ 1 + b = b + 1
      BY <1>1, <1>2
    <2>2. T[1] = S[b + 1]
      BY <1>3, <2>1
    <2>3. Len(T) > 0
      BY <1>1, <1>2, <1>3
    <2>4. QED
      BY <1>1, <1>3, <2>2, <2>3
  <1>8. Len(L) <= 1
    <2>0. Len(L) \in Nat
      BY <1>3
    <2>1. PICK one \in Nat, m \in Nat : one = 1 /\ m = Len(L)
      BY <2>0
    <2>2. one <= m + 1
      BY <2>1
    <2>3. PICK A \in SUBSET Nat : A = Kind(body, "foreach")
      BY <1>1, KindIn
    <2>4. Listed(L, one .. m, f, A)
      BY <1>5, <2>1, <2>3
    <2>5. Cardinality(A) = m + 1 - one
      BY ONLY <2>1, <2>3, <2>4, <2>2, ListedCounts
    <2>6. QED
      BY <2>1, <2>3, <2>5
  <1>9. Reverse(L) = L
    <2>1. PICK m \in Nat : m = Len(L) /\ m <= 1
      BY <1>3, <1>8
    <2>2. \A i \in 1 .. m : (m - i) + 1 = i
      BY <2>1
    <2>3. Reverse(L) = [i \in 1 .. m |-> L[(m - i) + 1]]
      BY <2>1 DEF Reverse
    <2>4. L = [i \in 1 .. m |-> L[i]]
      BY <1>3, <2>1
    <2>5. [i \in 1 .. m |-> L[(m - i) + 1]] = [i \in 1 .. m |-> L[i]]
      BY <2>2
    <2>6. QED
      BY ONLY <2>3, <2>4, <2>5
  <1>10. QED
    BY <1>3, <1>4, <1>5, <1>6, <1>7, <1>9

LEMMA StepYield ==
    ASSUME CoInv, Gentle, Yield
    PROVE  CoInv'
  <1>1. StackInv
    BY DEF CoInv
  <1>2. PICK F, S, body, f, a, b, tr :
             /\ F = forStack /\ S = scopeStack /\ body = inside[self] /\ f = self
             /\ a = me.loops /\ b = me.scopes /\ tr = me.tries
    OBVIOUS
  <1>3. Parts(F, S, body, f, a, b, tr)
    BY <1>1, <1>2, TopParts
  <1>4. Kind(body, "try") = {} /\ Cardinality(Kind(body, "foreach")) <= 1
    <2>1. At(self, "try") = {} /\ Cardinality(At(self, "foreach")) <= 1
      BY DEF Yield, Suspended, Allowed
    <2>2. QED
      BY <1>2, <2>1, AtKind
  <1>5. PICK L, T : L = Above(F, a) /\ T = Above(S, b)
    OBVIOUS
  <1>6. /\ tr = <<>> /\ L \in Seq(Mark) /\ T \in Seq(Mark) /\ Reverse(L) = L
        /\ Listed(L, 1 .. Len(L), f, Kind(body, "foreach"))
        /\ T # <<>> /\ T[1] = <<f, 0>>
        /\ Listed(T, 2 .. Len(T), f, Kind(body, "block"))
    BY ONLY <1>3, <1>4, <1>5, YieldSaves
  <1>7. Unwound = forStack
    BY <1>2, <1>6 DEF Unwound
  <1>8. PICK c : c = [status |-> "suspended", loops |-> L, scopes |-> T]
    OBVIOUS
  <1>9. /\ self # Main /\ calls' = Front(calls) /\ forStack' = Cut(forStack, me.loops)
        /\ scopeStack' = Cut(scopeStack, me.scopes) /\ Release(self) /\ inside' = inside
        /\ closure' = [closure EXCEPT ![f] = c]
    <2>1. save_state(Above(Unwound, me.loops), Above(scopeStack, me.scopes)) = c
      BY <1>2, <1>5, <1>6, <1>7, <1>8 DEF save_state
    <2>2. closure' = [closure EXCEPT ![self] =
                         save_state(Above(Unwound, me.loops), Above(scopeStack, me.scopes))]
      BY DEF Yield, Suspended
    <2>3. QED
      BY <1>2, <1>7, <2>1, <2>2 DEF Yield, Suspended
  <1>10. Len(calls) > 1 /\ f \in Function
    <2>1. calls # <<>> /\ calls[1].who = Main /\ Len(calls) \in Nat \ {0} /\ self = calls[Len(calls)].who
          /\ self \in Body
      BY <1>1, Top DEF StackInv, TypeOK
    <2>2. QED
      BY <1>2, <1>9, <2>1 DEF Body
  <1>11. held' = Cardinality(Running(calls')) /\ held' \in 0 .. Len(calls')
    BY <1>9, <1>10, HeldLess
  <1>12. closure'[f] = c
    BY <1>1, <1>9, <1>10 DEF StackInv, TypeOK
  <1>13. Saved(f)'
    <2>1. \A x : At(f, x)' = Kind(body, x)
      BY <1>2, <1>9 DEF At, Kind
    <2>2. c.loops = L /\ c.scopes = T
      BY <1>8
    <2>3. PICK none, loops, blocks :
               /\ none = Kind(body, "try") /\ loops = Kind(body, "foreach")
               /\ blocks = Kind(body, "block")
      OBVIOUS
    <2>4. /\ At(f, "try")' = {} /\ At(f, "foreach")' = loops /\ At(f, "block")' = blocks
      BY <1>4, <2>1, <2>3
    <2>5. Lists(L, 1 .. Len(L), f, "foreach")' /\ Lists(T, 2 .. Len(T), f, "block")'
      BY <1>6, <2>3, <2>4 DEF Lists, Listed
    <2>6. closure'[f].loops = L /\ closure'[f].scopes = T
      BY <1>12, <2>2
    <2>7. QED
      BY <1>6, <2>4, <2>5, <2>6 DEF Saved
  <1>14. Leaving(f, c, body)
    <2>1. /\ c \in [status : {"new", "suspended"}, loops : Seq(Mark), scopes : Seq(Mark)]
          /\ c.status = "suspended"
      BY <1>6, <1>8
    <2>2. /\ body \in Seq(Construct) /\ Len(body) <= Depth
      BY <1>3 DEF Parts
    <2>3. inside' = [inside EXCEPT ![f] = body]
      BY <1>1, <1>2, <1>9 DEF StackInv, TypeOK
    <2>4. QED
      BY ONLY <1>2, <1>9, <1>11, <1>13, <2>1, <2>2, <2>3 DEF Leaving
  <1>15. StackInv'
    BY ONLY <1>1, <1>14, LeavingRight
  <1>16. QED
    BY <1>11, <1>15 DEF CoInv, MonitorsFollow, Running

-----------------------------------------------------------------------------
(***************************************************************************)
(* An exception goes to the handler of the activation number k.            *)
(***************************************************************************)
Unrolls(cs, k, less, gone) ==
    /\ cs \in Seq(Activation) /\ k \in 1 .. Len(cs)
    /\ less \in Seq(Activation) /\ Len(less) = k
    /\ \A n \in 1 .. k : less[n].who = cs[n].who
    /\ \A m, n \in DOMAIN cs : cs[m].who = cs[n].who => m = n
    /\ gone = {cs[j].who : j \in k + 1 .. Len(cs)}

LEMMA RunningGone ==
    ASSUME NEW cs, NEW k, NEW less, NEW gone, Unrolls(cs, k, less, gone)
    PROVE  Cardinality(Running(less)) = Cardinality(Running(cs)) - Cardinality(gone \cap Methods)
  <1>0. /\ cs \in Seq(Activation) /\ k \in 1 .. Len(cs) /\ Len(cs) \in Nat
        /\ less \in Seq(Activation) /\ Len(less) = k
        /\ \A n \in 1 .. k : less[n].who = cs[n].who
        /\ \A m, n \in DOMAIN cs : cs[m].who = cs[n].who => m = n
        /\ gone = {cs[j].who : j \in k + 1 .. Len(cs)}
    BY DEF Unrolls
  <1>1. PICK N \in Nat : N = Len(cs)
    BY <1>0
  <1>1b. PICK R, M : R = Running(cs) /\ M = Running(less)
    OBVIOUS
  <1>2. PICK D : D = {j \in k + 1 .. N : cs[j].who \in Methods}
    OBVIOUS
  <1>3. DOMAIN cs = 1 .. N /\ DOMAIN less = 1 .. k /\ k \in 1 .. N
    BY <1>0, <1>1, <1>1b
  <1>4. \A n : n \in 1 .. N <=> n \in 1 .. k \/ n \in k + 1 .. N
    BY <1>3
  <1>5. \A n : ~(n \in 1 .. k /\ n \in k + 1 .. N)
    BY <1>3
  <1>6. R = {n \in 1 .. N : cs[n].who \in Methods} /\ M = {n \in 1 .. k : cs[n].who \in Methods}
    BY <1>0, <1>1, <1>1b, <1>3 DEF Running
  <1>7. M = R \ D /\ R \cap D = D
    BY <1>2, <1>4, <1>5, <1>6
  <1>8. IsFiniteSet(R) /\ Cardinality(R) \in Nat
    BY <1>0, <1>1, <1>1b, RunningSize
  <1>9. IsFiniteSet(D) /\ Cardinality(M) = Cardinality(R) - Cardinality(D)
    <2>1. D \subseteq R
      BY <1>7
    <2>2. IsFiniteSet(D)
      BY <1>8, <2>1, FS_Subset
    <2>3. Cardinality(R \ D) = Cardinality(R) - Cardinality(R \cap D)
      BY <1>8, FS_Difference
    <2>4. QED
      BY <1>7, <2>2, <2>3
  <1>10. Cardinality(gone \cap Methods) = Cardinality(D)
    <2> DEFINE g == [j \in D |-> cs[j].who]
    <2>1. \A j \in D : j \in k + 1 .. N /\ cs[j].who \in Methods /\ j \in DOMAIN cs
      BY <1>2, <1>3, <1>4
    <2>2. \A x \in gone \cap Methods : \E j \in D : cs[j].who = x
      BY <1>0, <1>1, <1>1b, <1>2
    <2>3. \A j \in D : cs[j].who \in gone \cap Methods
      BY <1>0, <1>1, <1>1b, <1>2, <2>1
    <2>4. g \in Surjection(D, gone \cap Methods)
      BY <2>2, <2>3 DEF Surjection
    <2>5. \A i, j \in D : g[i] = g[j] => i = j
      BY <1>0, <2>1
    <2>6. g \in Injection(D, gone \cap Methods)
      BY <2>3, <2>5 DEF Injection, IsInjective
    <2> HIDE DEF g
    <2>7. QED
      BY <1>9, <2>4, <2>6, FS_Surjection
  <1>11. QED
    BY <1>1, <1>1b, <1>9, <1>10

LEMMA StepUnwind ==
    ASSUME CoInv, NEW n, n \in 0 .. Len(calls), Unwind(n)
    PROVE  CoInv'
  <1>1. StackInv /\ held = Cardinality(Running(calls))
    BY DEF CoInv, MonitorsFollow, Running
  <1>2. PICK k \in 1 .. n :
             /\ calls[k].tries # <<>>
             /\ LET h    == Last(calls[k].tries)
                    gone == {calls[j].who : j \in k + 1 .. Len(calls)}
                IN  /\ forStack' = Cut(forStack, h.loops)
                    /\ scopeStack' = Cut(scopeStack, h.scopes)
                    /\ calls' = [Cut(calls, k) EXCEPT ![k].tries = Front(@)]
                    /\ held' = held - Cardinality(gone \cap Methods)
                    /\ closure' = [g \in Function |-> IF g \in gone THEN New ELSE closure[g]]
                    /\ inside' = [g \in Body |-> IF g \in gone THEN <<>>
                                                 ELSE IF g = calls[k].who THEN Cut(inside[g], h.at - 1)
                                                 ELSE inside[g]]
    BY DEF Unwind
  <1>3. PICK N, h, gone, f, a, b, tr, body, l, e :
             /\ N = Len(calls) /\ h = Last(calls[k].tries)
             /\ gone = {calls[j].who : j \in k + 1 .. N}
             /\ f = calls[k].who /\ a = calls[k].loops /\ b = calls[k].scopes
             /\ tr = calls[k].tries /\ body = inside[f]
             /\ l = LoopEnd(k) /\ e = ScopeEnd(k)
    OBVIOUS
  <1>4. /\ calls \in Seq(Activation) /\ calls # <<>> /\ calls[1].who = Main
        /\ forStack \in Seq(Mark) /\ scopeStack \in Seq(Mark)
        /\ closure \in [Function -> [status : {"new", "running", "suspended"},
                                     loops : Seq(Mark), scopes : Seq(Mark)]]
        /\ inside \in [Body -> Seq(Construct)] /\ \A g \in Body : Len(inside[g]) <= Depth
    BY <1>1 DEF StackInv, TypeOK
  <1>5. N \in Nat \ {0} /\ DOMAIN calls = 1 .. N /\ k \in 1 .. N
    BY <1>1, <1>3, Top
  <1>6. k \in DOMAIN calls /\ calls[k] \in Activation
    BY <1>1, <1>5, Top
  <1>7. PICK F, S : F = Cut(forStack, l) /\ S = Cut(scopeStack, e)
    OBVIOUS
  <1>8. /\ Parts(F, S, body, f, a, b, tr) /\ tr \in Seq(Handler) /\ f \in Body
        /\ Len(F) = l /\ Len(S) = e
    BY <1>1, <1>3, <1>6, <1>7, RightParts
  <1>9. /\ l \in Nat /\ l <= Len(forStack) /\ e \in Nat /\ e <= Len(scopeStack)
        /\ a \in Nat /\ b \in Nat
    BY <1>1, <1>3, <1>6, Top
  <1>10. PICK G, T, less, rest :
              /\ G = Cut(F, h.loops) /\ T = Cut(S, h.scopes) /\ less = Cut(body, h.at - 1)
              /\ rest = Front(tr)
    OBVIOUS
  <1>11. /\ Parts(G, T, less, f, a, b, rest)
         /\ h.loops \in a .. l /\ h.scopes \in b + 1 .. e
    <2>1. tr # <<>> /\ h = Last(tr)
      BY <1>2, <1>3
    <2>2. /\ Parts(Cut(F, h.loops), Cut(S, h.scopes), Cut(body, h.at - 1), f, a, b, Front(tr))
          /\ h.loops \in a .. Len(F) /\ h.scopes \in b + 1 .. Len(S)
      BY ONLY <1>8, <2>1, HandlerCatches
    <2>3. QED
      BY ONLY <1>8, <1>10, <2>2
  <1>12. /\ G \in Seq(Mark) /\ T \in Seq(Mark) /\ rest \in Seq(Handler)
         /\ less \in Seq(Construct) /\ Len(less) <= Depth /\ a <= Len(G) /\ b < Len(T)
    BY <1>11 DEF Parts
  <1>13. /\ forStack' = Cut(forStack, h.loops) /\ scopeStack' = Cut(scopeStack, h.scopes)
         /\ calls' = [Cut(calls, k) EXCEPT ![k].tries = rest]
         /\ held' = held - Cardinality(gone \cap Methods)
         /\ closure' = [g \in Function |-> IF g \in gone THEN New ELSE closure[g]]
         /\ inside' = [g \in Body |-> IF g \in gone THEN <<>>
                                      ELSE IF g = f THEN Cut(inside[g], h.at - 1)
                                      ELSE inside[g]]
    <2>1. Cut(calls, k)[k] = calls[k]
      BY <1>3, <1>4, <1>5 DEF Cut
    <2>2. [Cut(calls, k) EXCEPT ![k].tries = Front(@)] = [Cut(calls, k) EXCEPT ![k].tries = rest]
      BY <1>3, <1>10, <2>1
    <2>3. QED
      BY <1>2, <1>3, <2>2
  <1>14. forStack' = G /\ scopeStack' = T
    <2>1. PICK x \in Nat, y \in Nat : x = h.loops /\ y = h.scopes /\ x <= l /\ y <= e
      BY <1>9, <1>11
    <2>2. Cut(forStack, x) = Cut(F, x)
      BY <1>4, <1>7, <1>9, <2>1 DEF Cut
    <2>3. Cut(scopeStack, y) = Cut(S, y)
      BY <1>4, <1>7, <1>9, <2>1 DEF Cut
    <2>4. QED
      BY ONLY <1>10, <1>13, <2>1, <2>2, <2>3
  <1>15. PICK top : top = [calls[k] EXCEPT !.tries = rest]
    OBVIOUS
  <1>16. top \in Activation /\ top.who = f /\ top.loops = a /\ top.scopes = b /\ top.tries = rest
    BY <1>3, <1>6, <1>12, <1>15 DEF Activation
  <1>17. PICK later : later = calls'
    OBVIOUS
  <1>18. /\ later \in Seq(Activation) /\ Len(later) = k /\ DOMAIN later = 1 .. k
         /\ \A m \in 1 .. k - 1 : later[m] = calls[m]
         /\ later[k] = top
    <2>1. PICK cs : cs = Cut(calls, k)
      OBVIOUS
    <2>2. /\ cs \in Seq(Activation) /\ Len(cs) = k /\ \A m \in 1 .. k : cs[m] = calls[m]
          /\ k \in 1 .. k
      BY <1>3, <1>4, <1>5, <2>1 DEF Cut
    <2>3. later = [cs EXCEPT ![k] = [cs[k] EXCEPT !.tries = rest]]
      BY ONLY <1>13, <1>17, <2>1
    <2>4. cs[k] = calls[k]
      BY <2>2
    <2>5. later = [cs EXCEPT ![k] = top]
      BY ONLY <1>15, <2>3, <2>4
    <2>6. QED
      BY ONLY <1>5, <1>16, <2>2, <2>5
  <1>19. \A m \in 1 .. k : later[m].who = calls[m].who
    <2> TAKE m \in 1 .. k
    <2>1. m = k \/ m \in 1 .. k - 1
      BY <1>5
    <2>2. QED
      BY <1>3, <1>16, <1>18, <2>1
  <1>20. \A i, j \in 1 .. N : calls[i].who = calls[j].who => i = j
    BY <1>1, <1>5 DEF StackInv, OneEach
  <1>21. /\ \A m \in 1 .. k : calls[m].who \notin gone
         /\ \A m \in 1 .. k - 1 : calls[m].who # f
    <2>1. \A m \in 1 .. k : m \in 1 .. N /\ \A j \in k + 1 .. N : j \in 1 .. N /\ j # m
      BY <1>5
    <2>2. \A m \in 1 .. k - 1 : m \in 1 .. N /\ m # k
      BY <1>5
    <2>3. QED
      BY <1>3, <1>5, <1>20, <2>1, <2>2
  <1>22. \A m \in 1 .. k : calls[m].who \in Body
    <2> TAKE m \in 1 .. k
    <2>1. m \in DOMAIN calls
      BY <1>5
    <2>2. calls[m] \in Activation
      BY <1>1, <2>1, Top
    <2>3. QED
      BY <2>2 DEF Activation
  <1>23. /\ inside' \in [Body -> Seq(Construct)]
         /\ inside'[f] = less
         /\ \A g \in Body : g \in gone => inside'[g] = <<>>
         /\ \A g \in Body : g \notin gone /\ g # f => inside'[g] = inside[g]
    <2>1. f \notin gone
      BY <1>3, <1>5, <1>21
    <2>2. inside'[f] = less
      BY <1>3, <1>8, <1>10, <1>13, <2>1
    <2>3. \A g \in Body : g \in gone => inside'[g] = <<>>
      BY <1>13
    <2>4. \A g \in Body : g \notin gone /\ g # f => inside'[g] = inside[g]
      BY <1>13
    <2>5. \A g \in Body : inside'[g] \in Seq(Construct)
      <3>1. PICK none : none = <<>>
        OBVIOUS
      <3>2. none \in Seq(Construct)
        BY <3>1
      <3>3. QED
        BY <1>4, <1>12, <2>2, <2>3, <2>4, <3>1, <3>2
    <2>6. \E w : inside' = [g \in Body |-> w[g]]
      <3>1. inside' = [g \in Body |-> inside'[g]]
        BY <1>13
      <3>2. QED
        BY <3>1
    <2>7. QED
      BY <2>2, <2>3, <2>4, <2>5, <2>6
  <1>24. \A g \in Body : Len(inside'[g]) <= Depth
    <2> TAKE g \in Body
    <2>1. CASE g \in gone
      BY <1>23, <2>1, DepthAssumption
    <2>2. CASE g \notin gone
      BY <1>4, <1>12, <1>23, <2>2
    <2>3. QED
      BY <2>1, <2>2
  <1>25. /\ closure' \in [Function -> [status : {"new", "running", "suspended"},
                                       loops : Seq(Mark), scopes : Seq(Mark)]]
         /\ \A g \in Function : g \in gone => closure'[g].status = "new"
         /\ \A g \in Function : g \notin gone => closure'[g] = closure[g]
    <2>1. /\ New \in [status : {"new", "running", "suspended"}, loops : Seq(Mark), scopes : Seq(Mark)]
          /\ New.status = "new"
      BY DEF New
    <2>2. QED
      BY <1>4, <1>13, <2>1
  <1>26. held' = Cardinality(Running(later)) /\ held' \in 0 .. Len(later)
    <2>1. Cardinality(Running(later)) = Cardinality(Running(calls)) - Cardinality(gone \cap Methods)
      <3>1. Unrolls(calls, k, later, gone)
        BY <1>3, <1>4, <1>5, <1>18, <1>19, <1>20 DEF Unrolls
      <3>2. QED
        BY ONLY <3>1, RunningGone
    <2>2. QED
      BY <1>1, <1>13, <1>18, <2>1, RunningSize
  <1>27. TypeOK'
    <2>1. later # <<>> /\ later[1].who = Main
      <3>1. 1 \in 1 .. k
        BY <1>5
      <3>2. QED
        BY <1>4, <1>18, <1>19, <3>1
    <2>2. QED
      BY <1>12, <1>14, <1>17, <1>18, <1>23, <1>24, <1>25, <1>26, <2>1 DEF TypeOK
  <1>28. ClosuresRight'
    <2> SUFFICES ASSUME NEW g \in Function
                 PROVE  /\ closure'[g].status = "new" => inside'[g] = <<>>
                        /\ closure'[g].status = "suspended" => Saved(g)'
                        /\ closure'[g].status = "running"
                              <=> \E m \in DOMAIN calls' : calls'[m].who = g
      BY DEF ClosuresRight
    <2>1. (\E m \in DOMAIN calls' : calls'[m].who = g) <=> \E m \in 1 .. k : calls[m].who = g
      BY <1>17, <1>18, <1>19
    <2>2. CASE g \in gone
      <3>1. closure'[g].status = "new" /\ inside'[g] = <<>>
        BY <1>23, <1>25, <2>2 DEF Body
      <3>2. QED
        BY <1>21, <2>1, <2>2, <3>1
    <2>3. CASE g \notin gone
      <3>1. closure'[g] = closure[g]
        BY <1>25, <2>3
      <3>2. (\E m \in 1 .. k : calls[m].who = g) <=> \E m \in DOMAIN calls : calls[m].who = g
        <4>1. \A m \in 1 .. N : m \in 1 .. k \/ m \in k + 1 .. N
          BY <1>5
        <4>2. \A m \in 1 .. k : m \in 1 .. N
          BY <1>5
        <4>3. QED
          BY <1>3, <1>5, <2>3, <4>1, <4>2
      <3>3. closure[g].status = "running" <=> \E m \in DOMAIN calls : calls[m].who = g
        BY <1>1 DEF StackInv, ClosuresRight
      <3>4. ASSUME closure[g].status # "running"
            PROVE  inside'[g] = inside[g]
        <4>1. g # f
          BY <1>3, <1>6, <3>3, <3>4
        <4>2. QED
          BY <1>23, <2>3, <4>1 DEF Body
      <3>5. ASSUME closure[g].status = "suspended"
            PROVE  Saved(g)'
        <4>1. Saved(g)
          BY <1>1, <3>5 DEF StackInv, ClosuresRight
        <4>2. \A x : At(g, x)' = At(g, x)
          BY <3>4, <3>5 DEF At
        <4>3. QED
          BY <3>1, <4>1, <4>2 DEF Saved, Lists
      <3>6. closure[g].status = "new" => inside'[g] = <<>>
        BY <1>1, <3>4 DEF StackInv, ClosuresRight
      <3>7. QED
        BY <2>1, <3>1, <3>2, <3>3, <3>5, <3>6
    <2>4. QED
      BY <2>2, <2>3
  <1>29. Right(k)'
    <2>1. LoopEnd(k)' = Len(G) /\ ScopeEnd(k)' = Len(T)
      BY <1>14, <1>17, <1>18 DEF LoopEnd, ScopeEnd
    <2>2. /\ k \in DOMAIN calls' /\ calls'[k].who = f /\ calls'[k].loops = a
          /\ calls'[k].scopes = b /\ calls'[k].tries = rest /\ inside'[f] = less
      BY <1>5, <1>16, <1>17, <1>18, <1>23
    <2>3. /\ \A j \in 1 .. Len(G) : forStack'[j] = G[j]
          /\ \A j \in 1 .. Len(T) : scopeStack'[j] = T[j]
      BY <1>14
    <2>4. QED
      BY ONLY <1>11, <2>1, <2>2, <2>3, PartsRight
  <1>30. StackInv'
    <2>1. \A m \in 1 .. k - 1 : inside'[calls[m].who] = inside[calls[m].who]
      <3>1. \A m \in 1 .. k - 1 : m \in 1 .. k
        BY <1>5
      <3>2. QED
        BY <1>21, <1>22, <1>23, <3>1
    <2>2. /\ \A j \in 1 .. a : forStack'[j] = forStack[j]
          /\ \A j \in 1 .. b : scopeStack'[j] = scopeStack[j]
      <3>1. PICK x \in Nat, y \in Nat : x = h.loops /\ y = h.scopes /\ a <= x /\ x <= l /\ b < y /\ y <= e
        BY <1>9, <1>11
      <3>2. G = Cut(forStack, x) /\ T = Cut(scopeStack, y)
        BY ONLY <1>13, <1>14, <3>1
      <3>3. x <= Len(forStack) /\ y <= Len(scopeStack)
        BY <1>4, <1>9, <3>1
      <3>4. \A j \in 1 .. x : G[j] = forStack[j]
        <4>1. G = SubSeq(forStack, 1, x) /\ x \in Nat /\ forStack \in Seq(Mark)
          BY ONLY <1>4, <3>1, <3>2 DEF Cut
        <4>2. QED
          BY ONLY <3>3, <4>1
      <3>5. \A j \in 1 .. y : T[j] = scopeStack[j]
        BY <1>4, <3>1, <3>2, <3>3 DEF Cut
      <3>6. /\ \A j \in 1 .. a : j \in 1 .. x
            /\ \A j \in 1 .. b : j \in 1 .. y
        BY <1>9, <3>1
      <3>7. QED
        BY <1>14, <3>4, <3>5, <3>6
    <2>3. /\ Len(calls') = k /\ \A m \in 1 .. k - 1 : calls'[m] = calls[m]
          /\ calls'[k].who = calls[k].who /\ calls'[k].loops = calls[k].loops
          /\ calls'[k].scopes = calls[k].scopes
          /\ calls[k].loops <= Len(forStack') /\ calls[k].scopes < Len(scopeStack')
          /\ \A j \in 1 .. calls[k].loops : forStack'[j] = forStack[j]
          /\ \A j \in 1 .. calls[k].scopes : scopeStack'[j] = scopeStack[j]
      BY <1>3, <1>12, <1>14, <1>16, <1>17, <1>18, <2>2
    <2>4. QED
      BY ONLY <1>1, <1>6, <1>27, <1>28, <1>29, <2>1, <2>3, Leaves
  <1>31. QED
    BY <1>17, <1>26, <1>30 DEF CoInv, MonitorsFollow, Running

-----------------------------------------------------------------------------
(***************************************************************************)
(* The theorems.                                                           *)
(***************************************************************************)
LEMMA Begins ==
    ASSUME Init
    PROVE  CoInv
  <1>1. PICK main, none, marks :
             /\ main = [who |-> Main, dest |-> TRUE, loops |-> 0, scopes |-> 0, tries |-> <<>>]
             /\ none = <<>> /\ marks = <<<<Main, 0>>>>
    OBVIOUS
  <1>2. /\ calls = <<main>> /\ forStack = none /\ scopeStack = marks
        /\ closure = [f \in Function |-> New] /\ held = 0 /\ inside = [f \in Body |-> none]
    BY <1>1 DEF Init
  <1>3. /\ main \in Activation /\ main.who = Main /\ main.loops = 0 /\ main.scopes = 0
        /\ main.tries = none
    BY <1>1 DEF Activation, Body
  <1>4. /\ calls \in Seq(Activation) /\ Len(calls) = 1 /\ DOMAIN calls = {1} /\ calls[1] = main
        /\ calls # <<>> /\ calls[Len(calls)] = main
    BY <1>2, <1>3
  <1>5. /\ none \in Seq(Mark) /\ Len(none) = 0 /\ none \in Seq(Construct) /\ none \in Seq(Handler)
        /\ DOMAIN none = {}
    BY <1>1
  <1>6. /\ marks \in Seq(Mark) /\ Len(marks) = 1 /\ marks[1] = <<Main, 0>>
    <2>1. <<Main, 0>> \in Mark
      BY DepthAssumption DEF Mark, Body
    <2>2. PICK x \in Mark : x = <<Main, 0>>
      BY <2>1
    <2>3. QED
      BY <1>1, <2>2
  <1>7. New \in [status : {"new", "running", "suspended"}, loops : Seq(Mark), scopes : Seq(Mark)]
        /\ New.status = "new"
    BY DEF New
  <1>8. TypeOK
    <2>1. inside \in [Body -> Seq(Construct)] /\ \A f \in Body : Len(inside[f]) <= Depth
      BY <1>2, <1>5, DepthAssumption
    <2>2. closure \in [Function -> [status : {"new", "running", "suspended"},
                                    loops : Seq(Mark), scopes : Seq(Mark)]]
      BY <1>2, <1>7
    <2>3. QED
      BY <1>2, <1>3, <1>4, <1>5, <1>6, <2>1, <2>2 DEF TypeOK
  <1>9. Bases
    BY <1>2, <1>3, <1>4, <1>5, <1>6 DEF Bases
  <1>10. OneEach
    BY <1>4 DEF OneEach
  <1>11. ClosuresRight
    <2>1. \A f \in Function : f # Main /\ f \in Body
      BY FunctionAssumption DEF Body
    <2>2. \A f \in Function : closure[f].status = "new" /\ inside[f] = <<>>
      BY <1>1, <1>2, <1>7, <2>1
    <2>3. QED
      BY <1>3, <1>4, <2>1, <2>2 DEF ClosuresRight
  <1>12. \A c : At(Main, c) = {}
    BY <1>2, <1>5 DEF At, Body
  <1>13. LoopEnd(1) = 0 /\ ScopeEnd(1) = 1
    BY <1>2, <1>4, <1>5, <1>6 DEF LoopEnd, ScopeEnd
  <1>14. Right(1)
    <2>1. LoopsRight(1)
      BY <1>3, <1>4, <1>12, <1>13 DEF LoopsRight, Lists
    <2>2. ScopesRight(1)
      BY <1>2, <1>3, <1>4, <1>6, <1>12, <1>13 DEF ScopesRight, Lists
    <2>3. TriesRight(1)
      BY <1>3, <1>4, <1>5, <1>12 DEF TriesRight, Lists
    <2>4. HandlersFit(1)
      BY <1>3, <1>4, <1>5 DEF HandlersFit, Fits
    <2>5. QED
      BY <2>1, <2>2, <2>3, <2>4 DEF Right
  <1>15. MonitorsFollow
    <2>1. \A n \in DOMAIN calls : calls[n].who \notin Methods
      BY <1>3, <1>4, FunctionAssumption
    <2>2. {n \in DOMAIN calls : calls[n].who \in Methods} = {}
      BY <2>1
    <2>3. QED
      BY <1>2, <2>2, FS_EmptySet DEF MonitorsFollow
  <1>16. QED
    BY <1>4, <1>8, <1>9, <1>10, <1>11, <1>14, <1>15 DEF CoInv, StackInv

\* A step inside a body counts nothing.
LEMMA CountStays ==
    ASSUME CoInv, held' = held,
           \/ calls' = calls
           \/ \E t : calls' = [calls EXCEPT ![Len(calls)].tries = t]
    PROVE  MonitorsFollow'
  <1>1. /\ calls \in Seq(Activation) /\ MonitorsFollow /\ Len(calls) \in DOMAIN calls
        /\ calls[Len(calls)] \in Activation
    BY Top DEF CoInv, StackInv, TypeOK
  <1>2. CASE calls' = calls
    BY <1>1, <1>2 DEF MonitorsFollow
  <1>3. CASE \E t : calls' = [calls EXCEPT ![Len(calls)].tries = t]
    <2>1. PICK t : calls' = [calls EXCEPT ![Len(calls)].tries = t]
      BY <1>3
    <2>2. PICK N, top : N = Len(calls) /\ top = [calls[N] EXCEPT !.tries = t]
      OBVIOUS
    <2>3. top.who = calls[N].who
      BY <1>1, <2>2 DEF Activation
    <2>4. calls' = [calls EXCEPT ![N] = top]
      BY <2>1, <2>2
    <2>5. /\ DOMAIN calls' = DOMAIN calls
          /\ \A n \in DOMAIN calls : calls'[n].who = calls[n].who
      BY ONLY <1>1, <2>2, <2>3, <2>4
    <2>6. {n \in DOMAIN calls' : calls'[n].who \in Methods}
             = {n \in DOMAIN calls : calls[n].who \in Methods}
      BY <2>5
    <2>7. QED
      BY <1>1, <2>6 DEF MonitorsFollow
  <1>4. QED
    BY <1>2, <1>3

LEMMA Stuttering ==
    ASSUME CoInv, UNCHANGED vars
    PROVE  CoInv'
  <1>1. /\ calls' = calls /\ forStack' = forStack /\ scopeStack' = scopeStack
        /\ closure' = closure /\ held' = held /\ inside' = inside
    BY DEF vars
  <1>2. StackInv /\ MonitorsFollow
    BY DEF CoInv
  <1>3. TypeOK'
    BY <1>1, <1>2 DEF StackInv, TypeOK
  <1>4. Bases' /\ OneEach'
    BY <1>1, <1>2 DEF StackInv, Bases, OneEach
  <1>5. ClosuresRight'
    BY <1>1, <1>2, ClosuresStay
  <1>6. ASSUME NEW n \in DOMAIN calls
        PROVE  Right(n)'
    <2>1. LoopEnd(n)' = LoopEnd(n) /\ ScopeEnd(n)' = ScopeEnd(n)
      BY <1>1 DEF LoopEnd, ScopeEnd
    <2>2. Right(n)
      BY <1>2 DEF StackInv
    <2>3. QED
      BY <1>1, <1>2, <2>1, <2>2, Kept
  <1>7. MonitorsFollow'
    BY <1>1, <1>2 DEF MonitorsFollow
  <1>8. QED
    BY <1>1, <1>3, <1>4, <1>5, <1>6, <1>7 DEF CoInv, StackInv

\* Nothing makes the stacks, the bodies and the monitor disagree when every
\* yield is a gentle one.
THEOREM CoroutinesInvariance ==
    ASSUME Gentle
    PROVE  Spec => []CoInv
  <1>1. Init => CoInv
    BY Begins
  <1>2. CoInv /\ [Next]_vars => CoInv'
    <2> SUFFICES ASSUME CoInv, [Next]_vars
                 PROVE  CoInv'
      OBVIOUS
    <2>0. StackInv
      BY DEF CoInv
    <2>1. CASE OpenBlock
      <3>1. MonitorsFollow'
        BY <2>1, CountStays DEF OpenBlock
      <3>2. QED
        BY <2>0, <2>1, <3>1, StepOpenBlock DEF CoInv
    <2>2. CASE CloseBlock
      <3>1. MonitorsFollow'
        BY <2>2, CountStays DEF CloseBlock
      <3>2. QED
        BY <2>0, <2>2, <3>1, StepCloseBlock DEF CoInv
    <2>3. CASE Foreach
      <3>1. MonitorsFollow'
        BY <2>3, CountStays DEF Foreach
      <3>2. QED
        BY <2>0, <2>3, <3>1, StepForeach DEF CoInv
    <2>4. CASE LastElement
      <3>1. MonitorsFollow'
        BY <2>4, CountStays DEF LastElement
      <3>2. QED
        BY <2>0, <2>4, <3>1, StepLastElement DEF CoInv
    <2>5. CASE Try
      <3>1. PICK t : calls' = [calls EXCEPT ![Len(calls)].tries = t]
        BY <2>5 DEF Try
      <3>2. held' = held
        BY <2>5 DEF Try
      <3>3. MonitorsFollow'
        BY <3>1, <3>2, CountStays
      <3>4. QED
        BY <2>0, <2>5, <3>3, StepTry DEF CoInv
    <2>6. CASE EndTry
      <3>1. PICK t : calls' = [calls EXCEPT ![Len(calls)].tries = t]
        BY <2>6 DEF EndTry
      <3>2. held' = held
        BY <2>6 DEF EndTry
      <3>3. MonitorsFollow'
        BY <3>1, <3>2, CountStays
      <3>4. QED
        BY <2>0, <2>6, <3>3, StepEndTry DEF CoInv
    <2>7. ASSUME NEW f \in Function, NEW dest \in BOOLEAN, CallFunction(f, dest)
          PROVE  CoInv'
      BY <2>7, StepCall
    <2>8. ASSUME NEW f \in Function, Resume(f)
          PROVE  CoInv'
      BY <2>8, StepResume
    <2>9. CASE Return
      BY <2>9, StepReturn
    <2>10. CASE Yield
      BY <2>10, StepYield
    <2>11. CASE Throw
      <3>1. Len(calls) \in 0 .. Len(calls) /\ Unwind(Len(calls))
        BY <2>0, <2>11, Top DEF Throw
      <3>2. QED
        BY <3>1, StepUnwind
    <2>12. CASE YieldNowhere
      <3>1. Len(calls) - 1 \in 0 .. Len(calls) /\ Unwind(Len(calls) - 1)
        BY <2>0, <2>12, Top DEF YieldNowhere
      <3>2. QED
        BY <3>1, StepUnwind
    <2>13. CASE UNCHANGED vars
      BY <2>13, Stuttering
    <2>14. QED
      BY <2>1, <2>2, <2>3, <2>4, <2>5, <2>6, <2>7, <2>8, <2>9, <2>10, <2>11, <2>12, <2>13 DEF Next
  <1>3. QED
    BY <1>1, <1>2, PTL DEF Spec

\* A function that is resumed goes on just after its yield: every activation
\* finds the loops, the scopes and the handlers that its source says it is in,
\* with any number of functions, nested to any depth.
THEOREM ResumesSafety ==
    ASSUME Gentle
    PROVE  Spec => []ResumesJustAfter
  <1>1. CoInv => ResumesJustAfter
    <2> SUFFICES ASSUME CoInv, NEW n \in DOMAIN calls
                 PROVE  LET f == calls[n].who
                            tries == [i \in DOMAIN calls[n].tries |-> <<f, calls[n].tries[i].at>>]
                        IN  /\ Lists(forStack, LoopsOf(n), f, "foreach")
                            /\ scopeStack[calls[n].scopes + 1] = <<f, 0>>
                            /\ Lists(scopeStack, ScopesOf(n), f, "block")
                            /\ Lists(tries, DOMAIN tries, f, "try")
      BY DEF ResumesJustAfter
    <2>1. Right(n) /\ calls[n].scopes \in Nat
      BY Top DEF CoInv, StackInv
    <2>2. LoopsOf(n) = calls[n].loops + 1 .. LoopEnd(n)
      BY DEF LoopsOf, Places, LoopEnd
    <2>3. ScopesOf(n) = calls[n].scopes + 2 .. ScopeEnd(n)
      <3>1. (calls[n].scopes + 1) + 1 = calls[n].scopes + 2
        BY <2>1
      <3>2. ScopesOf(n) = (calls[n].scopes + 1) + 1 .. ScopeEnd(n)
        BY DEF ScopesOf, Places, ScopeEnd
      <3>3. QED
        BY ONLY <3>1, <3>2
    <2>4. /\ Lists(forStack, LoopsOf(n), calls[n].who, "foreach")
          /\ scopeStack[calls[n].scopes + 1] = <<calls[n].who, 0>>
          /\ Lists(scopeStack, ScopesOf(n), calls[n].who, "block")
      BY <2>1, <2>2, <2>3 DEF Right, LoopsRight, ScopesRight
    <2>5. PICK tries, f : /\ f = calls[n].who
                          /\ tries = [i \in DOMAIN calls[n].tries |-> <<f, calls[n].tries[i].at>>]
      OBVIOUS
    <2>6. Lists(tries, DOMAIN tries, f, "try")
      <3>1. Lists(Depths(calls[n].tries, f), DOMAIN calls[n].tries, f, "try")
        BY <2>1, <2>5 DEF Right, TriesRight
      <3>2. tries = Depths(calls[n].tries, f) /\ DOMAIN tries = DOMAIN calls[n].tries
        BY <2>5 DEF Depths
      <3>3. QED
        BY ONLY <3>1, <3>2
    <2>7. QED
      BY <2>4, <2>5, <2>6
  <1>2. QED
    BY <1>1, CoroutinesInvariance, PTL

\* The object's monitor is entered once for every one of its methods that
\* runs, never for a suspended one, however many an exception leaves at once.
THEOREM MonitorSafety ==
    ASSUME Gentle
    PROVE  Spec => []MonitorInv
  <1>1. CoInv => MonitorInv
    BY DEF CoInv, StackInv, MonitorInv
  <1>2. QED
    BY <1>1, CoroutinesInvariance, PTL
=============================================================================
