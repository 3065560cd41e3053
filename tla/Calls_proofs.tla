---------------------------- MODULE Calls_proofs ----------------------------
(***************************************************************************)
(* The static links of Calls lead to the frames the text means, and those  *)
(* frames are kept, for every text of a program and any number of calls.   *)
(***************************************************************************)
EXTENDS Calls, SequenceTheorems, WellFoundedInduction, TLAPS

-----------------------------------------------------------------------------
(***************************************************************************)
(* The text: the blocks around a block, and the superclasses of a class.   *)
(***************************************************************************)
LEMMA AroundSelf ==
    ASSUME NEW c \in Block
    PROVE  c \in Around[c]
  BY DEF Around

LEMMA AroundSubset ==
    ASSUME NEW c \in Block
    PROVE  Around[c] \subseteq Block
  BY DEF Around

LEMMA ParentOf ==
    ASSUME NEW c \in Block \ {Main}
    PROVE  Parent[c] \in Block /\ level[c] = 1 + level[Parent[c]]
  BY BlocksAssumption, NestingAssumption DEF Block

LEMMA LevelType ==
    ASSUME NEW c \in Block
    PROVE  level[c] \in Nat
  BY NestingAssumption

LEMMA AroundClosed ==
    ASSUME NEW c \in Block, NEW d \in Around[c], d # Main
    PROVE  Parent[d] \in Around[c]
  <1>1. d \in Block /\ Parent[d] \in Block
    BY AroundSubset, ParentOf
  <1>2. SUFFICES ASSUME NEW S \in SUBSET Block, c \in S, \A b \in S \ {Main} : Parent[b] \in S
                 PROVE  Parent[d] \in S
    BY <1>1 DEF Around
  <1>3. d \in S
    BY <1>2 DEF Around
  <1>4. QED
    BY <1>2, <1>3

\* A set that has c and each member's parent has every block around c.
LEMMA AroundSmallest ==
    ASSUME NEW c \in Block, NEW S \in SUBSET Block, c \in S, \A b \in S \ {Main} : Parent[b] \in S
    PROVE  Around[c] \subseteq S
  BY DEF Around

LEMMA AroundTrans ==
    ASSUME NEW c \in Block, NEW d \in Around[c]
    PROVE  Around[d] \subseteq Around[c]
  <1>1. d \in Block /\ Around[c] \subseteq Block
    BY AroundSubset
  <1>2. \A b \in Around[c] \ {Main} : Parent[b] \in Around[c]
    BY AroundClosed
  <1>3. QED
    BY <1>1, <1>2, AroundSmallest

\* A block around c is c, or is around c's parent.
LEMMA AroundStep ==
    ASSUME NEW c \in Block \ {Main}
    PROVE  Around[c] = {c} \cup Around[Parent[c]]
  <1>1. Parent[c] \in Block /\ Parent[c] \in Around[c]
    BY ParentOf, AroundSelf, AroundClosed
  <1>2. {c} \cup Around[Parent[c]] \subseteq Around[c]
    BY <1>1, AroundSelf, AroundTrans
  <1>3. Around[c] \subseteq {c} \cup Around[Parent[c]]
    <2>1. {c} \cup Around[Parent[c]] \in SUBSET Block
      BY <1>1, AroundSubset
    <2>2. \A b \in ({c} \cup Around[Parent[c]]) \ {Main} : Parent[b] \in {c} \cup Around[Parent[c]]
      BY <1>1, AroundSelf, AroundClosed
    <2>3. QED
      BY <2>1, <2>2, AroundSmallest
  <1>4. QED
    BY <1>2, <1>3

LEMMA AroundMain == Around[Main] = {Main}
  <1>1. Main \in Block /\ {Main} \in SUBSET Block
    BY DEF Block
  <1>2. QED
    BY <1>1, AroundSelf, AroundSmallest

\* The blocks around c have levels of their own, less than that of c.
LEMMA AroundLevel ==
    ASSUME NEW c \in Block, NEW d \in Around[c]
    PROVE  d \in Block /\ level[d] \in 0..level[c] /\ (d # c => level[d] < level[c])
  <1>. DEFINE S == {b \in Block : b = c \/ level[b] < level[c]}
  <1>1. \A b \in S \ {Main} : Parent[b] \in S
    BY ParentOf, LevelType
  <1>2. d \in S
    BY <1>1, AroundSmallest
  <1>3. QED
    BY <1>2, LevelType

LEMMA SupersSubset ==
    ASSUME NEW c \in Class
    PROVE  Supers[c] \subseteq Class /\ c \in Supers[c]
  BY DEF Supers

LEMMA SupersSmallest ==
    ASSUME NEW c \in Class, NEW S \in SUBSET Class, c \in S, \A b \in S : Super[b] \in S \cup {None}
    PROVE  Supers[c] \subseteq S
  BY DEF Supers

LEMMA SuperOf ==
    ASSUME NEW c \in Class
    PROVE  /\ c \in Block /\ c # Main /\ c \notin Function /\ c # None
           /\ Super[c] \in Class \cup {None}
  BY BlocksAssumption DEF Block

LEMMA SupersClosed ==
    ASSUME NEW c \in Class, NEW d \in Supers[c]
    PROVE  Super[d] \in Supers[c] \cup {None}
  <1>1. d \in Class /\ Super[d] \in Class \cup {None}
    BY SupersSubset, SuperOf
  <1>2. SUFFICES ASSUME Super[d] # None,
                        NEW S \in SUBSET Class, c \in S, \A b \in S : Super[b] \in S \cup {None}
                 PROVE  Super[d] \in S
    BY <1>1 DEF Supers
  <1>3. d \in S
    BY <1>2, SupersSmallest
  <1>4. QED
    BY <1>2, <1>3

LEMMA SupersTrans ==
    ASSUME NEW c \in Class, NEW d \in Supers[c]
    PROVE  d \in Class /\ Supers[d] \subseteq Supers[c]
  <1>1. d \in Class /\ Supers[c] \in SUBSET Class
    BY SupersSubset
  <1>2. \A b \in Supers[c] : Super[b] \in Supers[c] \cup {None}
    BY SupersClosed
  <1>3. QED
    BY <1>1, <1>2, SupersSmallest

\* Another superclass of c is one of c's own superclass.
LEMMA SupersStep ==
    ASSUME NEW c \in Class, NEW d \in Supers[c], d # c
    PROVE  Super[c] \in Class /\ d \in Supers[Super[c]]
  <1>1. CASE Super[c] = None
    <2>1. {c} \in SUBSET Class /\ \A b \in {c} : Super[b] \in {c} \cup {None}
      BY <1>1
    <2>2. Supers[c] \subseteq {c}
      BY <2>1, SupersSmallest
    <2>3. QED
      BY <2>2
  <1>2. CASE Super[c] # None
    <2>1. Super[c] \in Class
      BY <1>2, SuperOf
    <2>2. {c} \cup Supers[Super[c]] \in SUBSET Class /\ Super[c] \in Supers[Super[c]]
      BY <2>1, SupersSubset
    <2>3. \A b \in Supers[Super[c]] : Super[b] \in Supers[Super[c]] \cup {None}
      BY <2>1, SupersClosed
    <2>4. \A b \in {c} \cup Supers[Super[c]] : Super[b] \in ({c} \cup Supers[Super[c]]) \cup {None}
      BY <2>2, <2>3
    <2>5. Supers[c] \subseteq {c} \cup Supers[Super[c]]
      BY <2>2, <2>4, SupersSmallest
    <2>6. QED
      BY <2>1, <2>5
  <1>3. QED
    BY <1>1, <1>2

\* Two classes are not superclasses of each other.
LEMMA SupersAntisymmetric ==
    ASSUME NEW c \in Class, NEW d \in Supers[c], c \in Supers[d]
    PROVE  c = d
  <1>1. SUFFICES ASSUME d # c
                 PROVE  FALSE
    OBVIOUS
  <1>2. Super[c] \in Class /\ d \in Supers[Super[c]]
    BY <1>1, SupersStep
  <1>3. c \in Supers[Super[c]]
    BY <1>2, SupersTrans
  <1>4. QED
    BY <1>2, <1>3, HierarchyAssumption, BlocksAssumption DEF Block

\* A superclass is written in a block around c, so not at a higher level.
LEMMA SupersPlace ==
    ASSUME NEW c \in Class, NEW s \in Supers[c]
    PROVE  /\ s \in Class /\ Parent[c] \in Block
           /\ Parent[s] \in Around[Parent[c]]
           /\ level[s] \in 0..level[c]
  <1>. DEFINE S == {b \in Class : Parent[b] \in Around[Parent[c]]}
  <1>1. Parent[c] \in Block /\ c \in S
    BY SuperOf, ParentOf, AroundSelf
  <1>2. ASSUME NEW b \in S
        PROVE  Super[b] \in S \cup {None}
    <2>1. SUFFICES ASSUME Super[b] # None
                   PROVE  Super[b] \in S
      OBVIOUS
    <2>2. Super[b] \in Class /\ Parent[Super[b]] \in Around[Parent[b]]
      BY <2>1, SuperOf, HierarchyAssumption
    <2>3. Around[Parent[b]] \subseteq Around[Parent[c]]
      BY <1>1, AroundTrans
    <2>4. QED
      BY <2>2, <2>3
  <1>3. s \in S
    BY <1>1, <1>2, SupersSmallest
  <1>4. level[s] \in 0..level[c]
    <2>1. s \in Block \ {Main} /\ c \in Block \ {Main}
      BY <1>3, SuperOf
    <2>2. level[Parent[s]] \in 0..level[Parent[c]]
      BY <1>1, <1>3, AroundLevel
    <2>3. QED
      BY <2>1, <2>2, ParentOf, LevelType
  <1>5. QED
    BY <1>1, <1>3, <1>4

-----------------------------------------------------------------------------
(***************************************************************************)
(* Sequences of frames.                                                    *)
(***************************************************************************)
LEMMA SkipProperties ==
    ASSUME NEW S, NEW s \in Seq(S), NEW n \in 0..Len(s)
    PROVE  /\ Skip(s, n) \in Seq(S) /\ Len(Skip(s, n)) = Len(s) - n
           /\ \A i \in 1..(Len(s) - n) : Skip(s, n)[i] = s[n + i]
  <1>1. Len(s) \in Nat /\ n + 1 \in Int /\ \A i \in (n + 1)..Len(s) : s[i] \in S
    BY ElementOfSeq, LenProperties
  <1>2. /\ SubSeq(s, n + 1, Len(s)) \in Seq(S)
        /\ Len(SubSeq(s, n + 1, Len(s))) = IF n + 1 <= Len(s) THEN Len(s) - (n + 1) + 1 ELSE 0
        /\ \A i \in 1..(Len(s) - (n + 1) + 1) : SubSeq(s, n + 1, Len(s))[i] = s[(n + 1) + i - 1]
    BY <1>1, SubSeqProperties
  <1>3. QED
    BY <1>1, <1>2 DEF Skip

LEMMA SkipSkip ==
    ASSUME NEW S, NEW s \in Seq(S), NEW n \in 0..Len(s), NEW m \in 0..(Len(s) - n)
    PROVE  Skip(Skip(s, n), m) = Skip(s, n + m)
  <1>1. Len(s) \in Nat
    BY LenProperties
  <1>2. /\ Skip(s, n) \in Seq(S) /\ Len(Skip(s, n)) = Len(s) - n
        /\ \A i \in 1..(Len(s) - n) : Skip(s, n)[i] = s[n + i]
    BY SkipProperties
  <1>3. n + m \in 0..Len(s) /\ m \in 0..Len(Skip(s, n))
    BY <1>1, <1>2
  <1>4. /\ Skip(s, n + m) \in Seq(S) /\ Len(Skip(s, n + m)) = Len(s) - (n + m)
        /\ \A i \in 1..(Len(s) - (n + m)) : Skip(s, n + m)[i] = s[(n + m) + i]
    BY <1>3, SkipProperties
  <1>5. /\ Skip(Skip(s, n), m) \in Seq(S) /\ Len(Skip(Skip(s, n), m)) = Len(s) - n - m
        /\ \A i \in 1..(Len(s) - n - m) : Skip(Skip(s, n), m)[i] = Skip(s, n)[m + i]
    BY <1>2, <1>3, SkipProperties
  <1>6. ASSUME NEW i \in 1..(Len(s) - n - m)
        PROVE  Skip(Skip(s, n), m)[i] = Skip(s, n + m)[i]
    <2>1. m + i \in 1..(Len(s) - n) /\ i \in 1..(Len(s) - (n + m)) /\ n + (m + i) = (n + m) + i
      BY <1>1
    <2>2. Skip(Skip(s, n), m)[i] = s[(n + m) + i]
      BY <1>2, <1>5, <2>1
    <2>3. QED
      BY <1>4, <2>1, <2>2
  <1>7. Len(s) - n - m = Len(s) - (n + m)
    BY <1>1
  <1>8. QED
    BY <1>4, <1>5, <1>6, <1>7, SeqEqual

LEMMA SkipNothing ==
    ASSUME NEW S, NEW s \in Seq(S)
    PROVE  Skip(s, 0) = s
  <1>1. Len(s) \in Nat
    BY LenProperties
  <1>2. /\ Skip(s, 0) \in Seq(S) /\ Len(Skip(s, 0)) = Len(s)
        /\ \A i \in 1..Len(s) : Skip(s, 0)[i] = s[i]
    BY <1>1, SkipProperties
  <1>3. QED
    BY <1>2, SeqEqual

LEMMA ConsProperties ==
    ASSUME NEW S, NEW x \in S, NEW s \in Seq(S)
    PROVE  /\ <<x>> \o s \in Seq(S) /\ Len(<<x>> \o s) = Len(s) + 1
           /\ (<<x>> \o s)[1] = x
           /\ \A i \in 1..Len(s) : (<<x>> \o s)[i + 1] = s[i]
           /\ Tail(<<x>> \o s) = s
  <1>1. <<x>> \in Seq(S) /\ Len(<<x>>) = 1 /\ <<x>>[1] = x /\ Len(s) \in Nat
    BY LenProperties
  <1>2. /\ <<x>> \o s \in Seq(S) /\ Len(<<x>> \o s) = Len(s) + 1
        /\ (<<x>> \o s)[1] = x
        /\ \A i \in 1..Len(s) : (<<x>> \o s)[i + 1] = s[i]
    <2>1. /\ <<x>> \o s \in Seq(S) /\ Len(<<x>> \o s) = 1 + Len(s)
          /\ \A i \in 1..(1 + Len(s)) : (<<x>> \o s)[i] = IF i <= 1 THEN <<x>>[i] ELSE s[i - 1]
      BY <1>1, ConcatProperties
    <2>2. QED
      BY <1>1, <2>1
  <1>3. <<x>> \o s # <<>>
    BY <1>1, <1>2, EmptySeq
  <1>4. /\ Tail(<<x>> \o s) \in Seq(S) /\ Len(Tail(<<x>> \o s)) = Len(s)
        /\ \A i \in 1..Len(s) : Tail(<<x>> \o s)[i] = s[i]
    BY <1>1, <1>2, <1>3, HeadTailProperties
  <1>5. Tail(<<x>> \o s) = s
    BY <1>4, SeqEqual
  <1>6. QED
    BY <1>2, <1>5

LEMMA SkipCons ==
    ASSUME NEW S, NEW x \in S, NEW s \in Seq(S), NEW n \in 1..(Len(s) + 1)
    PROVE  Skip(<<x>> \o s, n) = Skip(s, n - 1)
  <1>1. /\ <<x>> \o s \in Seq(S) /\ Len(<<x>> \o s) = Len(s) + 1 /\ Len(s) \in Nat
        /\ \A i \in 1..Len(s) : (<<x>> \o s)[i + 1] = s[i]
    BY ConsProperties, LenProperties
  <1>2. n \in 0..Len(<<x>> \o s) /\ n - 1 \in 0..Len(s)
    BY <1>1
  <1>3. /\ Skip(<<x>> \o s, n) \in Seq(S) /\ Len(Skip(<<x>> \o s, n)) = Len(s) + 1 - n
        /\ \A i \in 1..(Len(s) + 1 - n) : Skip(<<x>> \o s, n)[i] = (<<x>> \o s)[n + i]
    <2>. DEFINE r == <<x>> \o s
    <2>1. r \in Seq(S) /\ Len(r) = Len(s) + 1 /\ n \in 0..Len(r)
      BY <1>1, <1>2
    <2>. HIDE DEF r
    <2>2. /\ Skip(r, n) \in Seq(S) /\ Len(Skip(r, n)) = Len(r) - n
          /\ \A i \in 1..(Len(r) - n) : Skip(r, n)[i] = r[n + i]
      BY <2>1, SkipProperties
    <2>3. /\ Skip(r, n) \in Seq(S) /\ Len(Skip(r, n)) = Len(s) + 1 - n
          /\ \A i \in 1..(Len(s) + 1 - n) : Skip(r, n)[i] = r[n + i]
      BY <2>1, <2>2
    <2>4. QED
      BY <2>3 DEF r
  <1>4. /\ Skip(s, n - 1) \in Seq(S) /\ Len(Skip(s, n - 1)) = Len(s) - (n - 1)
        /\ \A i \in 1..(Len(s) - (n - 1)) : Skip(s, n - 1)[i] = s[(n - 1) + i]
    BY <1>1, <1>2, SkipProperties
  <1>5. ASSUME NEW i \in 1..(Len(s) + 1 - n)
        PROVE  Skip(<<x>> \o s, n)[i] = Skip(s, n - 1)[i]
    <2>1. (n - 1) + i \in 1..Len(s) /\ ((n - 1) + i) + 1 = n + i
      BY <1>1
    <2>2. (<<x>> \o s)[n + i] = s[(n - 1) + i]
      BY <1>1, <2>1
    <2>3. QED
      BY <1>1, <1>3, <1>4, <2>2, SMTT(30)
  <1>6. Len(s) - (n - 1) = Len(s) + 1 - n
    BY <1>1
  <1>7. QED
    BY <1>3, <1>4, <1>5, <1>6, SeqEqual

\* A sequence is its first element and the rest.
LEMMA FirstAndRest ==
    ASSUME NEW S, NEW s \in Seq(S), NEW n \in 0..(Len(s) - 1)
    PROVE  Skip(s, n) = <<s[n + 1]>> \o Skip(s, n + 1)
  <1>1. Len(s) \in Nat /\ s[n + 1] \in S /\ n \in 0..Len(s) /\ n + 1 \in 0..Len(s)
    BY LenProperties, ElementOfSeq
  <1>2. /\ Skip(s, n) \in Seq(S) /\ Len(Skip(s, n)) = Len(s) - n
        /\ \A i \in 1..(Len(s) - n) : Skip(s, n)[i] = s[n + i]
    BY <1>1, SkipProperties
  <1>3. /\ Skip(s, n + 1) \in Seq(S) /\ Len(Skip(s, n + 1)) = Len(s) - (n + 1)
        /\ \A i \in 1..(Len(s) - (n + 1)) : Skip(s, n + 1)[i] = s[(n + 1) + i]
    BY <1>1, SkipProperties
  <1>. DEFINE r == <<s[n + 1]>> \o Skip(s, n + 1)
  <1>4. /\ r \in Seq(S) /\ Len(r) = Len(s) - (n + 1) + 1 /\ r[1] = s[n + 1]
        /\ \A i \in 1..(Len(s) - (n + 1)) : r[i + 1] = Skip(s, n + 1)[i]
    BY <1>1, <1>3, ConsProperties
  <1>5. ASSUME NEW i \in 1..(Len(s) - n)
        PROVE  Skip(s, n)[i] = r[i]
    <2>1. CASE i = 1
      BY <1>2, <1>4, <2>1
    <2>2. CASE i # 1
      <3>1. i - 1 \in 1..(Len(s) - (n + 1)) /\ (i - 1) + 1 = i /\ (n + 1) + (i - 1) = n + i
        BY <1>1, <2>2
      <3>2. r[i] = Skip(s, n + 1)[i - 1] /\ Skip(s, n + 1)[i - 1] = s[n + i]
        BY <1>3, <1>4, <3>1
      <3>3. QED
        BY <1>2, <3>2
    <2>3. QED
      BY <2>1, <2>2
  <1>6. r \in Seq(S) /\ Len(Skip(s, n)) = Len(r) /\ \A i \in 1..Len(Skip(s, n)) : Skip(s, n)[i] = r[i]
    BY <1>1, <1>2, <1>4, <1>5
  <1>. HIDE DEF r
  <1>7. Skip(s, n) = r
    BY <1>2, <1>6, SeqEqual
  <1>8. QED
    BY <1>7 DEF r

-----------------------------------------------------------------------------
(***************************************************************************)
(* The invariant.  An object plays the part of each of its superclasses in *)
(* a chain; a chain of frames for the text of c has, for every block       *)
(* around c, a frame that plays it, and goes on from there as the text of  *)
(* that frame does.                                                        *)
(***************************************************************************)
Played(b) == IF b \in Class THEN Supers[b] ELSE {b}
Plays(F, x, d) == x \in DOMAIN F /\ d \in Played(F[x].block)

TextIn(F, x, d) == <<x>> \o Skip(Tail(F[x].env), Len(Tail(F[x].env)) - level[d])

Chain(F, e, c) ==
    /\ e \in Seq(DOMAIN F) /\ Len(e) = level[c] + 1
    /\ \A d \in Around[c] :
         /\ Plays(F, e[level[c] - level[d] + 1], d)
         /\ TextIn(F, e[level[c] - level[d] + 1], d) = Skip(e, level[c] - level[d])

FrameRight(F, i) == /\ F[i].slink \in Seq(DOMAIN F)
                    /\ F[i].env = <<i>> \o F[i].slink
                    /\ Chain(F, F[i].env, F[i].block)

CallRight(F, c) == /\ Plays(F, c.frame, c.code)
                   /\ c.slink \in Seq(DOMAIN F)
                   /\ c.env = <<c.frame>> \o c.slink
                   /\ c.env = TextIn(F, c.frame, c.code)

ClosureRight(F, k) == \/ k = Nothing
                      \/ /\ k.block \in Function /\ Parent[k.block] \notin Class
                         /\ k.slink = k.env
                         /\ Chain(F, k.env, Parent[k.block])

\* Every chain is that of the text.
LinksInv == /\ \A i \in DOMAIN frames : FrameRight(frames, i)
            /\ \A n \in DOMAIN calls : CallRight(frames, calls[n])
            /\ ClosureRight(frames, closure)

IsObject(F, i) == F[i].block \in Class
Active(cs, i) == \E n \in DOMAIN cs : cs[n].frame = i

\* A frame has one call, an object those of its class and its superclasses.
OneCall == \A m, n \in DOMAIN calls :
             calls[m].frame = calls[n].frame => m = n \/ IsObject(frames, calls[m].frame)

\* The references of a frame are its call and the closure.
Counted == \A i \in DOMAIN frames :
             frames[i].refs = (IF IsObject(frames, i) \/ Active(calls, i) THEN 1 ELSE 0)
                            + (IF i \in ToSet(closure.slink) THEN 1 ELSE 0)

\* What holds a frame that call n can name: it is an object, or its call is
\* further down, or the closure has it that was called here or further down.
HeldBy(F, cs, k, n, i) == \/ IsObject(F, i)
                          \/ \E m \in 1..(n - 1) : cs[m].frame = i
                          \/ i \in ToSet(k.slink) /\ \E m \in 1..n : cs[m].via
Held == \A n \in DOMAIN calls : \A i \in ToSet(calls[n].slink) : HeldBy(frames, calls, closure, n, i)

CallsInv == TypeOK /\ LinksInv /\ OneCall /\ Counted /\ Held

-----------------------------------------------------------------------------
(***************************************************************************)
(* Parts and chains.                                                       *)
(***************************************************************************)
LEMMA PlayedFacts ==
    ASSUME NEW b \in Block, NEW d \in Played(b)
    PROVE  /\ d \in Block /\ level[b] \in Nat /\ level[d] \in 0..level[b]
           /\ Played(d) \subseteq Played(b)
           /\ (b \notin Class \/ d \notin Class) => d = b
           /\ \A a \in Around[d] : a # d => /\ a \in Around[b] /\ level[a] \in Nat
                                          /\ level[a] < level[d]
  <1>1. \A a \in Around[d] : d \in Block => a \in Block /\ level[a] \in Nat /\ (a # d => level[a] < level[d])
    BY AroundLevel, LevelType
  <1>2. CASE b \notin Class
    BY <1>1, <1>2, LevelType DEF Played
  <1>3. CASE b \in Class
    <2>1. d \in Supers[b]
      BY <1>3 DEF Played
    <2>2. d \in Class /\ d \in Block /\ d # Main /\ b # Main
      BY <1>3, <2>1, SupersPlace, SuperOf
    <2>3. level[b] \in Nat /\ level[d] \in 0..level[b] /\ Parent[b] \in Block
          /\ Parent[d] \in Around[Parent[b]]
      BY <1>3, <2>1, SupersPlace, LevelType
    <2>4. Played(d) \subseteq Played(b)
      BY <1>3, <2>1, <2>2, SupersTrans DEF Played
    <2>5. ASSUME NEW a \in Around[d], a # d
          PROVE  a \in Around[b]
      <3>1. a \in Around[Parent[d]]
        BY <2>2, <2>5, AroundStep
      <3>2. a \in Around[Parent[b]]
        BY <2>3, <3>1, AroundTrans
      <3>3. QED
        BY <2>2, <3>2, AroundStep
    <2>6. QED
      BY <1>1, <1>3, <2>2, <2>3, <2>4, <2>5
  <1>4. QED
    BY <1>2, <1>3

LEMMA PlaysItself ==
    ASSUME NEW b \in Block
    PROVE  b \in Played(b)
  BY SupersSubset DEF Played

\* The frames of F, each with the chain of its block.
FramesRight(F) == F \in Seq(Slot) /\ \A i \in DOMAIN F : FrameRight(F, i)

LEMMA FrameFacts ==
    ASSUME NEW F, FramesRight(F), NEW x \in DOMAIN F
    PROVE  /\ DOMAIN F = 1..Len(F) /\ Len(F) \in Nat
           /\ F[x].block \in Block /\ level[F[x].block] \in Nat
           /\ F[x].slink \in Seq(DOMAIN F) /\ Len(F[x].slink) = level[F[x].block]
           /\ F[x].env = <<x>> \o F[x].slink /\ Tail(F[x].env) = F[x].slink
           /\ Chain(F, F[x].env, F[x].block)
  <1>1. DOMAIN F = 1..Len(F) /\ Len(F) \in Nat /\ F[x] \in Slot
    BY LenProperties, ElementOfSeq DEF FramesRight
  <1>2. F[x].block \in Block
    BY <1>1 DEF Slot
  <1>3. /\ F[x].slink \in Seq(DOMAIN F) /\ F[x].env = <<x>> \o F[x].slink
        /\ Chain(F, F[x].env, F[x].block)
    BY DEF FramesRight, FrameRight
  <1>4. Len(F[x].env) = Len(F[x].slink) + 1 /\ Tail(F[x].env) = F[x].slink
    BY <1>3, ConsProperties
  <1>5. level[F[x].block] \in Nat /\ Len(F[x].slink) \in Nat /\ Len(F[x].env) = level[F[x].block] + 1
    BY <1>2, <1>3, LevelType, LenProperties DEF Chain
  <1>6. QED
    BY <1>1, <1>2, <1>3, <1>4, <1>5, SMTT(30)

\* The text around the part d of frame x is what is left of its links.
TextRight(F, x, d) ==
    LET n == level[F[x].block] - level[d]
        rest == Skip(F[x].slink, n)
    IN  /\ d \in Block /\ level[d] \in Nat /\ level[d] <= level[F[x].block] /\ n \in 0..Len(F[x].slink)
        /\ rest \in Seq(DOMAIN F) /\ Len(rest) = level[d]
        /\ TextIn(F, x, d) = <<x>> \o rest
        /\ TextIn(F, x, d) \in Seq(DOMAIN F) /\ Len(TextIn(F, x, d)) = level[d] + 1
        /\ TextIn(F, x, d)[1] = x
        /\ \A i \in 1..level[d] : TextIn(F, x, d)[i + 1] = F[x].slink[n + i]

LEMMA TextFacts ==
    ASSUME NEW F, FramesRight(F), NEW x, NEW d, Plays(F, x, d)
    PROVE  TextRight(F, x, d)
  <1>. DEFINE b == F[x].block
              n == level[b] - level[d]
              r == Skip(F[x].slink, n)
  <1>1. /\ x \in DOMAIN F /\ d \in Played(b) /\ b \in Block
        /\ F[x].slink \in Seq(DOMAIN F) /\ Len(F[x].slink) = level[b] /\ Tail(F[x].env) = F[x].slink
    BY FrameFacts DEF Plays
  <1>2. d \in Block /\ level[b] \in Nat /\ level[d] \in Nat /\ level[d] \in 0..level[b] /\ n \in 0..level[b]
    BY <1>1, PlayedFacts
  <1>3. TextIn(F, x, d) = <<x>> \o r
    BY <1>1 DEF TextIn
  <1>4. /\ r \in Seq(DOMAIN F) /\ Len(r) = level[b] - n
        /\ \A i \in 1..(level[b] - n) : r[i] = F[x].slink[n + i]
    <2>. DEFINE s == F[x].slink
    <2>1. s \in Seq(DOMAIN F) /\ Len(s) = level[b] /\ n \in 0..Len(s)
      BY <1>1, <1>2
    <2>. HIDE DEF s, n
    <2>2. /\ Skip(s, n) \in Seq(DOMAIN F) /\ Len(Skip(s, n)) = Len(s) - n
          /\ \A i \in 1..(Len(s) - n) : Skip(s, n)[i] = s[n + i]
      BY <2>1, SkipProperties
    <2>3. QED
      BY <2>1, <2>2 DEF s
  <1>5. level[b] - n = level[d]
    BY <1>2
  <1>. HIDE DEF r
  <1>6. /\ <<x>> \o r \in Seq(DOMAIN F) /\ Len(<<x>> \o r) = Len(r) + 1
        /\ (<<x>> \o r)[1] = x /\ \A i \in 1..Len(r) : (<<x>> \o r)[i + 1] = r[i]
    BY <1>1, <1>4, ConsProperties
  <1>7. Len(r) = level[d] /\ Len(<<x>> \o r) = level[d] + 1
    BY <1>4, <1>5, <1>6
  <1>8. ASSUME NEW i \in 1..level[d]
        PROVE  (<<x>> \o r)[i + 1] = F[x].slink[n + i]
    BY <1>4, <1>5, <1>6, <1>7
  <1>9. n \in 0..Len(F[x].slink) /\ level[d] <= level[b]
    BY <1>1, <1>2
  <1>. HIDE DEF n
  <1>10. QED
    BY <1>2, <1>3, <1>4, <1>6, <1>7, <1>8, <1>9 DEF r, n, TextRight

\* The text around a part is a chain of the part's text.
LEMMA TextChain ==
    ASSUME NEW F, FramesRight(F), NEW x, NEW d, Plays(F, x, d)
    PROVE  Chain(F, TextIn(F, x, d), d)
  <1>. DEFINE b == F[x].block
              s == F[x].slink
              e == TextIn(F, x, d)
              r == Skip(s, level[b] - level[d])
  <1>1. /\ x \in DOMAIN F /\ d \in Played(b) /\ b \in Block /\ level[b] \in Nat
        /\ s \in Seq(DOMAIN F) /\ Len(s) = level[b] /\ F[x].env = <<x>> \o s
        /\ Chain(F, F[x].env, b)
    BY FrameFacts DEF Plays
  <1>2. /\ d \in Block /\ level[d] \in Nat /\ level[d] <= level[b]
        /\ level[b] - level[d] \in 0..Len(s)
        /\ e = <<x>> \o r /\ r \in Seq(DOMAIN F) /\ Len(r) = level[d]
        /\ e \in Seq(DOMAIN F) /\ Len(e) = level[d] + 1 /\ e[1] = x
        /\ \A i \in 1..level[d] : e[i + 1] = s[level[b] - level[d] + i]
    <2>1. TextRight(F, x, d)
      BY TextFacts
    <2>2. QED
      BY <1>1, <2>1 DEF TextRight
  <1>. HIDE DEF e
  <1>3. ASSUME NEW a \in Around[d]
        PROVE  /\ Plays(F, e[level[d] - level[a] + 1], a)
               /\ TextIn(F, e[level[d] - level[a] + 1], a) = Skip(e, level[d] - level[a])
    <2>1. CASE a = d
      <3>1. level[d] - level[a] = 0
        BY <1>2, <2>1
      <3>0. Skip(e, 0) = e
        BY <1>2, SkipNothing
      <3>2. e[level[d] - level[a] + 1] = x
        BY <1>2, <3>1
      <3>3. QED
        BY <1>1, <2>1, <3>0, <3>1, <3>2 DEF e, Plays
    <2>2. CASE a # d
      <3>. DEFINE n == level[b] - level[a]
                  m == level[d] - level[a]
      <3>1. a \in Around[b] /\ level[a] \in Nat /\ level[a] < level[d]
        BY <1>1, <2>2, PlayedFacts
      <3>2. /\ n \in 1..Len(s) /\ m \in 1..level[d] /\ n = level[b] - level[d] + m
            /\ m - 1 \in 0..(Len(s) - (level[b] - level[d])) /\ n - 1 = level[b] - level[d] + (m - 1)
        <4>1. /\ level[b] \in Nat /\ level[d] \in Nat /\ level[d] <= level[b]
              /\ level[a] \in Nat /\ level[a] < level[d] /\ Len(s) = level[b]
          BY <1>1, <1>2, <3>1
        <4>. HIDE DEF b, s
        <4>2. QED
          BY ONLY <4>1
      <3>3. /\ Plays(F, F[x].env[n + 1], a)
            /\ TextIn(F, F[x].env[n + 1], a) = Skip(F[x].env, n)
        BY <1>1, <3>1 DEF Chain
      <3>4. F[x].env[n + 1] = s[n] /\ Skip(F[x].env, n) = Skip(s, n - 1)
        BY <1>1, <3>2, ConsProperties, SkipCons, SMTT(30)
      <3>5. e[m + 1] = s[n]
        BY <1>2, <3>2
      <3>6. Skip(e, m) = Skip(r, m - 1)
        BY <1>1, <1>2, <3>2, SkipCons
      <3>7. Skip(r, m - 1) = Skip(s, n - 1)
        <4>. DEFINE k == level[b] - level[d]
                    l == m - 1
        <4>1. s \in Seq(DOMAIN F) /\ k \in 0..Len(s) /\ l \in 0..(Len(s) - k) /\ n - 1 = k + l
          BY <1>1, <1>2, <3>2
        <4>. HIDE DEF k, l, s
        <4>2. Skip(Skip(s, k), l) = Skip(s, k + l)
          BY <4>1, SkipSkip
        <4>3. QED
          BY <4>1, <4>2 DEF k, l
      <3>8. QED
        BY <3>3, <3>4, <3>5, <3>6, <3>7
    <2>3. QED
      BY <2>1, <2>2
  <1>4. QED
    BY <1>2, <1>3 DEF Chain, e

-----------------------------------------------------------------------------
(***************************************************************************)
(* More frames, and other counts, leave the chains as they are.            *)
(***************************************************************************)
Grown(F, G) == /\ DOMAIN F \subseteq DOMAIN G
               /\ \A i \in DOMAIN F : /\ G[i].block = F[i].block
                                      /\ G[i].slink = F[i].slink /\ G[i].env = F[i].env

LEMMA PlaysGrown ==
    ASSUME NEW F, NEW G, Grown(F, G), NEW x, NEW d, Plays(F, x, d)
    PROVE  Plays(G, x, d) /\ TextIn(G, x, d) = TextIn(F, x, d)
  BY DEF Grown, Plays, TextIn

LEMMA ChainGrown ==
    ASSUME NEW F, NEW G, Grown(F, G), NEW e, NEW c, Chain(F, e, c)
    PROVE  Chain(G, e, c)
  <1>1. e \in Seq(DOMAIN G)
    BY SeqMonotonic DEF Grown, Chain
  <1>2. ASSUME NEW d \in Around[c]
        PROVE  /\ Plays(G, e[level[c] - level[d] + 1], d)
               /\ TextIn(G, e[level[c] - level[d] + 1], d) = Skip(e, level[c] - level[d])
    <2>1. /\ Plays(F, e[level[c] - level[d] + 1], d)
          /\ TextIn(F, e[level[c] - level[d] + 1], d) = Skip(e, level[c] - level[d])
      BY DEF Chain
    <2>2. QED
      BY <2>1, PlaysGrown
  <1>3. QED
    BY <1>1, <1>2 DEF Chain

LEMMA FrameGrown ==
    ASSUME NEW F, NEW G, Grown(F, G), NEW i \in DOMAIN F, FrameRight(F, i)
    PROVE  FrameRight(G, i)
  <1>1. /\ G[i].block = F[i].block /\ G[i].slink = F[i].slink /\ G[i].env = F[i].env
        /\ DOMAIN F \subseteq DOMAIN G
    BY DEF Grown
  <1>2. Chain(G, F[i].env, F[i].block)
    BY ChainGrown DEF FrameRight
  <1>3. F[i].slink \in Seq(DOMAIN G)
    BY <1>1, SeqMonotonic DEF FrameRight
  <1>4. QED
    BY <1>1, <1>2, <1>3 DEF FrameRight

LEMMA CallGrown ==
    ASSUME NEW F, NEW G, Grown(F, G), NEW c, CallRight(F, c)
    PROVE  CallRight(G, c)
  <1>1. /\ Plays(F, c.frame, c.code) /\ c.slink \in Seq(DOMAIN F)
        /\ c.env = <<c.frame>> \o c.slink /\ c.env = TextIn(F, c.frame, c.code)
    BY DEF CallRight
  <1>2. c.slink \in Seq(DOMAIN G)
    BY <1>1, SeqMonotonic DEF Grown
  <1>3. Plays(G, c.frame, c.code) /\ TextIn(G, c.frame, c.code) = TextIn(F, c.frame, c.code)
    BY <1>1, PlaysGrown
  <1>4. QED
    BY <1>1, <1>2, <1>3 DEF CallRight

LEMMA ClosureGrown ==
    ASSUME NEW F, NEW G, Grown(F, G), NEW k, ClosureRight(F, k)
    PROVE  ClosureRight(G, k)
  BY ChainGrown DEF ClosureRight

\* A frame of b whose links are a chain for the text around b.
LEMMA ChainCons ==
    ASSUME NEW G, NEW i \in DOMAIN G, NEW b \in Block \ {Main}, NEW s,
           G[i].block = b, G[i].env = <<i>> \o s, G[i].slink = s,
           Chain(G, s, Parent[b])
    PROVE  FrameRight(G, i) /\ TextIn(G, i, b) = <<i>> \o s
  <1>. DEFINE e == <<i>> \o s
  <1>1. /\ Parent[b] \in Block /\ level[b] \in Nat /\ level[b] = 1 + level[Parent[b]]
        /\ level[Parent[b]] \in Nat
    BY ParentOf, LevelType
  <1>2. s \in Seq(DOMAIN G) /\ Len(s) = level[Parent[b]] + 1
    BY DEF Chain
  <1>3. Len(s) = level[b]
    BY <1>1, <1>2
  <1>4. /\ e \in Seq(DOMAIN G) /\ Len(e) = level[b] + 1 /\ e[1] = i
        /\ \A j \in 1..Len(s) : e[j + 1] = s[j]
        /\ Tail(e) = s
    <2>1. /\ e \in Seq(DOMAIN G) /\ Len(e) = Len(s) + 1 /\ e[1] = i
          /\ \A j \in 1..Len(s) : e[j + 1] = s[j]
          /\ Tail(e) = s
      BY <1>2, ConsProperties
    <2>2. QED
      BY <1>3, <2>1
  <1>5. Plays(G, i, b)
    BY PlaysItself DEF Plays
  <1>6. TextIn(G, i, b) = e
    <2>1. TextIn(G, i, b) = <<i>> \o Skip(s, Len(s) - level[b])
      BY <1>4 DEF TextIn
    <2>2. Len(s) - level[b] = 0
      BY <1>1, <1>3
    <2>3. Skip(s, 0) = s
      BY <1>2, SkipNothing
    <2>4. QED
      BY <2>1, <2>2, <2>3
  <1>. HIDE DEF e
  <1>7. ASSUME NEW a \in Around[b]
        PROVE  /\ Plays(G, e[level[b] - level[a] + 1], a)
               /\ TextIn(G, e[level[b] - level[a] + 1], a) = Skip(e, level[b] - level[a])
    <2>1. CASE a = b
      <3>1. level[b] - level[a] = 0
        BY <1>1, <2>1
      <3>2. Skip(e, 0) = e
        BY <1>4, SkipNothing
      <3>3. e[level[b] - level[a] + 1] = i
        BY <1>4, <3>1
      <3>4. QED
        BY <1>5, <1>6, <2>1, <3>1, <3>2, <3>3
    <2>2. CASE a # b
      <3>. DEFINE m == level[Parent[b]] - level[a]
      <3>1. a \in Around[Parent[b]]
        BY <2>2, AroundStep
      <3>2. level[a] \in 0..level[Parent[b]]
        BY <1>1, <3>1, AroundLevel
      <3>3. /\ level[b] - level[a] = m + 1 /\ m + 1 \in 1..Len(s) /\ m + 1 \in 1..(Len(s) + 1)
            /\ (m + 1) - 1 = m
        <4>1. /\ level[Parent[b]] \in Nat /\ level[a] \in Nat /\ level[a] <= level[Parent[b]]
              /\ level[b] = 1 + level[Parent[b]] /\ Len(s) = level[Parent[b]] + 1
          BY <1>1, <1>2, <3>2
        <4>2. QED
          BY ONLY <4>1
      <3>4. Plays(G, s[m + 1], a) /\ TextIn(G, s[m + 1], a) = Skip(s, m)
        BY <3>1 DEF Chain
      <3>. HIDE DEF m
      <3>5. e[(m + 1) + 1] = s[m + 1]
        BY <1>4, <3>3
      <3>6. Skip(e, m + 1) = Skip(s, (m + 1) - 1)
        BY <1>2, <3>3, SkipCons DEF e
      <3>7. QED
        BY <3>3, <3>4, <3>5, <3>6
    <2>3. QED
      BY <2>1, <2>2
  <1>8. Chain(G, e, b)
    BY <1>4, <1>7 DEF Chain
  <1>9. QED
    BY <1>2, <1>6, <1>8 DEF FrameRight, e

-----------------------------------------------------------------------------
(***************************************************************************)
(* Names: the innermost holder, and the frame its links lead to.           *)
(***************************************************************************)
LEMMA Innermost ==
    ASSUME NEW c \in Block, NEW H \in SUBSET Around[c], H # {}
    PROVE  \E d \in H : \A e \in H : level[e] <= level[d]
  <1>. DEFINE T == {level[c] - level[d] : d \in H}
  <1>1. \A d \in H : d \in Block /\ level[d] \in 0..level[c] /\ level[d] \in Nat /\ level[c] \in Nat
    BY AroundLevel, LevelType
  <1>2. T \subseteq Nat /\ T # {}
    BY <1>1
  <1>. HIDE DEF T
  <1>3. \E x \in T : \A y \in T : ~ (<<y, x>> \in OpToRel(<, Nat))
    BY ONLY <1>2, WFMin, NatLessThanWellFounded
  <1>4. PICK x \in T : \A y \in T : ~ (<<y, x>> \in OpToRel(<, Nat))
    BY <1>3
  <1>5. \A y \in T : ~ (y < x)
    BY <1>2, <1>4 DEF OpToRel
  <1>6. PICK d \in H : x = level[c] - level[d]
    BY DEF T
  <1>7. ASSUME NEW e \in H
        PROVE  level[e] <= level[d]
    <2>1. level[c] - level[e] \in T
      BY DEF T
    <2>2. ~ (level[c] - level[e] < level[c] - level[d])
      BY <1>5, <1>6, <2>1
    <2>3. QED
      BY <1>1, <2>2
  <1>8. QED
    BY <1>7

\* The running call, with the chain of its code.
MeRight == /\ Len(calls) \in Nat \ {0} /\ me \in Call /\ me = calls[Len(calls)]
           /\ FramesRight(frames)
           /\ me.code \in Block /\ level[me.code] \in Nat
           /\ Plays(frames, me.frame, me.code)
           /\ me.slink \in Seq(DOMAIN frames) /\ Len(me.slink) = level[me.code]
           /\ me.env = <<me.frame>> \o me.slink
           /\ me.env = TextIn(frames, me.frame, me.code)
           /\ Chain(frames, me.env, me.code)
           /\ \A n \in 0..level[me.code] : getStack(n) = me.env[n + 1]

LEMMA MeFacts ==
    ASSUME TypeOK, LinksInv
    PROVE  MeRight
  <1>1. FramesRight(frames)
    BY DEF FramesRight, TypeOK, LinksInv
  <1>2. /\ Len(calls) \in Nat \ {0} /\ DOMAIN calls = 1..Len(calls)
        /\ me = calls[Len(calls)] /\ me \in Call
    <2>1. Len(calls) \in Nat \ {0} /\ DOMAIN calls = 1..Len(calls)
      BY EmptySeq, LenProperties DEF TypeOK
    <2>2. calls[Len(calls)] \in Call
      BY <2>1, ElementOfSeq DEF TypeOK
    <2>3. QED
      BY <2>1, <2>2 DEF me, Last
  <1>3. CallRight(frames, me)
    BY <1>2 DEF LinksInv
  <1>4. /\ Plays(frames, me.frame, me.code) /\ me.slink \in Seq(DOMAIN frames)
        /\ me.env = <<me.frame>> \o me.slink /\ me.env = TextIn(frames, me.frame, me.code)
        /\ me.frame \in DOMAIN frames
    BY <1>3 DEF CallRight, Plays
  <1>5. me.code \in Block /\ level[me.code] \in Nat
    BY <1>2, LevelType DEF Call
  <1>6. Chain(frames, me.env, me.code)
    BY <1>1, <1>4, TextChain
  <1>7. /\ Len(me.env) = Len(me.slink) + 1 /\ me.env[1] = me.frame
        /\ \A i \in 1..Len(me.slink) : me.env[i + 1] = me.slink[i]
    BY <1>4, ConsProperties
  <1>8. Len(me.slink) = level[me.code]
    <2>1. Len(me.slink) \in Nat /\ Len(me.env) = level[me.code] + 1
      BY <1>4, <1>6, LenProperties DEF Chain
    <2>2. QED
      BY <1>5, <1>7, <2>1
  <1>9. ASSUME NEW n \in 0..level[me.code]
        PROVE  getStack(n) = me.env[n + 1]
    BY <1>5, <1>7, <1>8 DEF getStack
  <1>10. QED
    BY <1>1, <1>2, <1>4, <1>5, <1>6, <1>8, <1>9 DEF MeRight

\* Where a name leads to that is visible.
HolderRight(b) ==
    LET L == Links(b)
        P == Parent[b]
    IN  /\ L \in 0..level[me.code] /\ getStack(L) = me.env[L + 1]
        /\ Plays(frames, me.env[L + 1], P)
        /\ P \notin Class => /\ P \in Around[me.code] /\ L = level[me.code] - level[P]
                             /\ TextIn(frames, me.env[L + 1], P) = Skip(me.env, L)
        /\ me.code \in Holder(b) => L = 0

LEMMA LinksFacts ==
    ASSUME MeRight, NEW b \in Block \ {Main}, Visible(b)
    PROVE  HolderRight(b)
  <1>. DEFINE P == Parent[b]
              d == CHOOSE h \in Holder(b) : \A e \in Holder(b) : level[e] <= level[h]
              x == me.env[Links(b) + 1]
  <1>1. P \in Block /\ me.code \in Block /\ level[me.code] \in Nat
    BY ParentOf DEF MeRight
  <1>2. Holder(b) \in SUBSET Around[me.code] /\ Holder(b) # {}
    BY DEF Holder, Visible
  <1>3. \E h \in Holder(b) : \A e \in Holder(b) : level[e] <= level[h]
    BY <1>1, <1>2, Innermost
  <1>4. d \in Holder(b) /\ \A e \in Holder(b) : level[e] <= level[d]
    BY <1>3
  <1>5. Links(b) = level[me.code] - level[d]
    BY DEF Links
  <1>. HIDE DEF d
  <1>6. /\ d \in Around[me.code] /\ d \in Block /\ level[d] \in 0..level[me.code]
        /\ d = P \/ (d \in Class /\ P \in Supers[d])
    BY <1>1, <1>2, <1>4, AroundLevel DEF Holder
  <1>7. Links(b) \in 0..level[me.code] /\ getStack(Links(b)) = x
    <2>1. Links(b) \in 0..level[me.code]
      BY <1>1, <1>5, <1>6
    <2>2. QED
      BY <2>1 DEF MeRight
  <1>8. Plays(frames, x, d) /\ TextIn(frames, x, d) = Skip(me.env, Links(b))
    BY <1>5, <1>6 DEF MeRight, Chain
  <1>9. Plays(frames, x, P)
    <2>1. x \in DOMAIN frames /\ d \in Played(frames[x].block) /\ frames[x].block \in Block
      BY <1>8, FrameFacts DEF Plays, MeRight
    <2>2. P \in Played(d)
      BY <1>6, PlaysItself DEF Played
    <2>3. QED
      BY <2>1, <2>2, PlayedFacts DEF Plays
  <1>10. P \notin Class => d = P
    BY <1>6, SupersSubset
  <1>11. me.code \in Holder(b) => Links(b) = 0
    <2>1. SUFFICES ASSUME me.code \in Holder(b)
                   PROVE  Links(b) = 0
      OBVIOUS
    <2>2. level[me.code] <= level[d]
      BY <1>4, <2>1
    <2>3. QED
      BY <1>1, <1>5, <1>6, <2>2
  <1>12. QED
    BY <1>5, <1>6, <1>7, <1>8, <1>9, <1>10, <1>11 DEF HolderRight

\* The links callFunction makes from an object are those of the text.
LEMMA AdjustedFacts ==
    ASSUME Gentle, FramesRight(frames),
           NEW o \in DOMAIN frames, frames[o].block \in Class,
           NEW f \in Block \ {Main}, Parent[f] \in Supers[frames[o].block], Sound(o, f)
    PROVE  Plays(frames, o, Parent[f]) /\ Adjusted(o, f) = TextIn(frames, o, Parent[f])
  <1>. DEFINE P == Parent[f]
              B == frames[o].block
              s == frames[o].slink
  <1>1. /\ P \in Block /\ level[f] = 1 + level[P] /\ level[P] \in Nat /\ level[B] \in Nat
        /\ s \in Seq(DOMAIN frames)
    BY ParentOf, LevelType, FrameFacts
  <1>2. Plays(frames, o, P)
    BY DEF Plays, Played
  <1>3. TextIn(frames, o, P) = <<o>> \o Skip(s, level[B] - level[P])
    <2>1. TextRight(frames, o, P)
      BY <1>2, TextFacts
    <2>2. QED
      BY <2>1 DEF TextRight
  <1>4. level[B] - level[f] + 1 = level[B] - level[P]
    BY <1>1
  <1>5. CASE me.this = o
    BY <1>2, <1>3, <1>4, <1>5 DEF Adjusted
  <1>6. CASE me.this # o
    <2>1. level[B] = level[P]
      BY <1>6 DEF Sound
    <2>2. level[B] - level[P] = 0
      BY <1>1, <2>1
    <2>3. Skip(s, 0) = s
      BY <1>1, SkipNothing
    <2>4. QED
      BY <1>2, <1>3, <1>6, <2>2, <2>3 DEF Adjusted
  <1>7. QED
    BY <1>2, <1>5, <1>6

-----------------------------------------------------------------------------
(***************************************************************************)
(* What is held.                                                           *)
(***************************************************************************)
LEMMA ElementsFacts ==
    ASSUME NEW S, NEW s \in Seq(S)
    PROVE  /\ ToSet(s) \subseteq S
           /\ \A n \in 0..Len(s) : ToSet(Skip(s, n)) \subseteq ToSet(s)
           /\ \A x \in S : ToSet(<<x>> \o s) = {x} \cup ToSet(s)
  <1>1. DOMAIN s = 1..Len(s) /\ Len(s) \in Nat /\ \A i \in 1..Len(s) : s[i] \in S
    BY LenProperties, ElementOfSeq
  <1>2. ASSUME NEW n \in 0..Len(s)
        PROVE  ToSet(Skip(s, n)) \subseteq ToSet(s)
    <2>1. /\ DOMAIN Skip(s, n) = 1..(Len(s) - n)
          /\ \A i \in 1..(Len(s) - n) : Skip(s, n)[i] = s[n + i]
      BY SkipProperties, LenProperties
    <2>2. \A i \in 1..(Len(s) - n) : n + i \in 1..Len(s)
      BY <1>1
    <2>3. QED
      BY <1>1, <2>1, <2>2 DEF ToSet
  <1>3. ASSUME NEW x \in S
        PROVE  ToSet(<<x>> \o s) = {x} \cup ToSet(s)
    <2>. DEFINE r == <<x>> \o s
    <2>1. /\ r \in Seq(S) /\ Len(r) = Len(s) + 1 /\ r[1] = x
          /\ \A i \in 1..Len(s) : r[i + 1] = s[i]
      BY ConsProperties
    <2>2. DOMAIN r = 1..(Len(s) + 1)
      BY <2>1, LenProperties
    <2>. HIDE DEF r
    <2>3. ASSUME NEW i \in DOMAIN r
          PROVE  r[i] \in {x} \cup ToSet(s)
      <3>1. CASE i = 1
        BY <2>1, <3>1
      <3>2. CASE i # 1
        <4>1. i - 1 \in 1..Len(s) /\ (i - 1) + 1 = i
          BY <1>1, <2>2, <3>2
        <4>2. r[i] = s[i - 1]
          BY <2>1, <4>1
        <4>3. QED
          BY <1>1, <4>1, <4>2 DEF ToSet
      <3>3. QED
        BY <3>1, <3>2
    <2>4. x \in ToSet(r)
      BY <1>1, <2>1, <2>2 DEF ToSet
    <2>5. ASSUME NEW i \in DOMAIN s
          PROVE  s[i] \in ToSet(r)
      <3>1. i + 1 \in DOMAIN r /\ r[i + 1] = s[i]
        BY <1>1, <2>1, <2>2
      <3>2. QED
        BY <3>1 DEF ToSet
    <2>6. ToSet(r) \subseteq {x} \cup ToSet(s)
      BY <2>3 DEF ToSet
    <2>7. {x} \cup ToSet(s) \subseteq ToSet(r)
      BY <2>4, <2>5 DEF ToSet
    <2>8. QED
      BY <2>6, <2>7 DEF r
  <1>4. ToSet(s) \subseteq S
    BY <1>1 DEF ToSet
  <1>5. QED
    BY <1>2, <1>3, <1>4

\* What a call that is made now may name.
MayName(i, via) == \/ IsObject(frames, i)
                   \/ \E m \in 1..Len(calls) : calls[m].frame = i
                   \/ /\ i \in ToSet(closure.slink)
                      /\ via \/ \E m \in 1..Len(calls) : calls[m].via

\* A call of b with new frame, and links s that are the text's.
Entered(b, s, this, via) ==
    /\ b \in Block \ {Main} /\ this \in Frame \cup {NoObject} /\ via \in BOOLEAN
    /\ Chain(frames, s, Parent[b])
    /\ \A i \in ToSet(s) : MayName(i, via)
    /\ Execute(b, s, s, this, via)
    /\ UNCHANGED closure

LEMMA ReachHeld ==
    ASSUME CallsInv
    PROVE  \A i \in InReach : MayName(i, FALSE)
  <1>1. DOMAIN calls = 1..Len(calls) /\ Len(calls) \in Nat
    BY LenProperties DEF CallsInv, TypeOK
  <1>2. SUFFICES ASSUME NEW n \in 1..Len(calls), NEW i \in {calls[n].frame} \cup ToSet(calls[n].slink)
                 PROVE  MayName(i, FALSE)
    BY <1>1 DEF InReach
  <1>3. CASE i = calls[n].frame
    BY <1>3 DEF MayName
  <1>4. CASE i \in ToSet(calls[n].slink)
    <2>1. HeldBy(frames, calls, closure, n, i)
      BY <1>1, <1>4 DEF CallsInv, Held
    <2>2. \A m \in 1..n : m \in 1..Len(calls)
      BY <1>1
    <2>3. \A m \in 1..(n - 1) : m \in 1..Len(calls)
      BY <1>1
    <2>4. QED
      BY <2>1, <2>2, <2>3 DEF HeldBy, MayName
  <1>5. QED
    BY <1>2, <1>3, <1>4

LEMMA MeHeld ==
    ASSUME CallsInv
    PROVE  /\ \A i \in ToSet(me.slink) : MayName(i, FALSE)
           /\ \A i \in ToSet(<<me.frame>> \o me.slink) : MayName(i, FALSE)
  <1>1. MeRight /\ DOMAIN calls = 1..Len(calls)
    BY MeFacts, LenProperties DEF CallsInv, TypeOK
  <1>2. {me.frame} \cup ToSet(me.slink) \subseteq InReach
    BY <1>1 DEF InReach, MeRight
  <1>3. ToSet(<<me.frame>> \o me.slink) = {me.frame} \cup ToSet(me.slink)
    BY <1>1, ElementsFacts DEF MeRight, Plays
  <1>4. QED
    BY <1>2, <1>3, ReachHeld

\* The limit on objects: their functions' frames are still there.
LEMMA ObjectHeld ==
    ASSUME CallsInv, Gentle, NEW o \in DOMAIN frames, frames[o].block \in Class,
           NEW f \in Block \ {Main}, Parent[f] \in Supers[frames[o].block], Sound(o, f)
    PROVE  \A i \in ToSet(TextIn(frames, o, Parent[f])) : MayName(i, FALSE)
  <1>. DEFINE s == frames[o].slink
              n == level[frames[o].block] - level[Parent[f]]
  <1>1. FramesRight(frames)
    BY DEF FramesRight, CallsInv, TypeOK, LinksInv
  <1>2. TextRight(frames, o, Parent[f])
    BY <1>1, AdjustedFacts, TextFacts
  <1>3. s \in Seq(DOMAIN frames)
    BY <1>1, FrameFacts
  <1>4. TextIn(frames, o, Parent[f]) = <<o>> \o Skip(s, n) /\ n \in 0..Len(s)
        /\ Skip(s, n) \in Seq(DOMAIN frames)
    BY <1>2 DEF TextRight
  <1>5. ToSet(TextIn(frames, o, Parent[f])) \subseteq {o} \cup ToSet(s)
    BY <1>3, <1>4, ElementsFacts
  <1>6. MayName(o, FALSE)
    BY DEF MayName, IsObject
  <1>7. ASSUME NEW i \in ToSet(s)
        PROVE  MayName(i, FALSE)
    <2>1. i \in InReach \/ frames[i].block \in Class
      BY DEF Sound, Kept, ToSet
    <2>2. QED
      BY <2>1, ReachHeld DEF MayName, IsObject
  <1>8. QED
    BY <1>5, <1>6, <1>7

-----------------------------------------------------------------------------
(***************************************************************************)
(* Each way to call enters a block with the links of its text.             *)
(***************************************************************************)
LEMMA TextIsTextIn ==
    ASSUME NEW f, NEW d
    PROVE  Text(f, d) = TextIn(frames, f, d)
  BY DEF Text, TextIn

LEMMA CallMethodEnters ==
    ASSUME CallsInv, Gentle, NEW f \in Function \cup Class, NEW o \in DOMAIN frames,
           frames[o].block \in Class, Parent[f] \in Supers[frames[o].block], Sound(o, f)
    PROVE  /\ f \in Block \ {Main} /\ o \in Frame
           /\ Adjusted(o, f) = Text(o, Parent[f])
           /\ Chain(frames, Text(o, Parent[f]), Parent[f])
           /\ \A i \in ToSet(Text(o, Parent[f])) : MayName(i, FALSE)
  <1>1. f \in Block \ {Main} /\ FramesRight(frames)
    BY BlocksAssumption DEF Block, FramesRight, CallsInv, TypeOK, LinksInv
  <1>2. o \in Frame
    <2>1. DOMAIN frames = 1..Len(frames) /\ Len(frames) \in Nat /\ Len(frames) <= MaxFrames
      BY LenProperties DEF CallsInv, TypeOK
    <2>2. QED
      BY <2>1, BoundsAssumption DEF Frame
  <1>3. Plays(frames, o, Parent[f]) /\ Adjusted(o, f) = TextIn(frames, o, Parent[f])
    BY <1>1, AdjustedFacts
  <1>4. Chain(frames, TextIn(frames, o, Parent[f]), Parent[f])
    BY <1>1, <1>3, TextChain
  <1>5. \A i \in ToSet(TextIn(frames, o, Parent[f])) : MayName(i, FALSE)
    BY <1>1, ObjectHeld
  <1>6. QED
    BY <1>1, <1>2, <1>3, <1>4, <1>5, TextIsTextIn

\* A block that is no method: the links are what is left of the caller's.
LEMMA OtherLinks ==
    ASSUME CallsInv, NEW b \in Block \ {Main}, ~IsMethod(b), Visible(b)
    PROVE  /\ Links(b) \in 0..level[me.code] /\ Links(b) = level[me.code] - level[Parent[b]]
           /\ Text(me.env[Links(b) + 1], Parent[b]) = Skip(<<me.frame>> \o me.slink, Links(b))
           /\ Chain(frames, Text(me.env[Links(b) + 1], Parent[b]), Parent[b])
           /\ \A i \in ToSet(Text(me.env[Links(b) + 1], Parent[b])) : MayName(i, FALSE)
           /\ Parent[b] # frames[me.frame].block =>
                Text(me.env[Links(b) + 1], Parent[b]) = Skip(me.slink, level[me.code] - level[b])
  <1>. DEFINE L == Links(b)
              P == Parent[b]
              x == me.env[L + 1]
  <1>1. MeRight /\ FramesRight(frames)
    BY MeFacts DEF CallsInv, FramesRight, TypeOK, LinksInv
  <1>2. HolderRight(b) /\ P \notin Class
    BY <1>1, LinksFacts DEF IsMethod
  <1>3. /\ L \in 0..level[me.code] /\ L = level[me.code] - level[P]
        /\ Plays(frames, x, P) /\ TextIn(frames, x, P) = Skip(me.env, L)
    BY <1>2 DEF HolderRight
  <1>4. Chain(frames, TextIn(frames, x, P), P)
    BY <1>1, <1>3, TextChain
  <1>5. /\ me.env = <<me.frame>> \o me.slink /\ me.slink \in Seq(DOMAIN frames)
        /\ me.frame \in DOMAIN frames /\ Len(me.slink) = level[me.code] /\ level[me.code] \in Nat
    BY <1>1 DEF MeRight, Plays
  <1>. HIDE DEF L
  <1>6. \A i \in ToSet(Skip(me.env, L)) : MayName(i, FALSE)
    <2>1. me.env \in Seq(DOMAIN frames) /\ Len(me.env) = level[me.code] + 1
      BY <1>1 DEF MeRight, Chain
    <2>2. L \in 0..Len(me.env)
      BY <1>3, <1>5, <2>1
    <2>3. ToSet(Skip(me.env, L)) \subseteq ToSet(me.env)
      BY <2>1, <2>2, ElementsFacts
    <2>4. QED
      BY <1>5, <2>3, MeHeld
  <1>7. ASSUME P # frames[me.frame].block
        PROVE  Skip(me.env, L) = Skip(me.slink, level[me.code] - level[b])
    <2>1. L # 0
      <3>1. SUFFICES ASSUME L = 0
                     PROVE  FALSE
        OBVIOUS
      <3>2. x = me.frame
        BY <1>5, <3>1, ConsProperties
      <3>3. frames[me.frame].block \in Block /\ P \in Played(frames[me.frame].block)
        BY <1>1, <1>3, <1>5, <3>2, FrameFacts DEF Plays
      <3>4. QED
        BY <1>2, <1>7, <3>3, PlayedFacts
    <2>2. L \in 1..(Len(me.slink) + 1)
      <3>1. L \in 0..level[me.code] /\ L # 0 /\ Len(me.slink) = level[me.code] /\ level[me.code] \in Nat
        BY <1>3, <1>5, <2>1
      <3>2. QED
        BY ONLY <3>1
    <2>3. L - 1 = level[me.code] - level[b]
      <3>1. level[b] = 1 + level[P] /\ level[P] \in Nat
        BY ParentOf, LevelType
      <3>2. QED
        BY <1>3, <1>5, <3>1
    <2>4. QED
      BY <1>5, <2>2, <2>3, SkipCons
  <1>8. QED
    BY <1>3, <1>4, <1>5, <1>6, <1>7, TextIsTextIn DEF L

LEMMA CallMethodEntered ==
    ASSUME CallsInv, Gentle, NEW f \in Function, NEW o \in DOMAIN frames, CallMethod(o, f)
    PROVE  \E s, this : Entered(f, s, this, FALSE)
  <1>1. /\ f \in Block \ {Main} /\ o \in Frame
        /\ Adjusted(o, f) = Text(o, Parent[f])
        /\ Chain(frames, Text(o, Parent[f]), Parent[f])
        /\ \A i \in ToSet(Text(o, Parent[f])) : MayName(i, FALSE)
    BY CallMethodEnters DEF CallMethod
  <1>2. Entered(f, Text(o, Parent[f]), o, FALSE)
    BY <1>1 DEF Entered, CallMethod
  <1>3. QED
    BY <1>2

LEMMA CallOwnEntered ==
    ASSUME CallsInv, Gentle, NEW f \in Function, CallOwn(f)
    PROVE  \E s, this : Entered(f, s, this, FALSE)
  <1>1. f \in Block \ {Main} /\ Visible(f) /\ MeRight
    BY BlocksAssumption, MeFacts DEF Block, CallOwn, CallsInv
  <1>2. getStack(Links(f)) \in DOMAIN frames
    BY <1>1, LinksFacts DEF HolderRight, Plays
  <1>3. QED
    BY <1>2, CallMethodEntered DEF CallOwn

LEMMA CallNestedEntered ==
    ASSUME CallsInv, NEW f \in Function, CallNested(f)
    PROVE  \E s, this : Entered(f, s, this, FALSE)
  <1>. DEFINE P == Parent[f]
              s == <<me.frame>> \o me.slink
  <1>1. f \in Block \ {Main} /\ MeRight
    BY BlocksAssumption, MeFacts DEF Block, CallsInv
  <1>2. P \notin Class /\ P = frames[me.frame].block
    BY <1>1 DEF CallNested, IsMethod
  <1>3. me.code = P
    <2>1. me.code \in Played(frames[me.frame].block)
      BY <1>1 DEF MeRight, Plays
    <2>2. QED
      BY <1>2, <2>1 DEF Played
  <1>4. me.env = s /\ me.env = TextIn(frames, me.frame, P) /\ Chain(frames, me.env, P)
    BY <1>1, <1>3 DEF MeRight
  <1>5. me.env[1] = me.frame
    BY <1>1, ConsProperties DEF MeRight, Plays
  <1>6. Text(me.env[1], P) = s
    BY <1>4, <1>5, TextIsTextIn
  <1>7. Entered(f, s, NoObject, FALSE)
    BY <1>1, <1>4, <1>6, MeHeld DEF Entered, CallNested
  <1>8. QED
    BY <1>7

LEMMA CallRegularEntered ==
    ASSUME CallsInv, NEW f \in Function, CallRegular(f)
    PROVE  \E s, this : Entered(f, s, this, FALSE)
  <1>. DEFINE s == Text(me.env[Links(f) + 1], Parent[f])
  <1>1. f \in Block \ {Main}
    BY BlocksAssumption DEF Block
  <1>2. /\ Chain(frames, s, Parent[f]) /\ \A i \in ToSet(s) : MayName(i, FALSE)
        /\ s = Skip(me.slink, level[me.code] - level[f])
    BY <1>1, OtherLinks DEF CallRegular
  <1>3. Execute(f, s, s, NoObject, FALSE)
    BY <1>2 DEF CallRegular
  <1>. HIDE DEF s
  <1>4. Entered(f, s, NoObject, FALSE)
    BY <1>1, <1>2, <1>3 DEF Entered, CallRegular
  <1>5. QED
    BY <1>4

LEMMA NewObjectEntered ==
    ASSUME CallsInv, Gentle, NEW c \in Class, NewObject(c)
    PROVE  \E s, this : Entered(c, s, this, FALSE)
  <1>. DEFINE P == Parent[c]
              own == getStack(Links(c))
              s == Text(me.env[Links(c) + 1], P)
              b == frames[me.frame].block
              me_env == <<me.frame>> \o me.slink
  <1>1. c \in Block \ {Main} /\ Visible(c) /\ MeRight /\ FramesRight(frames)
    BY BlocksAssumption, MeFacts DEF Block, CallsInv, NewObject, FramesRight, TypeOK, LinksInv
  <1>2. HolderRight(c)
    BY <1>1, LinksFacts
  <1>3. /\ own = me.env[Links(c) + 1] /\ Plays(frames, own, P)
        /\ me.code \in Holder(c) => Links(c) = 0
    BY <1>2 DEF HolderRight
  <1>4. /\ me.env = me_env /\ me.env = TextIn(frames, me.frame, me.code)
        /\ me.slink \in Seq(DOMAIN frames) /\ me.frame \in DOMAIN frames
        /\ me.code \in Block /\ level[me.code] \in Nat
        /\ b \in Block /\ me.code \in Played(b)
    BY <1>1, FrameFacts DEF MeRight, Plays
  <1>5. CASE P = b
    <2>1. me.code = P
      <3>1. CASE P \notin Class
        BY <1>4, <1>5, <3>1, PlayedFacts
      <3>2. CASE P \in Class
        <4>1. me.code \in Supers[P]
          BY <1>4, <1>5, <3>2 DEF Played
        <4>2. level[me.code] \in 0..level[P] /\ me.code \in Class /\ level[P] \in Nat
          BY <3>2, <4>1, SupersPlace, SuperOf, LevelType
        <4>3. PICK d \in Around[me.code] : d = P \/ (d \in Class /\ P \in Supers[d])
          BY <1>1 DEF Visible, Holder
        <4>4. d \in Class /\ P \in Supers[d] /\ level[P] \in 0..level[d] /\ level[d] \in Nat
          <5>1. d \in Class /\ P \in Supers[d]
            BY <3>2, <4>3, SupersSubset
          <5>2. QED
            BY <5>1, SupersPlace, SuperOf, LevelType
        <4>5. d = me.code
          <5>1. d # me.code => level[d] < level[me.code]
            BY <1>4, <4>3, AroundLevel
          <5>2. QED
            BY <1>4, <4>2, <4>4, <5>1
        <4>6. QED
          BY <3>2, <4>1, <4>4, <4>5, SupersAntisymmetric
      <3>3. QED
        BY <3>1, <3>2
    <2>2. me.code \in Holder(c)
      BY <1>4, <2>1, AroundSelf DEF Holder
    <2>3. Links(c) = 0 /\ me.env[1] = me.frame
      BY <1>3, <1>4, <2>2, ConsProperties
    <2>4. s = me_env
      BY <1>4, <2>1, <2>3, TextIsTextIn
    <2>5. Chain(frames, me_env, P)
      BY <1>1, <1>4, <2>1 DEF MeRight
    <2>6. Execute(c, me_env, s, NoObject, FALSE)
      BY <1>5 DEF NewObject
    <2>7. \A i \in ToSet(me_env) : MayName(i, FALSE)
      BY MeHeld
    <2>. HIDE DEF s, me_env
    <2>8. Entered(c, me_env, NoObject, FALSE)
      BY <1>1, <2>4, <2>5, <2>6, <2>7 DEF Entered, NewObject
    <2>9. QED
      BY <2>8
  <1>6. CASE P # b /\ IsMethod(c)
    <2>1. P \in Class /\ Sound(own, c) /\ own \in DOMAIN frames /\ frames[own].block \in Block
      BY <1>1, <1>3, <1>6, FrameFacts DEF IsMethod, NewObject, Plays
    <2>2. frames[own].block \in Class /\ P \in Supers[frames[own].block]
      BY <1>3, <2>1 DEF Plays, Played
    <2>3. /\ Adjusted(own, c) = Text(own, P) /\ Chain(frames, Text(own, P), P)
          /\ \A i \in ToSet(Text(own, P)) : MayName(i, FALSE)
      BY <2>1, <2>2, CallMethodEnters
    <2>4. s = Text(own, P)
      BY <1>3
    <2>5. Execute(c, Adjusted(own, c), s, NoObject, FALSE)
      BY <1>6 DEF NewObject
    <2>. HIDE DEF s, own
    <2>6. Entered(c, s, NoObject, FALSE)
      BY <1>1, <2>3, <2>4, <2>5 DEF Entered, NewObject
    <2>7. QED
      BY <2>6
  <1>7. CASE P # b /\ ~IsMethod(c)
    <2>1. /\ Chain(frames, s, P) /\ \A i \in ToSet(s) : MayName(i, FALSE)
          /\ s = Skip(me.slink, level[me.code] - level[c])
      BY <1>1, <1>7, OtherLinks
    <2>2. Execute(c, Skip(me.slink, level[me.code] - level[c]), s, NoObject, FALSE)
      BY <1>7 DEF NewObject
    <2>. HIDE DEF s
    <2>3. Entered(c, s, NoObject, FALSE)
      BY <1>1, <2>1, <2>2 DEF Entered, NewObject
    <2>4. QED
      BY <2>3
  <1>8. QED
    BY <1>5, <1>6, <1>7

LEMMA CallClosureEntered ==
    ASSUME CallsInv, CallClosure
    PROVE  \E f \in Function : \E s, this : Entered(f, s, this, TRUE)
  <1>1. closure.block \in Function /\ closure.slink = closure.env
        /\ Chain(frames, closure.env, Parent[closure.block])
    BY DEF CallClosure, CallsInv, LinksInv, ClosureRight
  <1>2. closure.block \in Block \ {Main}
    BY <1>1, BlocksAssumption DEF Block
  <1>3. \A i \in ToSet(closure.slink) : MayName(i, TRUE)
    BY DEF MayName
  <1>4. Entered(closure.block, closure.slink, NoObject, TRUE)
    BY <1>1, <1>2, <1>3 DEF Entered, CallClosure
  <1>5. QED
    BY <1>1, <1>4

-----------------------------------------------------------------------------
(***************************************************************************)
(* Entering a block keeps the invariant.                                   *)
(***************************************************************************)
LEMMA HeldGrown ==
    ASSUME NEW F, NEW G, Grown(F, G), NEW cs, NEW ds, NEW k, NEW n \in Nat,
           \A m \in 1..n : ds[m] = cs[m], NEW i \in DOMAIN F, HeldBy(F, cs, k, n, i)
    PROVE  HeldBy(G, ds, k, n, i)
  <1>1. \A m \in 1..(n - 1) : m \in 1..n
    OBVIOUS
  <1>2. QED
    BY <1>1 DEF HeldBy, Grown, IsObject

\* What the closure names are frames.
LEMMA ClosureElements ==
    ASSUME LinksInv
    PROVE  ToSet(closure.slink) \subseteq DOMAIN frames
  <1>1. CASE closure = Nothing
    BY <1>1 DEF Nothing, ToSet
  <1>2. CASE closure # Nothing
    <2>1. closure.slink \in Seq(DOMAIN frames)
      BY <1>2 DEF LinksInv, ClosureRight, Chain
    <2>2. QED
      BY <2>1, ElementsFacts
  <1>3. QED
    BY <1>1, <1>2

\* The two lists after a call: one frame and one call more.
Grows(b, s, this, via) ==
    LET i == Len(frames) + 1
    IN  /\ Len(frames) \in Nat /\ i <= MaxFrames /\ DOMAIN frames = 1..Len(frames)
        /\ DOMAIN frames' = 1..i /\ Len(frames') = i
        /\ \A j \in 1..Len(frames) : frames'[j] = frames[j]
        /\ frames'[i] = [block |-> b, slink |-> s, env |-> <<i>> \o s, refs |-> 1]
        /\ Len(calls) \in Nat /\ DOMAIN calls = 1..Len(calls)
        /\ DOMAIN calls' = 1..(Len(calls) + 1)
        /\ \A j \in 1..Len(calls) : calls'[j] = calls[j]
        /\ calls'[Len(calls) + 1] = [code |-> b, frame |-> i, slink |-> s, env |-> <<i>> \o s,
                                     this |-> IF b \in Class THEN i ELSE this, via |-> via]
        /\ Grown(frames, frames') /\ closure' = closure
        /\ s \in Seq(1..Len(frames))

LEMMA EnteredGrows ==
    ASSUME CallsInv, NEW b, NEW s, NEW this, NEW via, Entered(b, s, this, via)
    PROVE  Grows(b, s, this, via) /\ TypeOK'
  <1>. DEFINE i == Len(frames) + 1
              new == [block |-> b, slink |-> s, env |-> <<i>> \o s, refs |-> 1]
              call == [code |-> b, frame |-> i, slink |-> s, env |-> <<i>> \o s,
                       this |-> IF b \in Class THEN i ELSE this, via |-> via]
  <1>1. /\ frames \in Seq(Slot) /\ calls \in Seq(Call) /\ calls # <<>>
        /\ Len(frames) \in Nat /\ DOMAIN frames = 1..Len(frames)
        /\ Len(calls) \in Nat /\ DOMAIN calls = 1..Len(calls)
    BY LenProperties DEF CallsInv, TypeOK
  <1>2. /\ Len(frames) < MaxFrames /\ frames' = Append(frames, new)
        /\ calls' = Append(calls, call) /\ closure' = closure
    BY DEF Entered, Execute
  <1>3. i \in Frame /\ s \in Seq(1..Len(frames)) /\ 1..Len(frames) \subseteq Frame
    BY <1>1, <1>2, BoundsAssumption DEF Entered, Chain, Frame
  <1>4. s \in Seq(Frame) /\ <<i>> \o s \in Seq(Frame)
    <2>1. s \in Seq(Frame)
      BY <1>3, SeqMonotonic
    <2>2. QED
      BY <1>3, <2>1, ConsProperties
  <1>5. new \in Slot /\ call \in Call
    BY <1>3, <1>4 DEF Entered, Slot, Call
  <1>. HIDE DEF new, call
  <1>6. /\ frames' \in Seq(Slot) /\ Len(frames') = Len(frames) + 1
        /\ \A j \in 1..Len(frames) : frames'[j] = frames[j]
        /\ frames'[Len(frames) + 1] = new
    BY <1>1, <1>2, <1>5, AppendProperties
  <1>7. /\ calls' \in Seq(Call) /\ calls' # <<>> /\ Len(calls') = Len(calls) + 1
        /\ \A j \in 1..Len(calls) : calls'[j] = calls[j]
        /\ calls'[Len(calls) + 1] = call
    BY <1>1, <1>2, <1>5, AppendProperties
  <1>8. DOMAIN frames' = 1..i /\ DOMAIN calls' = 1..(Len(calls) + 1)
    BY <1>6, <1>7, LenProperties
  <1>9. Grown(frames, frames')
    BY <1>1, <1>6, <1>8 DEF Grown
  <1>10. i <= MaxFrames
    BY <1>1, <1>2, BoundsAssumption
  <1>11. TypeOK'
    BY <1>2, <1>6, <1>7, <1>10 DEF CallsInv, TypeOK
  <1>12. QED
    BY <1>1, <1>2, <1>3, <1>6, <1>7, <1>8, <1>9, <1>10, <1>11 DEF Grows, new, call

LEMMA EnteredLinks ==
    ASSUME CallsInv, NEW b, NEW s, NEW this, NEW via, Entered(b, s, this, via)
    PROVE  LinksInv'
  <1>. DEFINE i == Len(frames) + 1
              e == <<i>> \o s
  <1>1. /\ Len(frames) \in Nat /\ DOMAIN frames = 1..Len(frames) /\ DOMAIN frames' = 1..i
        /\ frames'[i].block = b /\ frames'[i].slink = s /\ frames'[i].env = e
        /\ Len(calls) \in Nat /\ DOMAIN calls = 1..Len(calls)
        /\ DOMAIN calls' = 1..(Len(calls) + 1)
        /\ \A j \in 1..Len(calls) : calls'[j] = calls[j]
        /\ calls'[Len(calls) + 1].code = b /\ calls'[Len(calls) + 1].frame = i
        /\ calls'[Len(calls) + 1].slink = s /\ calls'[Len(calls) + 1].env = e
        /\ Grown(frames, frames') /\ closure' = closure
    <2>1. Grows(b, s, this, via)
      BY EnteredGrows
    <2>2. QED
      BY <2>1 DEF Grows
  <1>2. b \in Block \ {Main} /\ Chain(frames', s, Parent[b]) /\ i \in DOMAIN frames'
    BY <1>1, ChainGrown DEF Entered
  <1>3. FrameRight(frames', i) /\ TextIn(frames', i, b) = e
    <2>. HIDE DEF i
    <2>1. /\ frames'[i].block = b /\ frames'[i].env = <<i>> \o s /\ frames'[i].slink = s
      BY <1>1
    <2>2. QED
      BY <1>2, <2>1, ChainCons
  <1>4. ASSUME NEW j \in DOMAIN frames'
        PROVE  FrameRight(frames', j)
    <2>1. CASE j = i
      BY <1>3, <2>1
    <2>2. CASE j # i
      <3>1. j \in DOMAIN frames
        BY <1>1, <2>2
      <3>2. QED
        BY <1>1, <3>1, FrameGrown DEF CallsInv, LinksInv
    <2>3. QED
      BY <2>1, <2>2
  <1>5. CallRight(frames', calls'[Len(calls) + 1])
    <2>1. Plays(frames', i, b)
      BY <1>1, <1>2, PlaysItself DEF Plays
    <2>2. s \in Seq(DOMAIN frames')
      BY <1>1, <1>3 DEF FrameRight
    <2>3. QED
      BY <1>1, <1>3, <2>1, <2>2 DEF CallRight
  <1>6. ASSUME NEW n \in DOMAIN calls'
        PROVE  CallRight(frames', calls'[n])
    <2>1. CASE n = Len(calls) + 1
      BY <1>5, <2>1
    <2>2. CASE n # Len(calls) + 1
      <3>1. n \in DOMAIN calls /\ calls'[n] = calls[n]
        BY <1>1, <2>2
      <3>2. QED
        BY <1>1, <3>1, CallGrown DEF CallsInv, LinksInv
    <2>3. QED
      BY <2>1, <2>2
  <1>7. ClosureRight(frames', closure')
    BY <1>1, ClosureGrown DEF CallsInv, LinksInv
  <1>8. QED
    BY <1>4, <1>6, <1>7 DEF LinksInv

\* What a new call may name is held for it.
LEMMA MayNameHeld ==
    ASSUME NEW G, Grown(frames, G), NEW ds, Len(calls) \in Nat,
           \A m \in 1..Len(calls) : ds[m] = calls[m],
           NEW i \in DOMAIN frames, NEW via, MayName(i, via), via => ds[Len(calls) + 1].via
    PROVE  HeldBy(G, ds, closure, Len(calls) + 1, i)
  <1>1. CASE IsObject(frames, i)
    BY <1>1 DEF HeldBy, IsObject, Grown
  <1>2. CASE \E m \in 1..Len(calls) : calls[m].frame = i
    <2>1. PICK m \in 1..Len(calls) : calls[m].frame = i
      BY <1>2
    <2>2. m \in 1..((Len(calls) + 1) - 1) /\ ds[m].frame = i
      BY <2>1
    <2>3. QED
      BY <2>2 DEF HeldBy
  <1>3. CASE i \in ToSet(closure.slink) /\ via
    <2>1. Len(calls) + 1 \in 1..(Len(calls) + 1)
      OBVIOUS
    <2>2. QED
      BY <1>3, <2>1 DEF HeldBy
  <1>4. CASE i \in ToSet(closure.slink) /\ \E m \in 1..Len(calls) : calls[m].via
    <2>1. PICK m \in 1..Len(calls) : calls[m].via
      BY <1>4
    <2>2. m \in 1..(Len(calls) + 1) /\ ds[m].via
      BY <2>1
    <2>3. QED
      BY <1>4, <2>2 DEF HeldBy
  <1>5. QED
    BY <1>1, <1>2, <1>3, <1>4 DEF MayName

LEMMA CallFacts ==
    ASSUME CallsInv, NEW n \in DOMAIN calls
    PROVE  /\ calls[n].frame \in DOMAIN frames /\ calls[n].slink \in Seq(DOMAIN frames)
           /\ ToSet(calls[n].slink) \subseteq DOMAIN frames
           /\ calls[n].code \in Played(frames[calls[n].frame].block)
           /\ frames[calls[n].frame].block \in Block
  <1>1. CallRight(frames, calls[n]) /\ FramesRight(frames)
    BY DEF CallsInv, LinksInv, TypeOK, FramesRight
  <1>2. QED
    BY <1>1, ElementsFacts, FrameFacts DEF CallRight, Plays

LEMMA EnteredHeld ==
    ASSUME CallsInv, NEW b, NEW s, NEW this, NEW via, Entered(b, s, this, via)
    PROVE  Held'
  <1>. DEFINE n == Len(calls) + 1
  <1>1. /\ Len(frames) \in Nat /\ DOMAIN frames = 1..Len(frames)
        /\ Len(calls) \in Nat /\ DOMAIN calls = 1..Len(calls) /\ DOMAIN calls' = 1..n
        /\ \A j \in 1..Len(calls) : calls'[j] = calls[j]
        /\ calls'[n].slink = s /\ calls'[n].via = via
        /\ Grown(frames, frames') /\ closure' = closure /\ s \in Seq(1..Len(frames))
    <2>1. Grows(b, s, this, via)
      BY EnteredGrows
    <2>2. QED
      BY <2>1 DEF Grows
  <1>2. ASSUME NEW m \in DOMAIN calls', NEW i \in ToSet(calls'[m].slink)
        PROVE  HeldBy(frames', calls', closure', m, i)
    <2>1. CASE m = n
      <3>1. i \in ToSet(s) /\ ToSet(s) \subseteq DOMAIN frames
        BY <1>1, <1>2, <2>1, ElementsFacts
      <3>2. MayName(i, via)
        BY <3>1 DEF Entered
      <3>3. QED
        BY <1>1, <2>1, <3>1, <3>2, MayNameHeld
    <2>2. CASE m # n
      <3>1. m \in 1..Len(calls) /\ m \in DOMAIN calls /\ calls'[m] = calls[m] /\ m \in Nat
        BY <1>1, <2>2
      <3>2. \A j \in 1..m : calls'[j] = calls[j]
        BY <1>1, <3>1
      <3>3. i \in DOMAIN frames /\ HeldBy(frames, calls, closure, m, i)
        BY <1>2, <3>1, CallFacts DEF CallsInv, Held
      <3>4. QED
        BY <1>1, <3>1, <3>2, <3>3, HeldGrown
    <2>3. QED
      BY <2>1, <2>2
  <1>3. QED
    BY <1>2 DEF Held

LEMMA EnteredCounted ==
    ASSUME CallsInv, NEW b, NEW s, NEW this, NEW via, Entered(b, s, this, via)
    PROVE  OneCall' /\ Counted'
  <1>. DEFINE i == Len(frames) + 1
              n == Len(calls) + 1
  <1>1. /\ Len(frames) \in Nat /\ DOMAIN frames = 1..Len(frames) /\ DOMAIN frames' = 1..i
        /\ \A j \in 1..Len(frames) : frames'[j] = frames[j]
        /\ frames'[i].refs = 1
        /\ Len(calls) \in Nat /\ DOMAIN calls = 1..Len(calls) /\ DOMAIN calls' = 1..n
        /\ \A j \in 1..Len(calls) : calls'[j] = calls[j]
        /\ calls'[n].frame = i /\ closure' = closure
    <2>1. Grows(b, s, this, via)
      BY EnteredGrows
    <2>2. QED
      BY <2>1 DEF Grows
  <1>2. \A m \in 1..Len(calls) : calls[m].frame \in 1..Len(frames)
    BY <1>1, CallFacts
  <1>3. ASSUME NEW m \in DOMAIN calls', NEW l \in DOMAIN calls', calls'[m].frame = calls'[l].frame
        PROVE  m = l \/ IsObject(frames', calls'[m].frame)
    <2>1. CASE m \in 1..Len(calls) /\ l \in 1..Len(calls)
      <3>1. calls[m].frame = calls[l].frame
        BY <1>1, <1>3, <2>1
      <3>2. m = l \/ IsObject(frames, calls[m].frame)
        BY <1>1, <2>1, <3>1 DEF CallsInv, OneCall
      <3>3. QED
        BY <1>1, <1>2, <2>1, <3>2 DEF IsObject
    <2>2. CASE m = n /\ l # n
      BY <1>1, <1>2, <1>3, <2>2
    <2>3. CASE m # n /\ l = n
      BY <1>1, <1>2, <1>3, <2>3
    <2>4. CASE m = n /\ l = n
      BY <2>4
    <2>5. (m \in 1..Len(calls) \/ m = n) /\ (l \in 1..Len(calls) \/ l = n)
      BY <1>1
    <2>6. QED
      BY <2>1, <2>2, <2>3, <2>4, <2>5
  <1>4. ASSUME NEW j \in DOMAIN frames'
        PROVE  frames'[j].refs = (IF IsObject(frames', j) \/ Active(calls', j) THEN 1 ELSE 0)
                               + (IF j \in ToSet(closure'.slink) THEN 1 ELSE 0)
    <2>1. CASE j = i
      <3>1. Active(calls', j)
        BY <1>1, <2>1 DEF Active
      <3>2. j \notin ToSet(closure'.slink)
        BY <1>1, <2>1, ClosureElements DEF CallsInv
      <3>3. QED
        BY <1>1, <2>1, <3>1, <3>2
    <2>2. CASE j # i
      <3>1. j \in 1..Len(frames) /\ frames'[j] = frames[j]
        BY <1>1, <2>2
      <3>2. Active(calls', j) <=> Active(calls, j)
        <4>1. \A m \in 1..n : m \in 1..Len(calls) \/ m = n
          BY <1>1
        <4>2. \A m \in 1..Len(calls) : m \in 1..n
          BY <1>1
        <4>3. QED
          BY <1>1, <2>2, <4>1, <4>2 DEF Active
      <3>3. frames[j].refs = (IF IsObject(frames, j) \/ Active(calls, j) THEN 1 ELSE 0)
                           + (IF j \in ToSet(closure.slink) THEN 1 ELSE 0)
        BY <1>1, <3>1 DEF CallsInv, Counted
      <3>4. QED
        BY <1>1, <3>1, <3>2, <3>3 DEF IsObject
    <2>3. QED
      BY <2>1, <2>2
  <1>5. OneCall'
    BY <1>3 DEF OneCall
  <1>6. Counted'
    BY <1>4 DEF Counted
  <1>7. QED
    BY <1>5, <1>6

LEMMA EnteredKeeps ==
    ASSUME CallsInv, NEW b, NEW s, NEW this, NEW via, Entered(b, s, this, via)
    PROVE  CallsInv'
  BY EnteredGrows, EnteredLinks, EnteredHeld, EnteredCounted DEF CallsInv

-----------------------------------------------------------------------------
(***************************************************************************)
(* The steps that only count: the closure's, and the end of a call.        *)
(***************************************************************************)
\* The counts of the frames in s changed by d, and nothing else.
Recounted(s, d, G) ==
    /\ G \in Seq(Slot) /\ Len(G) = Len(frames) /\ DOMAIN G = DOMAIN frames
    /\ Grown(frames, G)
    /\ \A i \in DOMAIN frames : /\ G[i].block = frames[i].block
                                /\ G[i].refs = IF i \in ToSet(s) THEN frames[i].refs + d
                                                                ELSE frames[i].refs

LEMMA CountFacts ==
    ASSUME TypeOK, NEW s, NEW d \in Int,
           \A i \in DOMAIN frames : i \in ToSet(s) => frames[i].refs + d \in Nat
    PROVE  Recounted(s, d, Count(s, d))
  <1>. DEFINE G == Count(s, d)
  <1>1. Len(frames) \in Nat /\ DOMAIN frames = 1..Len(frames) /\ \A i \in 1..Len(frames) : frames[i] \in Slot
    BY LenProperties, ElementOfSeq DEF TypeOK
  <1>2. DOMAIN G = 1..Len(frames)
    BY <1>1 DEF Count
  <1>3. ASSUME NEW i \in 1..Len(frames)
        PROVE  /\ G[i] \in Slot /\ G[i].block = frames[i].block
               /\ G[i].slink = frames[i].slink /\ G[i].env = frames[i].env
               /\ G[i].refs = IF i \in ToSet(s) THEN frames[i].refs + d ELSE frames[i].refs
    <2>1. CASE i \in ToSet(s)
      <3>1. G[i] = [frames[i] EXCEPT !.refs = frames[i].refs + d]
        BY <1>1, <2>1, Zenon DEF Count
      <3>2. frames[i] \in Slot /\ frames[i].refs + d \in Nat
        BY <1>1, <2>1
      <3>. HIDE DEF G
      <3>3. /\ G[i] \in Slot /\ G[i].refs = frames[i].refs + d /\ G[i].block = frames[i].block
            /\ G[i].slink = frames[i].slink /\ G[i].env = frames[i].env
        <4>. DEFINE r == frames[i]
                    m == frames[i].refs + d
        <4>1. r \in Slot /\ m \in Nat /\ G[i] = [r EXCEPT !.refs = m]
          BY <3>1, <3>2
        <4>. HIDE DEF r, m
        <4>2. G[i] \in Slot /\ G[i].refs = m /\ G[i].block = r.block
              /\ G[i].slink = r.slink /\ G[i].env = r.env
          BY <4>1 DEF Slot
        <4>3. QED
          BY <4>2 DEF r, m
      <3>4. QED
        BY <2>1, <3>3
    <2>2. CASE i \notin ToSet(s)
      <3>1. G[i] = frames[i]
        BY <1>1, <2>2, Zenon DEF Count
      <3>2. QED
        BY <1>1, <2>2, <3>1
    <2>3. QED
      BY <2>1, <2>2
  <1>. HIDE DEF G
  <1>4. G \in [1..Len(frames) -> Slot]
    <2>1. G = [i \in 1..Len(frames) |-> G[i]]
      BY <1>1, Zenon DEF G, Count
    <2>2. QED
      BY <1>3, <2>1
  <1>5. G \in Seq(Slot) /\ Len(G) = Len(frames)
    BY <1>1, <1>4
  <1>6. QED
    BY <1>1, <1>2, <1>3, <1>5 DEF Recounted, Grown, G

LEMMA RecountedLinks ==
    ASSUME LinksInv, NEW s, NEW d, Recounted(s, d, frames')
    PROVE  /\ \A i \in DOMAIN frames' : FrameRight(frames', i)
           /\ \A n \in DOMAIN calls : CallRight(frames', calls[n])
           /\ ClosureRight(frames', closure)
  <1>1. Grown(frames, frames') /\ DOMAIN frames' = DOMAIN frames
    BY DEF Recounted
  <1>2. \A i \in DOMAIN frames' : FrameRight(frames', i)
    BY <1>1, FrameGrown DEF LinksInv
  <1>3. \A n \in DOMAIN calls : CallRight(frames', calls[n])
    BY <1>1, CallGrown DEF LinksInv
  <1>4. QED
    BY <1>1, <1>2, <1>3, ClosureGrown DEF LinksInv

\* The counts, one frame at a time.
LEMMA CountOf ==
    ASSUME CallsInv, NEW i \in DOMAIN frames
    PROVE  frames[i].refs = (IF IsObject(frames, i) \/ Active(calls, i) THEN 1 ELSE 0)
                          + (IF i \in ToSet(closure.slink) THEN 1 ELSE 0)
  BY DEF CallsInv, Counted

LEMMA MakeClosureKeeps ==
    ASSUME CallsInv, NEW f \in Function, MakeClosure(f)
    PROVE  CallsInv'
  <1>. DEFINE s == Skip(<<me.frame>> \o me.slink, Links(f))
              e == Text(me.env[Links(f) + 1], Parent[f])
  <1>1. f \in Block \ {Main} /\ ~IsMethod(f) /\ Visible(f)
    BY BlocksAssumption DEF MakeClosure, Block
  <1>2. e = s /\ Chain(frames, e, Parent[f]) /\ Parent[f] \notin Class
    BY <1>1, OtherLinks DEF IsMethod
  <1>3. /\ closure = Nothing /\ closure' = [block |-> f, slink |-> s, env |-> e]
        /\ frames' = Count(closure'.slink, 1) /\ calls' = calls
    BY DEF MakeClosure
  <1>. HIDE DEF s, e
  <1>4. closure'.slink = s /\ closure'.env = e /\ closure'.block = f /\ ToSet(closure.slink) = {}
    BY <1>3 DEF Nothing, ToSet
  <1>5. Recounted(s, 1, frames')
    <2>1. TypeOK
      BY DEF CallsInv
    <2>2. \A i \in DOMAIN frames : frames[i].refs + 1 \in Nat
      BY CountOf
    <2>3. QED
      BY <1>3, <1>4, <2>1, <2>2, CountFacts
  <1>6. s \in Seq(Frame)
    <2>1. s \in Seq(DOMAIN frames)
      BY <1>2 DEF Chain
    <2>2. DOMAIN frames \subseteq Frame
      BY LenProperties, BoundsAssumption DEF CallsInv, TypeOK, Frame
    <2>3. QED
      BY <2>1, <2>2, SeqMonotonic
  <1>7. TypeOK'
    BY <1>2, <1>3, <1>5, <1>6 DEF CallsInv, TypeOK, Recounted
  <1>8. LinksInv'
    <2>1. /\ \A i \in DOMAIN frames' : FrameRight(frames', i)
          /\ \A n \in DOMAIN calls : CallRight(frames', calls[n])
      BY <1>5, RecountedLinks DEF CallsInv
    <2>2. Chain(frames', e, Parent[f])
      BY <1>2, <1>5, ChainGrown DEF Recounted
    <2>3. ClosureRight(frames', closure')
      BY <1>2, <1>4, <2>2 DEF ClosureRight
    <2>4. QED
      BY <1>3, <2>1, <2>3 DEF LinksInv
  <1>9. OneCall'
    BY <1>3, <1>5, CallFacts DEF CallsInv, OneCall, Recounted, IsObject
  <1>10. ASSUME NEW i \in DOMAIN frames'
         PROVE  frames'[i].refs = (IF IsObject(frames', i) \/ Active(calls', i) THEN 1 ELSE 0)
                                + (IF i \in ToSet(closure'.slink) THEN 1 ELSE 0)
    BY <1>3, <1>4, <1>5, CountOf DEF Recounted, IsObject
  <1>11. ASSUME NEW n \in DOMAIN calls', NEW i \in ToSet(calls'[n].slink)
         PROVE  HeldBy(frames', calls', closure', n, i)
    <2>1. i \in DOMAIN frames /\ HeldBy(frames, calls, closure, n, i)
      BY <1>3, <1>11, CallFacts DEF CallsInv, Held
    <2>2. QED
      BY <1>3, <1>4, <1>5, <2>1 DEF HeldBy, Recounted, IsObject
  <1>12. QED
    BY <1>7, <1>8, <1>9, <1>10, <1>11 DEF CallsInv, Counted, Held

LEMMA DropClosureKeeps ==
    ASSUME CallsInv, Gentle, DropClosure
    PROVE  CallsInv'
  <1>1. /\ closure' = Nothing /\ frames' = Count(closure.slink, -1) /\ calls' = calls
        /\ \A n \in DOMAIN calls : ~ calls[n].via
    BY DEF DropClosure, Running
  <1>2. ToSet(closure'.slink) = {} /\ ToSet(closure.slink) \subseteq DOMAIN frames
    BY <1>1, ClosureElements DEF Nothing, ToSet, CallsInv
  <1>3. Recounted(closure.slink, -1, frames')
    <2>1. TypeOK
      BY DEF CallsInv
    <2>2. \A i \in DOMAIN frames : i \in ToSet(closure.slink) => frames[i].refs + (-1) \in Nat
      BY CountOf
    <2>3. QED
      BY <1>1, <2>1, <2>2, CountFacts
  <1>4. TypeOK'
    <2>1. Nothing \in [block : Function \cup {None}, slink : Seq(Frame), env : Seq(Frame)]
      BY EmptySeq DEF Nothing
    <2>2. QED
      BY <1>1, <1>3, <2>1 DEF CallsInv, TypeOK, Recounted
  <1>5. LinksInv'
    BY <1>1, <1>3, RecountedLinks DEF CallsInv, LinksInv, ClosureRight
  <1>6. OneCall'
    BY <1>1, <1>3, CallFacts DEF CallsInv, OneCall, Recounted, IsObject
  <1>7. ASSUME NEW i \in DOMAIN frames'
        PROVE  frames'[i].refs = (IF IsObject(frames', i) \/ Active(calls', i) THEN 1 ELSE 0)
                               + (IF i \in ToSet(closure'.slink) THEN 1 ELSE 0)
    BY <1>1, <1>2, <1>3, CountOf DEF Recounted, IsObject
  <1>8. ASSUME NEW n \in DOMAIN calls', NEW i \in ToSet(calls'[n].slink)
        PROVE  HeldBy(frames', calls', closure', n, i)
    <2>1. i \in DOMAIN frames /\ HeldBy(frames, calls, closure, n, i)
      BY <1>1, <1>8, CallFacts DEF CallsInv, Held
    <2>2. \A m \in 1..n : m \in DOMAIN calls
      BY <1>1, LenProperties DEF CallsInv, TypeOK
    <2>3. QED
      BY <1>1, <1>3, <2>1, <2>2 DEF HeldBy, Recounted, IsObject
  <1>9. QED
    BY <1>4, <1>5, <1>6, <1>7, <1>8 DEF CallsInv, Counted, Held

\* A superclass's code in an object: the object's links from there on.
LEMMA SupercallKeeps ==
    ASSUME CallsInv, Gentle, Supercall
    PROVE  CallsInv'
  <1>. DEFINE c == Super[me.code]
              b == frames[me.frame].block
              rest == frames[me.frame].slink
              s == Skip(me.slink, level[b] - level[c])
              e == Text(me.frame, c)
              n == Len(calls) + 1
  <1>1. MeRight /\ FramesRight(frames)
    BY MeFacts DEF CallsInv, FramesRight, TypeOK, LinksInv
  <1>2. /\ me.code \in Class /\ c \in Class /\ level[me.code] = level[b]
        /\ calls' = Append(calls, [me EXCEPT !.code = c, !.slink = s, !.env = e])
        /\ frames' = frames /\ closure' = closure
    BY SuperOf DEF Supercall
  <1>3. /\ me \in Call /\ me.frame \in DOMAIN frames /\ me.code \in Played(b) /\ b \in Block
        /\ level[b] \in Nat /\ rest \in Seq(DOMAIN frames)
    BY <1>1, FrameFacts DEF MeRight, Plays
  <1>4. b \in Class /\ c \in Supers[me.code] /\ Plays(frames, me.frame, c)
    <2>1. b \in Class
      BY <1>2, <1>3 DEF Played
    <2>2. c \in Supers[me.code]
      BY <1>2, SupersSubset, SupersClosed, SuperOf
    <2>3. c \in Supers[b]
      BY <1>3, <2>1, <2>2, SupersTrans DEF Played
    <2>4. QED
      BY <1>3, <2>1, <2>2, <2>3 DEF Plays, Played
  <1>5. me.slink = rest
    <2>1. TextRight(frames, me.frame, me.code)
      BY <1>1, TextFacts DEF MeRight
    <2>2. me.env = <<me.frame>> \o Skip(rest, level[b] - level[me.code])
      BY <1>1, <2>1 DEF MeRight, TextRight
    <2>3. level[b] - level[me.code] = 0
      BY <1>2, <1>3
    <2>4. me.env = <<me.frame>> \o rest
      BY <1>3, <2>2, <2>3, SkipNothing
    <2>5. Tail(me.env) = rest /\ Tail(me.env) = me.slink
      <3>1. me.env = <<me.frame>> \o me.slink /\ me.slink \in Seq(DOMAIN frames)
        BY <1>1 DEF MeRight
      <3>2. Tail(<<me.frame>> \o me.slink) = me.slink
        BY <1>3, <3>1, ConsProperties
      <3>3. Tail(<<me.frame>> \o rest) = rest
        BY <1>3, ConsProperties
      <3>4. QED
        BY <2>4, <3>1, <3>2, <3>3
    <2>6. QED
      BY <2>5
  <1>6. /\ e = <<me.frame>> \o s /\ e = TextIn(frames, me.frame, c)
        /\ s \in Seq(DOMAIN frames) /\ e \in Seq(DOMAIN frames)
        /\ ToSet(s) \subseteq ToSet(me.slink)
    <2>1. TextRight(frames, me.frame, c)
      BY <1>1, <1>4, TextFacts
    <2>2. /\ level[b] - level[c] \in 0..Len(rest)
          /\ Skip(rest, level[b] - level[c]) \in Seq(DOMAIN frames)
          /\ TextIn(frames, me.frame, c) = <<me.frame>> \o Skip(rest, level[b] - level[c])
          /\ TextIn(frames, me.frame, c) \in Seq(DOMAIN frames)
      BY <2>1 DEF TextRight
    <2>3. ToSet(Skip(rest, level[b] - level[c])) \subseteq ToSet(rest)
      BY <1>3, <2>2, ElementsFacts
    <2>4. QED
      BY <1>5, <2>2, <2>3, TextIsTextIn
  <1>. DEFINE call == [me EXCEPT !.code = c, !.slink = s, !.env = e]
  <1>. HIDE DEF s, e, c
  <1>7. DOMAIN frames \subseteq Frame /\ s \in Seq(Frame) /\ e \in Seq(Frame)
    <2>1. DOMAIN frames \subseteq Frame
      BY LenProperties, BoundsAssumption DEF CallsInv, TypeOK, Frame
    <2>2. QED
      BY <1>6, <2>1, SeqMonotonic
  <1>8. /\ call \in Call /\ call.code = c /\ call.slink = s /\ call.env = e
        /\ call.frame = me.frame
    <2>1. c \in Block
      BY <1>2 DEF Block
    <2>2. me \in [code : Block, frame : Frame, slink : Seq(Frame), env : Seq(Frame),
                   this : Frame \cup {NoObject}, via : BOOLEAN]
      BY <1>3 DEF Call
    <2>3. QED
      BY <1>7, <2>1, <2>2, ZenonT(30) DEF Call
  <1>. HIDE DEF call
  <1>9. /\ Len(calls) \in Nat \ {0} /\ DOMAIN calls = 1..Len(calls) /\ calls \in Seq(Call)
        /\ me = calls[Len(calls)]
    BY <1>1, LenProperties DEF MeRight, CallsInv, TypeOK
  <1>10. /\ calls' \in Seq(Call) /\ calls' # <<>> /\ DOMAIN calls' = 1..n
         /\ \A j \in 1..Len(calls) : calls'[j] = calls[j]
         /\ calls'[n] = call
    <2>1. calls' = Append(calls, call)
      BY <1>2 DEF call
    <2>2. /\ calls' \in Seq(Call) /\ calls' # <<>> /\ Len(calls') = n
          /\ \A j \in 1..Len(calls) : calls'[j] = calls[j]
          /\ calls'[n] = call
      BY <1>8, <1>9, <2>1, AppendProperties
    <2>3. QED
      BY <2>2, LenProperties
  <1>11. TypeOK'
    BY <1>2, <1>10 DEF CallsInv, TypeOK
  <1>12. LinksInv'
    <2>1. CallRight(frames, call)
      BY <1>4, <1>6, <1>8 DEF CallRight
    <2>2. ASSUME NEW m \in DOMAIN calls'
          PROVE  CallRight(frames, calls'[m])
      <3>1. m = n \/ (m \in DOMAIN calls /\ calls'[m] = calls[m])
        BY <1>9, <1>10
      <3>2. QED
        BY <1>10, <2>1, <3>1 DEF CallsInv, LinksInv
    <2>3. QED
      BY <1>2, <2>2 DEF CallsInv, LinksInv
  <1>13. ASSUME NEW m \in DOMAIN calls'
         PROVE  \/ m \in DOMAIN calls /\ calls'[m] = calls[m]
                \/ m = n /\ calls'[m].frame = me.frame
    BY <1>8, <1>9, <1>10
  <1>14. OneCall'
    <2>1. ASSUME NEW m \in DOMAIN calls', NEW l \in DOMAIN calls', calls'[m].frame = calls'[l].frame
          PROVE  m = l \/ IsObject(frames', calls'[m].frame)
      <3>1. CASE calls'[m].frame = me.frame
        BY <1>2, <1>4, <3>1 DEF IsObject
      <3>2. CASE calls'[m].frame # me.frame
        <4>1. /\ m \in DOMAIN calls /\ calls'[m] = calls[m]
              /\ l \in DOMAIN calls /\ calls'[l] = calls[l]
          BY <1>13, <2>1, <3>2
        <4>2. QED
          BY <1>2, <2>1, <4>1 DEF CallsInv, OneCall
      <3>3. QED
        BY <3>1, <3>2
    <2>2. QED
      BY <2>1 DEF OneCall
  <1>15. ASSUME NEW i \in DOMAIN frames'
         PROVE  Active(calls', i) <=> Active(calls, i)
    <2>1. Active(calls', i) => Active(calls, i)
      BY <1>9, <1>13 DEF Active
    <2>2. Active(calls, i) => Active(calls', i)
      <3>1. \A m \in 1..Len(calls) : m \in 1..n
        BY <1>9
      <3>2. QED
        BY <1>9, <1>10, <3>1 DEF Active
    <2>3. QED
      BY <2>1, <2>2
  <1>16. Counted'
    BY <1>2, <1>15, CountOf DEF Counted
  <1>17. ASSUME NEW m \in DOMAIN calls', NEW i \in ToSet(calls'[m].slink)
         PROVE  HeldBy(frames, calls', closure, m, i)
    <2>1. Grown(frames, frames)
      BY DEF Grown
    <2>2. CASE m = n
      <3>1. i \in ToSet(me.slink) /\ i \in DOMAIN frames
        BY <1>6, <1>8, <1>10, <1>17, <2>2, ElementsFacts
      <3>2. MayName(i, FALSE)
        BY <3>1, MeHeld
      <3>3. QED
        BY <1>9, <1>10, <2>1, <2>2, <3>1, <3>2, MayNameHeld
    <2>3. CASE m # n
      <3>1. m \in DOMAIN calls /\ calls'[m] = calls[m] /\ m \in 1..Len(calls)
        BY <1>9, <1>10, <2>3
      <3>2. i \in DOMAIN frames /\ HeldBy(frames, calls, closure, m, i)
        BY <1>17, <3>1, CallFacts DEF CallsInv, Held
      <3>3. m \in Nat /\ \A j \in 1..m : calls'[j] = calls[j]
        BY <1>9, <1>10, <3>1
      <3>4. QED
        BY <2>1, <3>2, <3>3, HeldGrown
    <2>4. QED
      BY <2>2, <2>3
  <1>18. Held'
    BY <1>2, <1>17 DEF Held
  <1>19. QED
    BY <1>11, <1>12, <1>14, <1>16, <1>18 DEF CallsInv

LEMMA ReturnKeeps ==
    ASSUME CallsInv, Return
    PROVE  CallsInv'
  <1>. DEFINE n == Len(calls)
              f == me.frame
  <1>1. /\ MeRight /\ FramesRight(frames) /\ TypeOK
        /\ n \in Nat /\ n > 1 /\ DOMAIN calls = 1..n /\ calls \in Seq(Call) /\ me = calls[n]
    BY MeFacts, LenProperties DEF Return, CallsInv, FramesRight, TypeOK, LinksInv, MeRight
  <1>2. /\ f \in DOMAIN frames /\ me.code \in Played(frames[f].block) /\ frames[f].block \in Block
        /\ IsObject(frames, f) <=> me.code \in Class
    <2>1. f \in DOMAIN frames /\ me.code \in Played(frames[f].block) /\ frames[f].block \in Block
      BY <1>1, FrameFacts DEF MeRight, Plays
    <2>2. QED
      BY <2>1, SupersSubset DEF Played, IsObject
  <1>3. /\ calls' \in Seq(Call) /\ calls' # <<>> /\ DOMAIN calls' = 1..(n - 1)
        /\ \A m \in 1..(n - 1) : calls'[m] = calls[m] /\ m \in 1..n
    <2>1. calls' = SubSeq(calls, 1, n - 1)
      BY DEF Return, Front
    <2>2. \A m \in 1..(n - 1) : calls[m] \in Call
      BY <1>1, ElementOfSeq
    <2>3. /\ SubSeq(calls, 1, n - 1) \in Seq(Call)
          /\ Len(SubSeq(calls, 1, n - 1)) = IF 1 <= n - 1 THEN (n - 1) - 1 + 1 ELSE 0
          /\ \A m \in 1..((n - 1) - 1 + 1) : SubSeq(calls, 1, n - 1)[m] = calls[1 + m - 1]
      BY <1>1, <2>2, SubSeqProperties
    <2>4. calls' \in Seq(Call) /\ Len(calls') = n - 1 /\ \A m \in 1..(n - 1) : calls'[m] = calls[m]
      BY <1>1, <2>1, <2>3
    <2>5. DOMAIN calls' = 1..(n - 1) /\ calls' # <<>>
      BY <1>1, <2>4, LenProperties, EmptySeq
    <2>6. QED
      BY <1>1, <2>4, <2>5
  <1>. DEFINE gone == IF IsObject(frames, f) THEN <<>> ELSE <<f>>
  <1>4. ToSet(gone) = IF IsObject(frames, f) THEN {} ELSE {f}
    BY DEF ToSet
  <1>5. Active(calls, f)
    BY <1>1 DEF Active
  <1>6. Recounted(gone, -1, frames') /\ closure' = closure
    <2>1. CASE IsObject(frames, f)
      <3>1. frames' = frames /\ closure' = closure
        BY <1>2, <2>1 DEF Return
      <3>2. QED
        BY <1>1, <1>4, <2>1, <3>1 DEF Recounted, Grown, TypeOK
    <2>2. CASE ~ IsObject(frames, f)
      <3>1. frames' = Count(gone, -1) /\ closure' = closure
        BY <1>2, <2>2 DEF Return
      <3>2. \A i \in DOMAIN frames : i \in ToSet(gone) => frames[i].refs + (-1) \in Nat
        BY <1>4, <1>5, CountOf
      <3>. HIDE DEF gone
      <3>3. QED
        BY <1>1, <3>1, <3>2, CountFacts
    <2>3. QED
      BY <2>1, <2>2
  <1>. HIDE DEF gone
  <1>7. TypeOK'
    BY <1>1, <1>3, <1>6 DEF TypeOK, Recounted
  <1>8. LinksInv'
    <2>1. /\ \A i \in DOMAIN frames' : FrameRight(frames', i)
          /\ \A m \in DOMAIN calls : CallRight(frames', calls[m])
          /\ ClosureRight(frames', closure)
      BY <1>6, RecountedLinks DEF CallsInv
    <2>2. QED
      BY <1>1, <1>3, <1>6, <2>1 DEF LinksInv
  <1>9. OneCall'
    <2>1. ASSUME NEW m \in 1..(n - 1), NEW l \in 1..(n - 1), calls'[m].frame = calls'[l].frame
          PROVE  m = l \/ IsObject(frames', calls'[m].frame)
      <3>1. m \in DOMAIN calls /\ l \in DOMAIN calls /\ calls[m].frame = calls[l].frame
            /\ calls'[m] = calls[m]
        BY <1>1, <1>3, <2>1
      <3>2. m = l \/ IsObject(frames, calls[m].frame)
        BY <3>1 DEF CallsInv, OneCall
      <3>3. calls[m].frame \in DOMAIN frames
        BY <3>1, CallFacts
      <3>4. QED
        BY <1>6, <3>1, <3>2, <3>3 DEF Recounted, IsObject
    <2>2. QED
      BY <1>3, <2>1 DEF OneCall
  <1>10. ASSUME NEW i \in DOMAIN frames'
         PROVE  frames'[i].refs = (IF IsObject(frames', i) \/ Active(calls', i) THEN 1 ELSE 0)
                                + (IF i \in ToSet(closure'.slink) THEN 1 ELSE 0)
    <2>1. i \in DOMAIN frames /\ (IsObject(frames', i) <=> IsObject(frames, i))
      BY <1>6 DEF Recounted, IsObject
    <2>2. Active(calls', i) => Active(calls, i)
      BY <1>1, <1>3 DEF Active
    <2>3. CASE i = f
      <3>1. ~ IsObject(frames, f) => ~ Active(calls', i)
        <4>1. SUFFICES ASSUME ~ IsObject(frames, f), NEW m \in 1..(n - 1), calls'[m].frame = f
                       PROVE  FALSE
          BY <1>3, <2>3 DEF Active
        <4>2. calls[m].frame = calls[n].frame /\ m \in DOMAIN calls /\ n \in DOMAIN calls
          BY <1>1, <1>3, <4>1
        <4>3. m = n \/ IsObject(frames, calls[m].frame)
          BY <4>2 DEF CallsInv, OneCall
        <4>4. QED
          BY <1>1, <4>1, <4>2, <4>3
      <3>2. QED
        BY <1>4, <1>5, <1>6, <2>1, <2>3, <3>1, CountOf DEF Recounted
    <2>4. CASE i # f
      <3>1. Active(calls, i) => Active(calls', i)
        <4>1. SUFFICES ASSUME NEW m \in 1..n, calls[m].frame = i
                       PROVE  Active(calls', i)
          BY <1>1 DEF Active
        <4>2. m # n /\ m \in 1..(n - 1)
          <5>1. m # n /\ m \in 1..n /\ n \in Nat
            BY <1>1, <2>4, <4>1
          <5>2. QED
            BY ONLY <5>1
        <4>3. QED
          BY <1>3, <4>1, <4>2 DEF Active
      <3>2. QED
        BY <1>4, <1>6, <2>1, <2>2, <2>4, <3>1, CountOf DEF Recounted
    <2>5. QED
      BY <2>3, <2>4
  <1>11. ASSUME NEW m \in DOMAIN calls', NEW i \in ToSet(calls'[m].slink)
         PROVE  HeldBy(frames', calls', closure', m, i)
    <2>1. m \in 1..(n - 1) /\ m \in DOMAIN calls /\ calls'[m] = calls[m] /\ m \in Nat
      BY <1>1, <1>3
    <2>2. i \in DOMAIN frames /\ HeldBy(frames, calls, closure, m, i)
      BY <1>11, <2>1, CallFacts DEF CallsInv, Held
    <2>3. \A j \in 1..m : calls'[j] = calls[j]
      BY <1>1, <1>3, <2>1
    <2>4. QED
      BY <1>6, <2>1, <2>2, <2>3, HeldGrown DEF Recounted
  <1>12. QED
    BY <1>7, <1>8, <1>9, <1>10, <1>11 DEF CallsInv, Counted, Held

-----------------------------------------------------------------------------
LEMMA CallsInit == Init => CallsInv
  <1>1. SUFFICES ASSUME Init
                 PROVE  CallsInv
    OBVIOUS
  <1>. DEFINE frame == [block |-> Main, slink |-> <<>>, env |-> <<1>>, refs |-> 1]
              call == [code |-> Main, frame |-> 1, slink |-> <<>>, env |-> <<1>>,
                       this |-> NoObject, via |-> FALSE]
  <1>2. /\ frames = <<frame>> /\ calls = <<call>> /\ closure = Nothing
    BY <1>1 DEF Init
  <1>3. /\ Main \in Block /\ Main \notin Class /\ level[Main] = 0 /\ 1 \in Frame
        /\ 1 <= MaxFrames
    BY BlocksAssumption, NestingAssumption, BoundsAssumption DEF Block, Frame
  <1>4. <<>> \in Seq(Frame) /\ <<1>> \in Seq(Frame) /\ <<>> \in Seq({1}) /\ <<1>> \in Seq({1})
        /\ <<1>> \o <<>> = <<1>> /\ Tail(<<1>>) = <<>> /\ Len(<<1>>) = 1
    BY <1>3
  <1>5. frame \in Slot /\ call \in Call
    BY <1>3, <1>4 DEF Slot, Call
  <1>6. /\ frames \in Seq(Slot) /\ Len(frames) = 1 /\ DOMAIN frames = {1} /\ frames[1] = frame
        /\ calls \in Seq(Call) /\ calls # <<>> /\ DOMAIN calls = {1} /\ calls[1] = call
    BY <1>2, <1>5
  <1>7. TypeOK
    <2>1. Nothing \in [block : Function \cup {None}, slink : Seq(Frame), env : Seq(Frame)]
      BY EmptySeq DEF Nothing
    <2>2. QED
      BY <1>2, <1>3, <1>6, <2>1 DEF TypeOK
  <1>8. Plays(frames, 1, Main) /\ TextIn(frames, 1, Main) = <<1>>
    <2>1. Plays(frames, 1, Main)
      BY <1>3, <1>6 DEF Plays, Played
    <2>2. TextIn(frames, 1, Main) = <<1>> \o Skip(<<>>, Len(<<>>) - 0)
      BY <1>3, <1>4, <1>6 DEF TextIn
    <2>3. Len(<<>>) - 0 = 0 /\ Skip(<<>>, 0) = <<>>
      <3>1. Len(<<>>) = 0
        BY <1>4, EmptySeq
      <3>2. Skip(<<>>, 0) = <<>>
        BY <1>4, SkipNothing, Zenon
      <3>3. QED
        BY <3>1, <3>2
    <2>4. QED
      BY <1>4, <2>1, <2>2, <2>3
  <1>9. Chain(frames, <<1>>, Main)
    <2>1. Skip(<<1>>, 0) = <<1>>
      BY <1>4, SkipNothing
    <2>2. QED
      BY <1>3, <1>4, <1>6, <1>8, <2>1, AroundMain DEF Chain
  <1>10. FrameRight(frames, 1) /\ CallRight(frames, calls[1])
    BY <1>4, <1>6, <1>8, <1>9 DEF FrameRight, CallRight
  <1>11. LinksInv
    BY <1>2, <1>6, <1>10 DEF LinksInv, ClosureRight
  <1>12. ToSet(closure.slink) = {} /\ ToSet(calls[1].slink) = {}
    BY <1>2, <1>6 DEF Nothing, ToSet
  <1>13. OneCall /\ Counted /\ Held
    BY <1>6, <1>12 DEF OneCall, Counted, Held, Active
  <1>14. QED
    BY <1>7, <1>11, <1>13 DEF CallsInv

LEMMA CallsNext ==
    ASSUME CallsInv, Gentle, [Next]_vars
    PROVE  CallsInv'
  <1>1. ASSUME NEW f \in Function, CallOwn(f)
        PROVE  CallsInv'
    BY <1>1, CallOwnEntered, EnteredKeeps
  <1>2. ASSUME NEW f \in Function, CallNested(f)
        PROVE  CallsInv'
    BY <1>2, CallNestedEntered, EnteredKeeps
  <1>3. ASSUME NEW f \in Function, CallRegular(f)
        PROVE  CallsInv'
    BY <1>3, CallRegularEntered, EnteredKeeps
  <1>4. ASSUME NEW f \in Function, MakeClosure(f)
        PROVE  CallsInv'
    BY <1>4, MakeClosureKeeps
  <1>5. ASSUME NEW f \in Function, NEW o \in DOMAIN frames, CallMethod(o, f)
        PROVE  CallsInv'
    BY <1>5, CallMethodEntered, EnteredKeeps
  <1>6. ASSUME NEW c \in Class, NewObject(c)
        PROVE  CallsInv'
    BY <1>6, NewObjectEntered, EnteredKeeps
  <1>7. CASE Supercall
    BY <1>7, SupercallKeeps
  <1>8. CASE DropClosure
    BY <1>8, DropClosureKeeps
  <1>9. CASE CallClosure
    BY <1>9, CallClosureEntered, EnteredKeeps
  <1>10. CASE Return
    BY <1>10, ReturnKeeps
  <1>11. CASE UNCHANGED vars
    BY <1>11 DEF vars, CallsInv, TypeOK, LinksInv, OneCall, Counted, Held
  <1>12. QED
    BY <1>1, <1>2, <1>3, <1>4, <1>5, <1>6, <1>7, <1>8, <1>9, <1>10, <1>11 DEF Next

LEMMA CallsInvariance ==
    ASSUME Gentle
    PROVE  Spec => []CallsInv
  <1>1. CallsInv /\ [Next]_vars => CallsInv'
    BY CallsNext
  <1>2. QED
    BY CallsInit, <1>1, PTL DEF Spec

LEMMA FramesAreKept ==
    ASSUME CallsInv
    PROVE  FramesInv
  <1>1. ASSUME NEW i \in ToSet(closure.slink) \cup InReach
        PROVE  frames[i].refs > 0
    <2>1. InReach \subseteq DOMAIN frames
      BY CallFacts DEF InReach
    <2>2. i \in DOMAIN frames
      BY <2>1, ClosureElements DEF CallsInv
    <2>3. i \in ToSet(closure.slink) \/ IsObject(frames, i) \/ Active(calls, i)
      <3>1. CASE i \in InReach
        <4>1. \A m \in 1..Len(calls) : m \in DOMAIN calls
          BY LenProperties DEF CallsInv, TypeOK
        <4>2. MayName(i, FALSE)
          BY <3>1, ReachHeld
        <4>3. QED
          BY <4>1, <4>2 DEF MayName, Active
      <3>2. QED
        BY <1>1, <3>1
    <2>4. QED
      BY <2>2, <2>3, CountOf
  <1>2. QED
    BY <1>1 DEF FramesInv, FramesKept, CallsInv

\* As long as the four uses named in Calls do not happen, no frame that a
\* running function or the closure can name has been deleted, whatever the
\* program's text and however the calls nest: the counts that make_closure and
\* the calls keep are the references there are.
THEOREM FramesSafety ==
    ASSUME Gentle
    PROVE  Spec => []FramesInv
  BY CallsInvariance, FramesAreKept, PTL

\* Under the same limit, whichever way a function was reached (by name, as a
\* method, through a superclass, as a nested function or a closure), the links
\* callFunction, newObject, supercall and make_closure compute lead to the
\* frames that the text of the function means.
THEOREM LinksSafety ==
    ASSUME Gentle
    PROVE  Spec => []LinksReach
  <1>1. CallsInv => LinksReach
    BY DEF CallsInv, LinksInv, CallRight, LinksReach
  <1>2. QED
    BY CallsInvariance, <1>1, PTL
=============================================================================
