------------------------- MODULE ThreadStreams_proofs -------------------------
(***************************************************************************)
(* The safety of the connection for pipes and buffers of every size and    *)
(* for any number of bytes.                                                *)
(***************************************************************************)
EXTENDS ThreadStreams, TLAPS

-----------------------------------------------------------------------------
(***************************************************************************)
(* The inductive invariant.  It is the creator that connects: the child    *)
(* has no stream before, and finds itself connected when it gets its lock. *)
(***************************************************************************)
Bound == {"input", "input2", "output", "output2", "done"}  \* it has both locks
Connecting == {"connect", "peerlock"} \cup Bound
InUse == {"lock", "check", "use"} \cup Connecting

\* Where the two may be, and what they hold there.
LocksHeld ==
    /\ lock[Creator] = IF pc[Creator] \in {"check", "threw"} \cup Connecting THEN Creator ELSE NoOne
    /\ lock[Child] = IF pc[Creator] \in Bound THEN Creator
                     ELSE IF pc[Child] = "check" THEN Child ELSE NoOne
    /\ pc[Child] \in {"idle", "lock", "check", "use", "leave", "over"}
    /\ pc[Child] = "lock" => connected[Child] \/ pc[Creator] \in {"output", "output2", "done"}
    /\ pc[Child] \in {"check", "use"} => connected[Child]
    /\ pc[Creator] = "use" => connected[Creator]

\* How far the connection is.
Progress ==
    /\ connected[Creator] = connected[Child]
    /\ pc[Creator] \in {"threw"} \cup Connecting => ~connected[Creator]
    /\ connects = IF connected[Creator] \/ pc[Creator] \in {"peerlock"} \cup Bound THEN 1 ELSE 0
    /\ connects = 1 => opened[Creator]
    /\ connected[Child] \/ pc[Creator] \in Bound => opened[Child]
    /\ var["input"] = IF connected[Creator] \/ pc[Creator] \in {"output", "output2", "done"}
                      THEN "stream"
                      ELSE IF pc[Creator] = "input2" THEN "torn" ELSE "none"
    /\ var["output"] = IF connected[Creator] \/ pc[Creator] = "done" THEN "stream"
                       ELSE IF pc[Creator] = "output2" THEN "torn" ELSE "none"

\* Nothing was written before, and a write that has begun has room.
Accounts ==
    /\ NothingLost
    /\ ~connected[Creator] => \A t \in Threads : out[t] = 0
    /\ \A t \in Threads : pc[t] \in InUse /\ op[t] = "write" => out[t] < MaxOut

\* What the end of a thread takes away.
Ends ==
    /\ frame = (pc[Child] \notin {"leave", "over"})
    /\ \A t \in Threads : t \in freed => pc[t] = "over"

IInv == TypeOK /\ LocksHeld /\ Progress /\ Accounts /\ Ends /\ ConnectionOutlives

LEMMA Peers == Peer(Creator) = Child /\ Peer(Child) = Creator /\ Creator # Child
  BY ThreadStreamsAssumption DEF Peer, Threads

LEMMA InitIInv == Init => IInv
  <1> SUFFICES ASSUME Init
               PROVE  IInv
    OBVIOUS
  <1>1. TypeOK
    <2> USE ThreadStreamsAssumption DEF Init
    <2>1. pc \in [Threads -> Places] /\ op \in [Threads -> Uses]
      BY DEF Places, Uses
    <2>2. 0 \in 0 .. MaxOut /\ 0 \in 0 .. BufferSize /\ 0 \in 0 .. Capacity
      OBVIOUS
    <2>3. /\ lock \in [Threads -> Threads \cup {NoOne}]
          /\ connected \in [Threads -> BOOLEAN] /\ opened \in [Threads -> BOOLEAN]
          /\ var \in [Names -> {"none", "torn", "stream"}]
          /\ frame \in BOOLEAN /\ freed \subseteq Threads /\ connects \in 0 .. 1
      OBVIOUS
    <2>4. /\ out \in [Threads -> 0 .. MaxOut] /\ took \in [Threads -> 0 .. MaxOut]
          /\ buffer \in [Threads -> 0 .. BufferSize] /\ pipe \in [Threads -> 0 .. Capacity]
          /\ stray \in 0 .. MaxOut
      BY <2>2
    <2>5. QED
      BY <2>1, <2>3, <2>4 DEF TypeOK
  <1> USE ThreadStreamsAssumption DEF Init, Threads, Names
  <1>2. LocksHeld
    BY DEF LocksHeld, Bound, Connecting
  <1>3. Progress
    BY DEF Progress, Bound, Connecting
  <1>4. Accounts
    BY DEF Accounts, NothingLost, InUse, Connecting, Bound
  <1>5. Ends /\ ConnectionOutlives
    BY DEF Ends, ConnectionOutlives
  <1>6. QED
    BY <1>1, <1>2, <1>3, <1>4, <1>5 DEF IInv

\* The creator's and the child's part of a thread that may be either.
LEMMA StepUse ==
    ASSUME IInv, NEW t \in Threads, NEW use \in Uses, Use(t, use)
    PROVE  IInv'
  <1> USE ThreadStreamsAssumption DEF IInv, Use, Goto, Calm, data
  <1>1. TypeOK'
    BY DEF TypeOK, Places
  <1>2. LocksHeld' /\ Progress'
    BY Peers DEF LocksHeld, Progress, TypeOK, Threads, Bound, Connecting, Uses, Variable
  <1>3. Accounts'
    BY DEF Accounts, NothingLost, TypeOK, InUse, Connecting, Bound
  <1>4. Ends' /\ ConnectionOutlives'
    BY DEF Ends, ConnectionOutlives, TypeOK, Threads
  <1>5. QED
    BY <1>1, <1>2, <1>3, <1>4

LEMMA StepLock ==
    ASSUME IInv, NEW t \in Threads, Lock(t)
    PROVE  IInv'
  <1> USE ThreadStreamsAssumption, Peers DEF IInv, Lock, Goto, Calm, data
  <1>1. TypeOK'
    BY DEF TypeOK, Places, LocksHeld, Progress, Accounts, NothingLost, Threads, Names, Bound, Connecting
  <1>2. LocksHeld'
    BY DEF LocksHeld, Progress, TypeOK, Threads, Bound, Connecting
  <1>3. Progress'
    BY DEF LocksHeld, Progress, TypeOK, Threads, Names, Bound, Connecting
  <1>4. Accounts'
    BY DEF LocksHeld, Progress, Accounts, NothingLost, TypeOK, Threads, InUse, Connecting, Bound
  <1>5. Ends' /\ ConnectionOutlives'
    BY DEF LocksHeld, Progress, Accounts, Ends, ConnectionOutlives, TypeOK, Threads, Bound, Connecting
  <1>6. QED
    BY <1>1, <1>2, <1>3, <1>4, <1>5

LEMMA StepCheck ==
    ASSUME IInv, NEW t \in Threads, Check(t)
    PROVE  IInv'
  <1> USE ThreadStreamsAssumption, Peers DEF IInv, Check, Goto, Calm, data
  <1>1. TypeOK'
    BY DEF TypeOK, Places, LocksHeld, Progress, Accounts, NothingLost, Threads, Names, Bound, Connecting
  <1>2. LocksHeld'
    BY DEF LocksHeld, Progress, TypeOK, Threads, Bound, Connecting
  <1>3. Progress'
    BY DEF LocksHeld, Progress, TypeOK, Threads, Names, Bound, Connecting
  <1>4. Accounts'
    BY DEF LocksHeld, Progress, Accounts, NothingLost, TypeOK, Threads, InUse, Connecting, Bound
  <1>5. Ends' /\ ConnectionOutlives'
    BY DEF LocksHeld, Progress, Accounts, Ends, ConnectionOutlives, TypeOK, Threads, Bound, Connecting
  <1>6. QED
    BY <1>1, <1>2, <1>3, <1>4, <1>5

LEMMA StepOpenPipes ==
    ASSUME IInv, NEW t \in Threads, OpenPipes(t)
    PROVE  IInv'
  <1> USE ThreadStreamsAssumption, Peers DEF IInv, OpenPipes, Goto, Calm, data
  <1>1. TypeOK'
    BY DEF TypeOK, Places, LocksHeld, Progress, Accounts, NothingLost, Threads, Names, Bound, Connecting
  <1>2. LocksHeld'
    BY DEF LocksHeld, Progress, TypeOK, Threads, Bound, Connecting
  <1>3. Progress'
    BY DEF LocksHeld, Progress, TypeOK, Threads, Names, Bound, Connecting
  <1>4. Accounts'
    BY SMTT(30) DEF LocksHeld, Progress, Accounts, NothingLost, TypeOK, Threads, InUse, Connecting, Bound
  <1>5. Ends' /\ ConnectionOutlives'
    BY DEF LocksHeld, Progress, Accounts, Ends, ConnectionOutlives, TypeOK, Threads, Bound, Connecting
  <1>6. QED
    BY <1>1, <1>2, <1>3, <1>4, <1>5

LEMMA StepPipeFails ==
    ASSUME IInv, NEW t \in Threads, PipeFails(t)
    PROVE  IInv'
  <1> USE ThreadStreamsAssumption, Peers DEF IInv, PipeFails, Goto, Calm, data
  <1>1. TypeOK'
    BY DEF TypeOK, Places, LocksHeld, Progress, Accounts, NothingLost, Threads, Names, Bound, Connecting
  <1>2. LocksHeld'
    BY DEF LocksHeld, Progress, TypeOK, Threads, Bound, Connecting
  <1>3. Progress'
    BY DEF LocksHeld, Progress, TypeOK, Threads, Names, Bound, Connecting
  <1>4. Accounts'
    BY DEF LocksHeld, Progress, Accounts, NothingLost, TypeOK, Threads, InUse, Connecting, Bound
  <1>5. Ends' /\ ConnectionOutlives'
    BY DEF LocksHeld, Progress, Accounts, Ends, ConnectionOutlives, TypeOK, Threads, Bound, Connecting
  <1>6. QED
    BY <1>1, <1>2, <1>3, <1>4, <1>5

LEMMA StepPeerLock ==
    ASSUME IInv, NEW t \in Threads, PeerLock(t)
    PROVE  IInv'
  <1> USE ThreadStreamsAssumption, Peers DEF IInv, PeerLock, Goto, Calm, data
  <1>1. TypeOK'
    BY DEF TypeOK, Places, LocksHeld, Progress, Accounts, NothingLost, Threads, Names, Bound, Connecting
  <1>2. LocksHeld'
    BY DEF LocksHeld, Progress, TypeOK, Threads, Bound, Connecting
  <1>3. Progress'
    BY DEF LocksHeld, Progress, TypeOK, Threads, Names, Bound, Connecting
  <1>4. Accounts'
    BY DEF LocksHeld, Progress, Accounts, NothingLost, TypeOK, Threads, InUse, Connecting, Bound
  <1>5. Ends' /\ ConnectionOutlives'
    BY DEF LocksHeld, Progress, Accounts, Ends, ConnectionOutlives, TypeOK, Threads, Bound, Connecting
  <1>6. QED
    BY <1>1, <1>2, <1>3, <1>4, <1>5

LEMMA StepAssign ==
    ASSUME IInv, NEW t \in Threads, Assign(t)
    PROVE  IInv'
  <1> USE ThreadStreamsAssumption, Peers DEF IInv, Assign, Goto, Calm, data
  <1>1. TypeOK'
    BY DEF TypeOK, Places, LocksHeld, Progress, Accounts, NothingLost, Threads, Names, Bound, Connecting
  <1>2. LocksHeld'
    BY DEF LocksHeld, Progress, TypeOK, Threads, Bound, Connecting
  <1>3. Progress'
    BY DEF LocksHeld, Progress, TypeOK, Threads, Names, Bound, Connecting
  <1>4. Accounts'
    BY DEF LocksHeld, Progress, Accounts, NothingLost, TypeOK, Threads, InUse, Connecting, Bound
  <1>5. Ends' /\ ConnectionOutlives'
    BY DEF LocksHeld, Progress, Accounts, Ends, ConnectionOutlives, TypeOK, Threads, Bound, Connecting
  <1>6. QED
    BY <1>1, <1>2, <1>3, <1>4, <1>5

LEMMA StepConnected ==
    ASSUME IInv, NEW t \in Threads, Connected(t)
    PROVE  IInv'
  <1> USE ThreadStreamsAssumption, Peers DEF IInv, Connected, Goto, Calm, data
  <1>1. TypeOK'
    BY DEF TypeOK, Places, LocksHeld, Progress, Accounts, NothingLost, Threads, Names, Bound, Connecting
  <1>2. LocksHeld'
    BY DEF LocksHeld, Progress, TypeOK, Threads, Bound, Connecting
  <1>3. Progress'
    BY DEF LocksHeld, Progress, TypeOK, Threads, Names, Bound, Connecting
  <1>4. Accounts'
    BY DEF LocksHeld, Progress, Accounts, NothingLost, TypeOK, Threads, InUse, Connecting, Bound
  <1>5. Ends' /\ ConnectionOutlives'
    BY DEF LocksHeld, Progress, Accounts, Ends, ConnectionOutlives, TypeOK, Threads, Bound, Connecting
  <1>6. QED
    BY <1>1, <1>2, <1>3, <1>4, <1>5

LEMMA StepDrain ==
    ASSUME IInv, NEW t \in Threads, Drain(t)
    PROVE  IInv'
  <1> USE ThreadStreamsAssumption, Peers DEF IInv, Drain, Goto, Calm, data
  <1>1. TypeOK'
    BY DEF TypeOK, Places, LocksHeld, Progress, Accounts, NothingLost, Threads, Names, Bound, Connecting
  <1>2. LocksHeld'
    BY DEF LocksHeld, Progress, TypeOK, Threads, Bound, Connecting
  <1>3. Progress'
    BY DEF LocksHeld, Progress, TypeOK, Threads, Names, Bound, Connecting
  <1>4. Accounts'
    BY DEF LocksHeld, Progress, Accounts, NothingLost, TypeOK, Threads, InUse, Connecting, Bound
  <1>5. Ends' /\ ConnectionOutlives'
    BY DEF LocksHeld, Progress, Accounts, Ends, ConnectionOutlives, TypeOK, Threads, Bound, Connecting
  <1>6. QED
    BY <1>1, <1>2, <1>3, <1>4, <1>5

LEMMA StepDelete ==
    ASSUME IInv, NEW t \in Threads, Delete(t)
    PROVE  IInv'
  <1> USE ThreadStreamsAssumption, Peers DEF IInv, Delete, Goto, Calm, data
  <1>1. TypeOK'
    BY DEF TypeOK, Places, LocksHeld, Progress, Accounts, NothingLost, Threads, Names, Bound, Connecting
  <1>2. LocksHeld'
    BY DEF LocksHeld, Progress, TypeOK, Threads, Bound, Connecting
  <1>3. Progress'
    BY DEF LocksHeld, Progress, TypeOK, Threads, Names, Bound, Connecting
  <1>4. Accounts'
    BY DEF LocksHeld, Progress, Accounts, NothingLost, TypeOK, Threads, InUse, Connecting, Bound
  <1>5. Ends' /\ ConnectionOutlives'
    BY DEF LocksHeld, Progress, Accounts, Ends, ConnectionOutlives, TypeOK, Threads, Bound, Connecting
  <1>6. QED
    BY <1>1, <1>2, <1>3, <1>4, <1>5

LEMMA StepWrite ==
    ASSUME IInv, NEW t \in Threads, Write(t)
    PROVE  IInv'
  <1> USE ThreadStreamsAssumption, Peers DEF IInv, Write, Finishes, Goto, Calm, data
  <1>1. TypeOK'
    <2>1. out[t] + 1 \in 0 .. MaxOut
      BY DEF TypeOK, Accounts, InUse
    <2>2. buffer[t] + 1 \in 0 .. BufferSize
      BY DEF TypeOK
    <2>3. QED
      BY <2>1, <2>2 DEF TypeOK, Places
  <1>2. LocksHeld'
    BY DEF LocksHeld, Progress, TypeOK, Threads, Bound, Connecting
  <1>3. Progress'
    BY DEF LocksHeld, Progress, TypeOK, Threads, Names, Bound, Connecting
  <1>4. Accounts'
    BY DEF LocksHeld, Progress, Accounts, NothingLost, TypeOK, Threads, InUse, Connecting, Bound
  <1>5. Ends' /\ ConnectionOutlives'
    BY DEF LocksHeld, Progress, Accounts, Ends, ConnectionOutlives, TypeOK, Threads, Bound, Connecting
  <1>6. QED
    BY <1>1, <1>2, <1>3, <1>4, <1>5

LEMMA StepFlushed ==
    ASSUME IInv, NEW t \in Threads, Flushed(t)
    PROVE  IInv'
  <1> USE ThreadStreamsAssumption, Peers DEF IInv, Flushed, Finishes, Goto, Calm, data
  <1>1. TypeOK'
    BY DEF TypeOK, Places, LocksHeld, Progress, Accounts, NothingLost, Threads, Names, Bound, Connecting
  <1>2. LocksHeld'
    BY DEF LocksHeld, Progress, TypeOK, Threads, Bound, Connecting
  <1>3. Progress'
    BY DEF LocksHeld, Progress, TypeOK, Threads, Names, Bound, Connecting
  <1>4. Accounts'
    BY DEF LocksHeld, Progress, Accounts, NothingLost, TypeOK, Threads, InUse, Connecting, Bound
  <1>5. Ends' /\ ConnectionOutlives'
    BY DEF LocksHeld, Progress, Accounts, Ends, ConnectionOutlives, TypeOK, Threads, Bound, Connecting
  <1>6. QED
    BY <1>1, <1>2, <1>3, <1>4, <1>5

LEMMA StepRead ==
    ASSUME IInv, NEW t \in Threads, Read(t)
    PROVE  IInv'
  <1> USE ThreadStreamsAssumption, Peers DEF IInv, Read, Finishes, Goto, Calm, data
  <1>1. TypeOK'
    BY DEF TypeOK, Places, LocksHeld, Progress, Accounts, NothingLost, Threads, Names, Bound, Connecting
  <1>2. LocksHeld'
    BY DEF LocksHeld, Progress, TypeOK, Threads, Bound, Connecting
  <1>3. Progress'
    BY DEF LocksHeld, Progress, TypeOK, Threads, Names, Bound, Connecting
  <1>4. Accounts'
    BY DEF LocksHeld, Progress, Accounts, NothingLost, TypeOK, Threads, InUse, Connecting, Bound
  <1>5. Ends' /\ ConnectionOutlives'
    BY DEF LocksHeld, Progress, Accounts, Ends, ConnectionOutlives, TypeOK, Threads, Bound, Connecting
  <1>6. QED
    BY <1>1, <1>2, <1>3, <1>4, <1>5

LEMMA StepReadEnd ==
    ASSUME IInv, NEW t \in Threads, ReadEnd(t)
    PROVE  IInv'
  <1> USE ThreadStreamsAssumption, Peers DEF IInv, ReadEnd, Finishes, Goto, Calm, data
  <1>1. TypeOK'
    BY DEF TypeOK, Places, LocksHeld, Progress, Accounts, NothingLost, Threads, Names, Bound, Connecting
  <1>2. LocksHeld'
    BY DEF LocksHeld, Progress, TypeOK, Threads, Bound, Connecting
  <1>3. Progress'
    BY DEF LocksHeld, Progress, TypeOK, Threads, Names, Bound, Connecting
  <1>4. Accounts'
    BY DEF LocksHeld, Progress, Accounts, NothingLost, TypeOK, Threads, InUse, Connecting, Bound
  <1>5. Ends' /\ ConnectionOutlives'
    BY DEF LocksHeld, Progress, Accounts, Ends, ConnectionOutlives, TypeOK, Threads, Bound, Connecting
  <1>6. QED
    BY <1>1, <1>2, <1>3, <1>4, <1>5

LEMMA StepPeerGone ==
    ASSUME IInv, NEW t \in Threads, PeerGone(t)
    PROVE  IInv'
  <1> USE ThreadStreamsAssumption, Peers DEF IInv, PeerGone, Breaks, Calm, data
  <1>1. TypeOK'
    BY DEF TypeOK, Places, LocksHeld, Progress, Accounts, NothingLost, Threads, Names, Bound, Connecting
  <1>2. LocksHeld'
    BY DEF LocksHeld, Progress, TypeOK, Threads, Bound, Connecting
  <1>3. Progress'
    BY DEF LocksHeld, Progress, TypeOK, Threads, Names, Bound, Connecting
  <1>4. Accounts'
    BY DEF LocksHeld, Progress, Accounts, NothingLost, TypeOK, Threads, InUse, Connecting, Bound
  <1>5. Ends' /\ ConnectionOutlives'
    BY DEF LocksHeld, Progress, Accounts, Ends, ConnectionOutlives, TypeOK, Threads, Bound, Connecting
  <1>6. QED
    BY <1>1, <1>2, <1>3, <1>4, <1>5

LEMMA StepAssignGone ==
    ASSUME IInv, NEW t \in Threads, AssignGone(t)
    PROVE  IInv'
  <1> USE ThreadStreamsAssumption, Peers DEF IInv, AssignGone, Breaks, Calm, data
  <1>1. TypeOK'
    BY DEF TypeOK, Places, LocksHeld, Progress, Accounts, NothingLost, Threads, Names, Bound, Connecting
  <1>2. LocksHeld'
    BY DEF LocksHeld, Progress, TypeOK, Threads, Bound, Connecting
  <1>3. Progress'
    BY DEF LocksHeld, Progress, TypeOK, Threads, Names, Bound, Connecting
  <1>4. Accounts'
    BY DEF LocksHeld, Progress, Accounts, NothingLost, TypeOK, Threads, InUse, Connecting, Bound
  <1>5. Ends' /\ ConnectionOutlives'
    BY DEF LocksHeld, Progress, Accounts, Ends, ConnectionOutlives, TypeOK, Threads, Bound, Connecting
  <1>6. QED
    BY <1>1, <1>2, <1>3, <1>4, <1>5

LEMMA StepConnectedGone ==
    ASSUME IInv, NEW t \in Threads, ConnectedGone(t)
    PROVE  IInv'
  <1> USE ThreadStreamsAssumption, Peers DEF IInv, ConnectedGone, Breaks, Calm, data
  <1>1. TypeOK'
    BY DEF TypeOK, Places, LocksHeld, Progress, Accounts, NothingLost, Threads, Names, Bound, Connecting
  <1>2. LocksHeld'
    BY DEF LocksHeld, Progress, TypeOK, Threads, Bound, Connecting
  <1>3. Progress'
    BY DEF LocksHeld, Progress, TypeOK, Threads, Names, Bound, Connecting
  <1>4. Accounts'
    BY DEF LocksHeld, Progress, Accounts, NothingLost, TypeOK, Threads, InUse, Connecting, Bound
  <1>5. Ends' /\ ConnectionOutlives'
    BY DEF LocksHeld, Progress, Accounts, Ends, ConnectionOutlives, TypeOK, Threads, Bound, Connecting
  <1>6. QED
    BY <1>1, <1>2, <1>3, <1>4, <1>5

LEMMA StepBrokenPipe ==
    ASSUME IInv, NEW t \in Threads, BrokenPipe(t)
    PROVE  IInv'
  <1> USE ThreadStreamsAssumption, Peers DEF IInv, BrokenPipe, Breaks, Calm, data
  <1>1. TypeOK'
    BY DEF TypeOK, Places, LocksHeld, Progress, Accounts, NothingLost, Threads, Names, Bound, Connecting
  <1>2. LocksHeld'
    BY DEF LocksHeld, Progress, TypeOK, Threads, Bound, Connecting
  <1>3. Progress'
    BY DEF LocksHeld, Progress, TypeOK, Threads, Names, Bound, Connecting
  <1>4. Accounts'
    BY DEF LocksHeld, Progress, Accounts, NothingLost, TypeOK, Threads, InUse, Connecting, Bound
  <1>5. Ends' /\ ConnectionOutlives'
    BY DEF LocksHeld, Progress, Accounts, Ends, ConnectionOutlives, TypeOK, Threads, Bound, Connecting
  <1>6. QED
    BY <1>1, <1>2, <1>3, <1>4, <1>5

LEMMA StepUseTorn ==
    ASSUME IInv, NEW use \in Uses, UseTorn(use)
    PROVE  IInv'
  <1> USE ThreadStreamsAssumption, Peers DEF IInv, UseTorn, Breaks, Calm, data
  <1>1. TypeOK'
    BY DEF TypeOK, Places, LocksHeld, Progress, Accounts, NothingLost, Threads, Names, Bound, Connecting
  <1>2. LocksHeld'
    BY DEF LocksHeld, Progress, TypeOK, Threads, Bound, Connecting
  <1>3. Progress'
    BY DEF LocksHeld, Progress, TypeOK, Threads, Names, Bound, Connecting
  <1>4. Accounts'
    BY DEF LocksHeld, Progress, Accounts, NothingLost, TypeOK, Threads, InUse, Connecting, Bound
  <1>5. Ends' /\ ConnectionOutlives'
    BY DEF LocksHeld, Progress, Accounts, Ends, ConnectionOutlives, TypeOK, Threads, Bound, Connecting
  <1>6. QED
    BY <1>1, <1>2, <1>3, <1>4, <1>5

LEMMA StepWriteElsewhere ==
    ASSUME IInv, WriteElsewhere
    PROVE  IInv'
  <1> USE ThreadStreamsAssumption, Peers DEF IInv, WriteElsewhere, Calm, data
  <1>1. TypeOK'
    BY DEF TypeOK, Places, LocksHeld, Progress, Accounts, NothingLost, Threads, Names, Bound, Connecting
  <1>2. LocksHeld'
    BY DEF LocksHeld, Progress, TypeOK, Threads, Bound, Connecting
  <1>3. Progress'
    BY DEF LocksHeld, Progress, TypeOK, Threads, Names, Bound, Connecting
  <1>4. Accounts'
    BY DEF LocksHeld, Progress, Accounts, NothingLost, TypeOK, Threads, InUse, Connecting, Bound
  <1>5. Ends' /\ ConnectionOutlives'
    BY DEF LocksHeld, Progress, Accounts, Ends, ConnectionOutlives, TypeOK, Threads, Bound, Connecting
  <1>6. QED
    BY <1>1, <1>2, <1>3, <1>4, <1>5

LEMMA StepLeaveFrame ==
    ASSUME IInv, LeaveFrame
    PROVE  IInv'
  <1> USE ThreadStreamsAssumption, Peers DEF IInv, LeaveFrame, Goto, Calm, data
  <1>1. TypeOK'
    BY DEF TypeOK, Places, LocksHeld, Progress, Accounts, NothingLost, Threads, Names, Bound, Connecting
  <1>2. LocksHeld'
    BY DEF LocksHeld, Progress, TypeOK, Threads, Bound, Connecting
  <1>3. Progress'
    BY DEF LocksHeld, Progress, TypeOK, Threads, Names, Bound, Connecting
  <1>4. Accounts'
    BY DEF LocksHeld, Progress, Accounts, NothingLost, TypeOK, Threads, InUse, Connecting, Bound
  <1>5. Ends' /\ ConnectionOutlives'
    BY DEF LocksHeld, Progress, Accounts, Ends, ConnectionOutlives, TypeOK, Threads, Bound, Connecting
  <1>6. QED
    BY <1>1, <1>2, <1>3, <1>4, <1>5

LEMMA StepDropStream ==
    ASSUME IInv, DropStream
    PROVE  IInv'
  <1> USE ThreadStreamsAssumption, Peers DEF IInv, DropStream, Goto, Calm, data
  <1>1. TypeOK'
    BY DEF TypeOK, Places, LocksHeld, Progress, Accounts, NothingLost, Threads, Names, Bound, Connecting
  <1>2. LocksHeld'
    BY DEF LocksHeld, Progress, TypeOK, Threads, Bound, Connecting
  <1>3. Progress'
    BY DEF LocksHeld, Progress, TypeOK, Threads, Names, Bound, Connecting
  <1>4. Accounts'
    BY DEF LocksHeld, Progress, Accounts, NothingLost, TypeOK, Threads, InUse, Connecting, Bound
  <1>5. Ends' /\ ConnectionOutlives'
    BY DEF LocksHeld, Progress, Accounts, Ends, ConnectionOutlives, TypeOK, Threads, Bound, Connecting
  <1>6. QED
    BY <1>1, <1>2, <1>3, <1>4, <1>5
-----------------------------------------------------------------------------
THEOREM Invariance == Spec => []IInv
  <1>1. ASSUME IInv, [Next]_vars
        PROVE  IInv'
    <2>1. ASSUME NEW t \in Threads, CheckStreams(t)
          PROVE  IInv'
      BY <1>1, <2>1, StepLock, StepCheck, StepOpenPipes, StepPipeFails, StepPeerLock,
         StepPeerGone, StepAssign, StepAssignGone, StepConnected,
         StepConnectedGone DEF CheckStreams
    <2>2. ASSUME NEW t \in Threads, Transfer(t)
          PROVE  IInv'
      BY <1>1, <2>2, StepDrain, StepWrite, StepFlushed, StepRead, StepReadEnd,
         StepBrokenPipe DEF Transfer
    <2>3. CASE UNCHANGED vars
      BY <1>1, <2>3, ZenonT(40) DEF vars, data, IInv, TypeOK, LocksHeld, Progress, Accounts,
         NothingLost, Ends, ConnectionOutlives
    <2>4. QED
      BY <1>1, <2>1, <2>2, <2>3, StepUse, StepUseTorn, StepWriteElsewhere, StepLeaveFrame,
         StepDropStream, StepDelete DEF Next
  <1>2. QED
    BY <1>1, InitIInv, PTL DEF Spec

\* Both threads see one connection, whole, and no byte is lost in it, in every
\* interleaving of their first uses: checkstreams takes the lock of the end it
\* was called on, and connect its peer's before it publishes anything.
THEOREM ConnectionSafety == Spec => []ConnectionInv
  <1>1. IInv => ConnectionInv
    <2> SUFFICES ASSUME IInv
                 PROVE  ConnectionInv
      OBVIOUS
    <2>1. \A t \in Threads : connected[t] => opened[t]
      BY DEF IInv, Progress, Threads
    <2>2. ASSUME \A t \in Threads : lock[t] = NoOne
          PROVE  connected[Creator] = (\A n \in Names : var[n] = "stream")
      <3>1. pc[Creator] \notin Bound
        BY <2>2, ThreadStreamsAssumption DEF IInv, LocksHeld, Threads, Connecting
      <3>2. QED
        BY <3>1, ThreadStreamsAssumption DEF IInv, TypeOK, Progress, Names, Bound, Threads
    <2>3. QED
      BY <2>1, <2>2 DEF IInv, ConnectionInv, WholeConnection, Accounts, Progress
  <1>2. QED
    BY <1>1, Invariance, PTL

\* The child's variables and its stream are used after they were freed only by the
\* creator's one connect, when the child ended before it or in the middle of it:
\* connect locks the child's stream, sets the variables, and tells the stream that it is
\* connected, without a look at whether they are there.  Nothing has gone through the
\* streams then; and when connect has returned neither thread needs the other's memory.
THEOREM OutlivesSafety == Spec => []ConnectionOutlives
  <1>1. IInv => ConnectionOutlives
    BY DEF IInv
  <1>2. QED
    BY <1>1, Invariance, PTL
===============================================================================
