---------------------------- MODULE ThreadStreams ----------------------------
(***************************************************************************)
(* The two streams that join a thread with the thread that called it       *)
(* (aikido.h ThreadStream, unix/connect.cc).  They are made unconnected,   *)
(* with no pipe behind them; the first use of one makes two pipes, opens   *)
(* both ends and puts the child's stream into the child's variables input  *)
(* and output, which are none until then.  Each stream has a lock of its   *)
(* own; the one that connects takes its peer's too.                        *)
(*                                                                         *)
(* An end is named by the thread that uses it.  Bytes are counted, not     *)
(* named: out[t] were written by t, buffer[t] of them are in its ofstream, *)
(* pipe[t] in the kernel, and took[t] were read by its peer.               *)
(*                                                                         *)
(* What the code leaves undefined, a use of memory that was freed or of a  *)
(* value another thread is assigning, ends the behaviour: undefined says   *)
(* which it was, and anything may follow it.                               *)
(***************************************************************************)
EXTENDS Naturals, FiniteSets

CONSTANTS
    Creator,     \* the thread that called the thread function
    Child,       \* the thread that was called
    Capacity,    \* bytes a pipe holds
    BufferSize,  \* bytes an ofstream holds
    MaxOut       \* bound: bytes a thread writes to its stream or elsewhere

Threads == {Creator, Child}
NoOne   == "no one"

ASSUME ThreadStreamsAssumption ==
    /\ Creator # Child /\ NoOne \notin Threads
    /\ Capacity \in Nat \ {0} /\ BufferSize \in Nat \ {0} /\ MaxOut \in Nat

Peer(t) == CHOOSE u \in Threads : u # t
Names   == {"input", "output"}       \* the child's variables

VARIABLES
    pc,         \* where each thread is
    op,         \* what it does with its stream
    lock,       \* holder of each end's lock
    connected,  \* ThreadStream::connected
    opened,     \* whether input and output are there
    var,        \* the child's variables: "none", "torn" while assigned, "stream"
    frame,      \* whether the child's stack frame is there
    freed,      \* ends that were deleted
    connects,   \* how often a thread went through connect
    out, buffer, pipe, took,
    stray,      \* what the child wrote to output while that was none
    failed,     \* whether pipe() has failed
    undefined   \* "no", "torn" or "late"

data == <<out, buffer, pipe, took, stray>>
vars == <<pc, op, lock, connected, opened, var, frame, freed, connects, data,
          failed, undefined>>

Places == {"idle", "lock", "check", "connect", "peerlock", "input", "input2",
           "output", "output2", "done", "use", "leave", "threw", "over"}

\* The kinds of use: a read, a write, a flush.
Uses == {"read", "write", "flush"}

Init ==
    /\ pc = [t \in Threads |-> "idle"]
    /\ op = [t \in Threads |-> "read"]
    /\ lock = [t \in Threads |-> NoOne]
    /\ connected = [t \in Threads |-> FALSE]
    /\ opened = [t \in Threads |-> FALSE]
    /\ var = [n \in Names |-> "none"]
    /\ frame = TRUE
    /\ freed = {}
    /\ connects = 0
    /\ out = [t \in Threads |-> 0]
    /\ buffer = [t \in Threads |-> 0]
    /\ pipe = [t \in Threads |-> 0]
    /\ took = [t \in Threads |-> 0]
    /\ stray = 0
    /\ failed = FALSE
    /\ undefined = "no"

Goto(t, place) == pc' = [pc EXCEPT ![t] = place]

\* The process does something undefined, and that is the end of the model of it.
Breaks(cause) ==
    /\ undefined' = cause
    /\ UNCHANGED <<pc, op, lock, connected, opened, var, frame, freed, connects,
                   data, failed>>

Calm == undefined = "no" /\ UNCHANGED undefined

-----------------------------------------------------------------------------
(***************************************************************************)
(* A use begins.  The creator has its end since the call returned; the     *)
(* child has what its variables hold, none at first, which stands for the  *)
(* standard streams.                                                       *)
(***************************************************************************)
Variable(use) == IF use = "read" THEN "input" ELSE "output"

Use(t, use) ==
    /\ pc[t] = "idle"
    /\ t = Child => var[Variable(use)] = "stream"
    /\ use = "write" => out[t] < MaxOut
    /\ op' = [op EXCEPT ![t] = use]
    /\ Goto(t, "lock") /\ Calm
    /\ UNCHANGED <<lock, connected, opened, var, frame, freed, connects, data, failed>>

\* output is none: what the child writes goes to the machine's output stream.
WriteElsewhere ==
    /\ pc[Child] = "idle" /\ var["output"] = "none"
    /\ stray + out[Child] < MaxOut
    /\ stray' = stray + 1
    /\ Calm
    /\ UNCHANGED <<pc, op, lock, connected, opened, var, frame, freed, connects,
                   out, buffer, pipe, took, failed>>

\* The variable is read while the creator assigns to it, without a lock.
UseTorn(use) ==
    /\ pc[Child] = "idle" /\ var[Variable(use)] = "torn"
    /\ undefined = "no" /\ Breaks("torn")

-----------------------------------------------------------------------------
(***************************************************************************)
(* ThreadStream::checkstreams and connect, a step for each thing another   *)
(* thread can see.                                                         *)
(***************************************************************************)
Lock(t) ==
    /\ pc[t] = "lock" /\ lock[t] = NoOne
    /\ lock' = [lock EXCEPT ![t] = t]
    /\ Goto(t, "check") /\ Calm
    /\ UNCHANGED <<op, connected, opened, var, frame, freed, connects, data, failed>>

\* Mutant: connected is not looked at.
Check_Always(t) ==
    /\ pc[t] = "check" /\ Calm
    /\ Goto(t, "connect")
    /\ UNCHANGED <<op, lock, connected, opened, var, frame, freed, connects, data, failed>>

Check(t) ==
    /\ pc[t] = "check" /\ Calm
    /\ IF connected[t]
       THEN /\ lock' = [lock EXCEPT ![t] = NoOne]
            /\ Goto(t, "use")
       ELSE UNCHANGED lock /\ Goto(t, "connect")
    /\ UNCHANGED <<op, connected, opened, var, frame, freed, connects, data, failed>>

\* Mutant: the child's variables are set before the child's lock is taken.
OpenPipes_PublishesFirst(t) ==
    /\ pc[t] = "connect" /\ Calm
    /\ opened' = [opened EXCEPT ![t] = TRUE]
    /\ connects' = connects + 1
    /\ pipe' = [u \in Threads |-> 0]
    /\ buffer' = [buffer EXCEPT ![t] = 0]
    /\ var' = [n \in Names |-> "stream"]
    /\ Goto(t, "peerlock")
    /\ UNCHANGED <<op, lock, connected, frame, freed, out, took, stray, failed>>

\* Both pipes, new and empty, and this end's two streams.
OpenPipes(t) ==
    /\ pc[t] = "connect" /\ Calm
    /\ opened' = [opened EXCEPT ![t] = TRUE]
    /\ connects' = connects + 1
    /\ pipe' = [u \in Threads |-> 0]
    /\ buffer' = [buffer EXCEPT ![t] = 0]
    /\ Goto(t, "peerlock")
    /\ UNCHANGED <<op, lock, connected, var, frame, freed, out, took, stray, failed>>

\* pipe() has no descriptor left: the exception leaves the lock taken.
PipeFails(t) ==
    /\ pc[t] = "connect" /\ Calm
    /\ failed' = TRUE
    /\ Goto(t, "threw")
    /\ UNCHANGED <<op, lock, connected, opened, var, frame, freed, connects, data>>

PeerLock(t) ==
    /\ pc[t] = "peerlock" /\ Peer(t) \notin freed
    /\ lock[Peer(t)] = NoOne
    /\ lock' = [lock EXCEPT ![Peer(t)] = t]
    /\ opened' = [opened EXCEPT ![Peer(t)] = TRUE]
    /\ buffer' = [buffer EXCEPT ![Peer(t)] = 0]
    /\ Goto(t, "input") /\ Calm
    /\ UNCHANGED <<op, connected, var, frame, freed, connects, out, pipe, took, stray,
                   failed>>

\* The child is over, and its stream was deleted with it.
PeerGone(t) ==
    /\ pc[t] = "peerlock" /\ Peer(t) \in freed
    /\ undefined = "no" /\ Breaks("late")

Assign(t) ==
    LET name == IF pc[t] \in {"input", "input2"} THEN "input" ELSE "output" IN
    /\ pc[t] \in {"input", "input2", "output", "output2"}
    /\ frame /\ Calm
    /\ var' = [var EXCEPT ![name] = IF pc[t] = name THEN "torn" ELSE "stream"]
    /\ Goto(t, CASE pc[t] = "input"  -> "input2"  [] pc[t] = "input2"  -> "output"
                 [] pc[t] = "output" -> "output2" [] pc[t] = "output2" -> "done")
    /\ UNCHANGED <<op, lock, connected, opened, frame, freed, connects, data, failed>>

\* The stack frame of the child is gone, and its variables with it.
AssignGone(t) ==
    /\ pc[t] \in {"input", "input2", "output", "output2"}
    /\ ~frame /\ undefined = "no" /\ Breaks("late")

\* Mutant: the peer does not learn that it is connected.
Connected_OwnOnly(t) ==
    /\ pc[t] = "done" /\ Peer(t) \notin freed /\ Calm
    /\ connected' = [connected EXCEPT ![t] = TRUE]
    /\ lock' = [u \in Threads |-> NoOne]
    /\ Goto(t, "use")
    /\ UNCHANGED <<op, opened, var, frame, freed, connects, data, failed>>

\* The peer is told and its lock given back; then this end is connected.
Connected(t) ==
    /\ pc[t] = "done" /\ Peer(t) \notin freed /\ Calm
    /\ connected' = [u \in Threads |-> TRUE]
    /\ lock' = [u \in Threads |-> NoOne]
    /\ Goto(t, "use")
    /\ UNCHANGED <<op, opened, var, frame, freed, connects, data, failed>>

\* The child has its streams already, but is over, and its end was deleted.
ConnectedGone(t) ==
    /\ pc[t] = "done" /\ Peer(t) \in freed
    /\ undefined = "no" /\ Breaks("late")

-----------------------------------------------------------------------------
(***************************************************************************)
(* What a use does once the lock is given back.  A write or a flush waits   *)
(* while the pipe is full, a read while it is empty and its writer is there. *)
(* A write to a pipe whose reader was deleted kills the process (SIGPIPE).  *)
(***************************************************************************)
Finishes(t) ==
    /\ pc[t] = "use" /\ Calm
    /\ Goto(t, "idle")
    /\ UNCHANGED <<op, lock, connected, opened, var, frame, freed, connects,
                   stray, failed>>

MustDrain(t) == op[t] = "flush" \/ (op[t] = "write" /\ buffer[t] = BufferSize)

\* One byte goes from the ofstream to the kernel.
Drain(t) ==
    /\ pc[t] \in {"use", "leave"} /\ Calm
    /\ pc[t] = "use" => MustDrain(t)
    /\ buffer[t] > 0 /\ pipe[t] < Capacity /\ Peer(t) \notin freed
    /\ buffer' = [buffer EXCEPT ![t] = @ - 1]
    /\ pipe' = [pipe EXCEPT ![t] = @ + 1]
    /\ UNCHANGED <<pc, op, lock, connected, opened, var, frame, freed, connects,
                   out, took, stray, failed>>

Write(t) ==
    /\ op[t] = "write" /\ buffer[t] < BufferSize
    /\ out' = [out EXCEPT ![t] = @ + 1]
    /\ buffer' = [buffer EXCEPT ![t] = @ + 1]
    /\ Finishes(t) /\ UNCHANGED <<pipe, took>>

Flushed(t) ==
    /\ op[t] = "flush" /\ buffer[t] = 0
    /\ Finishes(t) /\ UNCHANGED <<out, buffer, pipe, took>>

Read(t) ==
    /\ op[t] = "read" /\ pipe[Peer(t)] > 0
    /\ pipe' = [pipe EXCEPT ![Peer(t)] = @ - 1]
    /\ took' = [took EXCEPT ![Peer(t)] = @ + 1]
    /\ Finishes(t) /\ UNCHANGED <<out, buffer>>

ReadEnd(t) ==
    /\ op[t] = "read" /\ pipe[Peer(t)] = 0 /\ Peer(t) \in freed
    /\ Finishes(t) /\ UNCHANGED <<out, buffer, pipe, took>>

BrokenPipe(t) ==
    /\ pc[t] = "leave" \/ (pc[t] = "use" /\ MustDrain(t))
    /\ buffer[t] > 0 /\ Peer(t) \in freed /\ undefined = "no" /\ Breaks("pipe")

-----------------------------------------------------------------------------
(***************************************************************************)
(* The end.  execThread deletes the frame, with the variables and their     *)
(* references to the stream, then gives up its own reference; the creator   *)
(* gives up its value.  The last reference deletes the stream: its ofstream *)
(* writes what it holds and both of its descriptors are closed.            *)
(***************************************************************************)
LeaveFrame ==
    /\ pc[Child] = "idle" /\ Calm
    /\ frame' = FALSE
    /\ Goto(Child, "leave")
    /\ UNCHANGED <<op, lock, connected, opened, var, freed, connects, data, failed>>

DropStream ==
    /\ pc[Creator] = "idle" /\ Calm
    /\ Goto(Creator, "leave")
    /\ UNCHANGED <<op, lock, connected, opened, var, frame, freed, connects, data, failed>>

\* Mutant: the last reference is not given up, and the pipe stays open.
Delete_KeepsStream(t) ==
    /\ pc[t] = "leave" /\ buffer[t] = 0 /\ Calm
    /\ Goto(t, "over")
    /\ UNCHANGED <<op, lock, connected, opened, var, frame, freed, connects, data, failed>>

Delete(t) ==
    /\ pc[t] = "leave" /\ buffer[t] = 0 /\ Calm
    /\ freed' = freed \cup {t}
    /\ Goto(t, "over")
    /\ UNCHANGED <<op, lock, connected, opened, var, frame, connects, data, failed>>

-----------------------------------------------------------------------------
CheckStreams(t) ==
    \/ Lock(t) \/ Check(t) \/ OpenPipes(t) \/ PipeFails(t)
    \/ PeerLock(t) \/ PeerGone(t) \/ Assign(t) \/ AssignGone(t)
    \/ Connected(t) \/ ConnectedGone(t)

Transfer(t) ==
    Drain(t) \/ Write(t) \/ Flushed(t) \/ Read(t) \/ ReadEnd(t) \/ BrokenPipe(t)

Next ==
    \/ \E t \in Threads, use \in Uses : Use(t, use)
    \/ \E use \in Uses : UseTorn(use)
    \/ WriteElsewhere \/ LeaveFrame \/ DropStream
    \/ \E t \in Threads : CheckStreams(t) \/ Transfer(t) \/ Delete(t)

\* A thread goes on with what it began; nothing makes it begin.
Fairness == \A t \in Threads : WF_vars(CheckStreams(t) \/ Transfer(t) \/ Delete(t))

Spec == Init /\ [][Next]_vars /\ Fairness

-----------------------------------------------------------------------------
\* Every variable has a value the code can give it.
TypeOK ==
    /\ pc \in [Threads -> Places] /\ op \in [Threads -> Uses]
    /\ lock \in [Threads -> Threads \cup {NoOne}]
    /\ connected \in [Threads -> BOOLEAN] /\ opened \in [Threads -> BOOLEAN]
    /\ var \in [Names -> {"none", "torn", "stream"}]
    /\ frame \in BOOLEAN /\ freed \subseteq Threads /\ connects \in 0 .. 1
    /\ out \in [Threads -> 0 .. MaxOut] /\ took \in [Threads -> 0 .. MaxOut]
    /\ buffer \in [Threads -> 0 .. BufferSize] /\ pipe \in [Threads -> 0 .. Capacity]
    /\ stray \in 0 .. MaxOut
    /\ failed \in BOOLEAN /\ undefined \in {"no", "torn", "late", "pipe"}

\* A stream whose lock is free is connected exactly if its peer is, and a
\* connected one has its streams: nobody sees half a connection.
WholeConnection ==
    /\ \A t \in Threads : connected[t] => opened[t]
    /\ (\A t \in Threads : lock[t] = NoOne) =>
           /\ connected[Creator] = connected[Child]
           /\ connected[Creator] = (\A n \in Names : var[n] = "stream")

\* A byte that was written is in the ofstream, in the pipe, or was read.
\* The two pairs of pipes that two connects would make lose some.
NothingLost ==
    \A t \in Threads : out[t] = buffer[t] + pipe[t] + took[t]

\* One connection, seen whole by both sides, that loses nothing.
ConnectionInv == TypeOK /\ WholeConnection /\ NothingLost

\* Memory of the child is used after it was freed only by the creator's one
\* connect, when the child ended before it or in the middle of it, and before
\* anything went through the streams.  Once connect has returned, neither thread
\* touches what the other's end takes away.
ConnectionOutlives ==
    undefined = "late" =>
        /\ pc[Creator] \in {"peerlock", "input", "input2", "output", "output2", "done"}
        /\ pc[Child] \in {"leave", "over"}
        /\ connects = 1 /\ ~connected[Creator] /\ out[Creator] + out[Child] = 0

\* Unless there were no descriptors left, a lock that is taken is given back:
\* the two connects never wait for each other.
LocksSettle ==
    \A t \in Threads :
        lock[t] # NoOne ~> (lock[t] = NoOne \/ failed \/ undefined # "no")

\* A read of the creator returns once the child is over.
ReadsReturn ==
    (pc[Creator] = "use" /\ op[Creator] = "read" /\ pc[Child] = "leave")
        ~> (pc[Creator] # "use" \/ undefined # "no")
=============================================================================
