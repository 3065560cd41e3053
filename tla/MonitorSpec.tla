---------------------------- MODULE MonitorSpec ----------------------------
(***************************************************************************)
(* What a monitor promises the threads that use it, without the mutex and  *)
(* the two condition variables unix/monitor.cc builds it from.             *)
(*                                                                         *)
(* A monitor has at most one owner, which may enter it several times.  A   *)
(* thread that waits gives all of its entries up at once and, when it has  *)
(* been woken, gets exactly those entries back before its wait returns.    *)
(* No order is promised among the threads that want to enter.              *)
(***************************************************************************)
EXTENDS Naturals

CONSTANTS Thread,    \* the threads that use the monitor
          None       \* "no owner"

VARIABLES owner,     \* the thread inside, or None
          entries,   \* entries[t]: how often t has entered and not left;
                     \*   kept while t waits
          status     \* what t is doing with the monitor

vars == <<owner, entries, status>>

Status == {"running", "entering", "waiting", "reentering"}

SpecTypeOK == /\ owner \in Thread \cup {None}
              /\ entries \in [Thread -> Nat]
              /\ status \in [Thread -> Status]

Init == /\ owner = None
        /\ entries = [t \in Thread |-> 0]
        /\ status = [t \in Thread |-> "running"]

\* t asks to enter.
Request(t) == /\ status[t] = "running"
              /\ status' = [status EXCEPT ![t] = "entering"]
              /\ UNCHANGED <<owner, entries>>

\* t gets in, because the monitor is free or because it is inside already.
Enter(t) == /\ status[t] = "entering"
            /\ owner \in {None, t}
            /\ owner' = t
            /\ entries' = [entries EXCEPT ![t] = @ + 1]
            /\ status' = [status EXCEPT ![t] = "running"]

\* The owner leaves once; the last time makes the monitor free.
Leave(t) == /\ status[t] = "running"
            /\ owner = t
            /\ entries' = [entries EXCEPT ![t] = @ - 1]
            /\ owner' = IF entries[t] = 1 THEN None ELSE t
            /\ UNCHANGED status

\* The owner waits: the monitor is free, its entries are remembered.
Wait(t) == /\ status[t] = "running"
           /\ owner = t
           /\ owner' = None
           /\ status' = [status EXCEPT ![t] = "waiting"]
           /\ UNCHANGED entries

Waiting == {t \in Thread : status[t] = "waiting"}

\* The waiters in W stop waiting and want their entries back.
Rouse(W) == status' = [t \in Thread |-> IF t \in W THEN "reentering"
                                                   ELSE status[t]]

\* The owner notifies one waiter, if there is one.
Notify(t) == /\ status[t] = "running"
             /\ owner = t
             /\ \E w \in Waiting : Rouse({w})
             /\ UNCHANGED <<owner, entries>>

\* The owner notifies every waiter.
NotifyAll(t) == /\ status[t] = "running"
                /\ owner = t
                /\ Rouse(Waiting)
                /\ UNCHANGED <<owner, entries>>

\* A waiter may also stop waiting unasked: a time limit, or no reason at all.
WakeUp(t) == /\ status[t] = "waiting"
             /\ Rouse({t})
             /\ UNCHANGED <<owner, entries>>

\* A roused waiter gets its entries back; only now does its wait return.
Reenter(t) == /\ status[t] = "reentering"
              /\ owner = None
              /\ owner' = t
              /\ status' = [status EXCEPT ![t] = "running"]
              /\ UNCHANGED entries

Next == \E t \in Thread : \/ Request(t) \/ Enter(t) \/ Leave(t)
                          \/ Wait(t) \/ Notify(t) \/ NotifyAll(t)
                          \/ WakeUp(t) \/ Reenter(t)

Spec == Init /\ [][Next]_vars
=============================================================================
