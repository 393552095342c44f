---------------------------- MODULE FunctorQueue ----------------------------
(***************************************************************************)
(* What an EventLoop promises to the code that hands it work with          *)
(* runInLoop and queueInLoop: functors queued on a loop are started one at *)
(* a time, each of them at most once, in the order in which they were      *)
(* queued.  Functors are numbered 1, 2, ... in that order.                 *)
(***************************************************************************)
EXTENDS Naturals, Sequences

VARIABLES
    queue,      \* functors queued and not started, oldest first
    posted,     \* number of functors queued so far
    lastRun     \* the functor started last, 0 before the first

vars == <<queue, posted, lastRun>>

Upto(n) == [i \in 1..n |-> i]

Init ==
    /\ posted \in Nat
    /\ queue = Upto(posted)
    /\ lastRun = 0

Post ==
    /\ posted' = posted + 1
    /\ queue' = Append(queue, posted + 1)
    /\ UNCHANGED lastRun

Run ==
    /\ queue # << >>
    /\ lastRun' = Head(queue)
    /\ queue' = Tail(queue)
    /\ UNCHANGED posted

Next == Post \/ Run

Spec == Init /\ [][Next]_vars

(***************************************************************************)
(* Exactly the functors after the last one started are still queued, in    *)
(* order: no functor is lost, repeated or overtaken.                       *)
(***************************************************************************)
InOrder ==
    /\ lastRun \in 0..posted
    /\ queue = [i \in 1..(posted - lastRun) |-> lastRun + i]
=============================================================================
