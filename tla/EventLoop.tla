----------------------------- MODULE EventLoop ------------------------------
(***************************************************************************)
(* One EventLoop of mymuduo/net: the loop() of its own thread, the queue   *)
(* of functors that any thread may add to (runInLoop, queueInLoop), the    *)
(* eventfd that wakes the loop from epoll_wait, and quit().                *)
(*                                                                         *)
(* A step is what a thread does between two accesses to state that another *)
(* thread can see: the atomic flags quit_ and callingPendingFunctors_, the *)
(* queue (each critical section on mutex_ is one step) and the eventfd     *)
(* counter.  looping_ is written and never read, so it has no variable.    *)
(***************************************************************************)
EXTENDS Naturals, Sequences

CONSTANTS
    Threads,        \* the threads that use the loop and do not run it
    Owner,          \* the thread that constructed the loop and runs loop()
    InitPosts,      \* functors the owner queues before it calls loop(), in
                    \* the ThreadInitCallback
    MaxPosts,       \* bound: functors queued in one behaviour
    EventfdMax      \* largest value of an eventfd counter (2^64 - 2)

ASSUME OwnerAssumption == Owner \notin Threads
ASSUME InitPostsAssumption == InitPosts \in Nat
ASSUME EventfdAssumption == EventfdMax \in Nat \ {0}

VARIABLES
    quit_,
    callingPendingFunctors_,
    pendingFunctors_,   \* Seq of functor numbers, oldest first
    wakeupFd_,          \* the eventfd's counter
    activeChannels_,    \* channels poll() returned and loop() has not handled
    functors,           \* doPendingFunctors' local vector: not started yet
    loopPc,             \* where the owner is in loop()
    callPc,             \* where each thread is in queueInLoop() or quit()
    posted,             \* functors queued so far
    lastRun             \* the functor started last

vars == <<quit_, callingPendingFunctors_, pendingFunctors_, wakeupFd_,
          activeChannels_, functors, loopPc, callPc, posted, lastRun>>

AllThreads == Threads \cup {Owner}

\* The wakeup channel and one channel that stands for all the others.
Channels == {"wakeup", "io"}

LoopPcs == {"constructed", "test", "poll", "handle", "callback",
            "swap", "run", "functor", "exited"}

\* Where user code runs on the owner's stack.
InCallback == {"callback", "functor"}

CallPcs == {"idle", "queued", "quitting"}

TypeOK ==
    /\ quit_ \in BOOLEAN
    /\ callingPendingFunctors_ \in BOOLEAN
    /\ pendingFunctors_ \in Seq(Nat)
    /\ wakeupFd_ \in 0..EventfdMax
    /\ activeChannels_ \in SUBSET Channels
    /\ functors \in Seq(Nat)
    /\ loopPc \in LoopPcs
    /\ callPc \in [AllThreads -> CallPcs]
    /\ posted \in Nat
    /\ lastRun \in Nat

(***************************************************************************)
(* The loop after its constructor and the ThreadInitCallback.  A functor   *)
(* that the owner queues before loop() passes queueInLoop's test with      *)
(* callingPendingFunctors_ false, so it does not write the eventfd.        *)
(***************************************************************************)
Init ==
    /\ quit_ = FALSE
    /\ callingPendingFunctors_ = FALSE
    /\ pendingFunctors_ = [i \in 1..InitPosts |-> i]
    /\ wakeupFd_ = 0
    /\ activeChannels_ = {}
    /\ functors = << >>
    /\ loopPc = "constructed"
    /\ callPc = [t \in AllThreads |-> "idle"]
    /\ posted = InitPosts
    /\ lastRun = 0

-----------------------------------------------------------------------------
(* wakeup(), queueInLoop() and quit(), called by any thread.               *)

isInLoopThread(t) == t = Owner

\* A write that would overflow a non-blocking eventfd fails with EAGAIN.
wakeup == wakeupFd_' = IF wakeupFd_ < EventfdMax THEN wakeupFd_ + 1 ELSE wakeupFd_

\* The owner calls the loop's methods from a callback it is running.
MayCall(t) ==
    /\ callPc[t] = "idle"
    /\ isInLoopThread(t) => loopPc \in InCallback

QueueInLoop(t) ==
    /\ MayCall(t)
    /\ posted < MaxPosts
    /\ pendingFunctors_' = Append(pendingFunctors_, posted + 1)
    /\ posted' = posted + 1
    /\ callPc' = [callPc EXCEPT ![t] = "queued"]
    /\ UNCHANGED <<quit_, callingPendingFunctors_, wakeupFd_, activeChannels_,
                   functors, loopPc, lastRun>>

\* Mutant: the test loses "|| callingPendingFunctors_".
WakeAfterQueueOnlyOthers(t) ==
    /\ callPc[t] = "queued"
    /\ IF ~isInLoopThread(t) THEN wakeup ELSE UNCHANGED wakeupFd_
    /\ callPc' = [callPc EXCEPT ![t] = "idle"]
    /\ UNCHANGED <<quit_, callingPendingFunctors_, pendingFunctors_,
                   activeChannels_, functors, loopPc, posted, lastRun>>

WakeAfterQueue(t) ==
    /\ callPc[t] = "queued"
    /\ IF ~isInLoopThread(t) \/ callingPendingFunctors_
       THEN wakeup
       ELSE UNCHANGED wakeupFd_
    /\ callPc' = [callPc EXCEPT ![t] = "idle"]
    /\ UNCHANGED <<quit_, callingPendingFunctors_, pendingFunctors_,
                   activeChannels_, functors, loopPc, posted, lastRun>>

Quit(t) ==
    /\ MayCall(t)
    /\ quit_' = TRUE
    /\ callPc' = [callPc EXCEPT ![t] = "quitting"]
    /\ UNCHANGED <<callingPendingFunctors_, pendingFunctors_, wakeupFd_,
                   activeChannels_, functors, loopPc, posted, lastRun>>

\* Mutant: quit() from another thread does not wake the loop.
WakeAfterQuitNever(t) ==
    /\ callPc[t] = "quitting"
    /\ callPc' = [callPc EXCEPT ![t] = "idle"]
    /\ UNCHANGED <<quit_, callingPendingFunctors_, pendingFunctors_, wakeupFd_,
                   activeChannels_, functors, loopPc, posted, lastRun>>

WakeAfterQuit(t) ==
    /\ callPc[t] = "quitting"
    /\ IF ~isInLoopThread(t) THEN wakeup ELSE UNCHANGED wakeupFd_
    /\ callPc' = [callPc EXCEPT ![t] = "idle"]
    /\ UNCHANGED <<quit_, callingPendingFunctors_, pendingFunctors_,
                   activeChannels_, functors, loopPc, posted, lastRun>>

-----------------------------------------------------------------------------
(* loop(), run by the owner.  A step of loop() needs the owner not to be   *)
(* inside a call that a callback of the loop made.                         *)

At(pc) == loopPc = pc /\ callPc[Owner] = "idle"

LoopEnter ==
    /\ At("constructed")
    /\ quit_' = FALSE
    /\ loopPc' = "test"
    /\ UNCHANGED <<callingPendingFunctors_, pendingFunctors_, wakeupFd_,
                   activeChannels_, functors, callPc, posted, lastRun>>

LoopTest ==
    /\ At("test")
    /\ loopPc' = IF quit_ THEN "exited" ELSE "poll"
    /\ UNCHANGED <<quit_, callingPendingFunctors_, pendingFunctors_, wakeupFd_,
                   activeChannels_, functors, callPc, posted, lastRun>>

\* epoll is level-triggered: it reports the eventfd whenever its counter is
\* not zero.
Ready(io) == (IF wakeupFd_ > 0 THEN {"wakeup"} ELSE {}) \cup io

\* poll() returns events: of the eventfd, of the other channels, or of both.
Poll(io) ==
    /\ At("poll")
    /\ Ready(io) # {}
    /\ activeChannels_' = Ready(io)
    /\ loopPc' = "handle"
    /\ UNCHANGED <<quit_, callingPendingFunctors_, pendingFunctors_, wakeupFd_,
                   functors, callPc, posted, lastRun>>

\* poll() returns without events: kPollTimeMs elapsed or a signal came.
PollNothing ==
    /\ At("poll")
    /\ wakeupFd_ = 0
    /\ activeChannels_' = {}
    /\ loopPc' = "handle"
    /\ UNCHANGED <<quit_, callingPendingFunctors_, pendingFunctors_, wakeupFd_,
                   functors, callPc, posted, lastRun>>

\* wakeupChannel_'s read callback, EventLoop::handleRead.
HandleWakeup ==
    /\ At("handle")
    /\ "wakeup" \in activeChannels_
    /\ wakeupFd_' = 0
    /\ activeChannels_' = activeChannels_ \ {"wakeup"}
    /\ UNCHANGED <<quit_, callingPendingFunctors_, pendingFunctors_, functors,
                   loopPc, callPc, posted, lastRun>>

\* Another channel's handleEvent enters a callback, which may use the loop ...
HandleIo ==
    /\ At("handle")
    /\ "io" \in activeChannels_
    /\ activeChannels_' = activeChannels_ \ {"io"}
    /\ loopPc' = "callback"
    /\ UNCHANGED <<quit_, callingPendingFunctors_, pendingFunctors_, wakeupFd_,
                   functors, callPc, posted, lastRun>>

\* ... and returns from it.
CallbackReturns ==
    /\ At("callback")
    /\ loopPc' = "handle"
    /\ UNCHANGED <<quit_, callingPendingFunctors_, pendingFunctors_, wakeupFd_,
                   activeChannels_, functors, callPc, posted, lastRun>>

\* doPendingFunctors() starts once every active channel is handled.
BeginPending ==
    /\ At("handle")
    /\ activeChannels_ = {}
    /\ callingPendingFunctors_' = TRUE
    /\ loopPc' = "swap"
    /\ UNCHANGED <<quit_, pendingFunctors_, wakeupFd_, activeChannels_,
                   functors, callPc, posted, lastRun>>

\* Mutant: the functors are copied, and pendingFunctors_ is not emptied.
SwapCopies ==
    /\ At("swap")
    /\ functors' = pendingFunctors_
    /\ loopPc' = "run"
    /\ UNCHANGED <<quit_, callingPendingFunctors_, pendingFunctors_, wakeupFd_,
                   activeChannels_, callPc, posted, lastRun>>

Swap ==
    /\ At("swap")
    /\ functors' = pendingFunctors_
    /\ pendingFunctors_' = << >>
    /\ loopPc' = "run"
    /\ UNCHANGED <<quit_, callingPendingFunctors_, wakeupFd_, activeChannels_,
                   callPc, posted, lastRun>>

RunFunctor ==
    /\ At("run")
    /\ functors # << >>
    /\ lastRun' = Head(functors)
    /\ functors' = Tail(functors)
    /\ loopPc' = "functor"
    /\ UNCHANGED <<quit_, callingPendingFunctors_, pendingFunctors_, wakeupFd_,
                   activeChannels_, callPc, posted>>

FunctorReturns ==
    /\ At("functor")
    /\ loopPc' = "run"
    /\ UNCHANGED <<quit_, callingPendingFunctors_, pendingFunctors_, wakeupFd_,
                   activeChannels_, functors, callPc, posted, lastRun>>

EndPending ==
    /\ At("run")
    /\ functors = << >>
    /\ callingPendingFunctors_' = FALSE
    /\ loopPc' = "test"
    /\ UNCHANGED <<quit_, pendingFunctors_, wakeupFd_, activeChannels_,
                   functors, callPc, posted, lastRun>>

-----------------------------------------------------------------------------

Call(t) == QueueInLoop(t) \/ WakeAfterQueue(t) \/ Quit(t) \/ WakeAfterQuit(t)

LoopStep ==
    \/ LoopEnter \/ LoopTest \/ HandleWakeup \/ HandleIo \/ CallbackReturns
    \/ BeginPending \/ Swap \/ RunFunctor \/ FunctorReturns \/ EndPending

Next ==
    \/ \E t \in AllThreads : Call(t)
    \/ \E io \in SUBSET {"io"} : Poll(io)
    \/ PollNothing
    \/ LoopStep

Spec == Init /\ [][Next]_vars

(***************************************************************************)
(* Fairness.  Every thread that has entered queueInLoop() or quit() gets   *)
(* to its end; the owner keeps running; a user callback returns, however   *)
(* many calls it makes (strong: it is not at its end during a call); and   *)
(* epoll_wait returns when the eventfd is readable.  Nothing is assumed of *)
(* the other descriptors or of the 10 s timeout of epoll_wait, and no      *)
(* thread has to call anything.                                            *)
(***************************************************************************)
Fairness ==
    /\ \A t \in AllThreads : WF_vars(WakeAfterQueue(t) \/ WakeAfterQuit(t))
    /\ WF_vars(LoopStep)
    /\ SF_vars(CallbackReturns \/ FunctorReturns)
    /\ WF_vars(wakeupFd_ > 0 /\ \E io \in SUBSET {"io"} : Poll(io))

FairSpec == Spec /\ Fairness

-----------------------------------------------------------------------------
(* Properties.                                                             *)

WakeupComing == wakeupFd_ > 0 \/ \E t \in Threads : callPc[t] = "queued"

(***************************************************************************)
(* While the loop is in epoll_wait, a functor queued since loop() became   *)
(* reachable has made the eventfd readable, or its queueInLoop is about to *)
(* (EventLoop.cpp:146-162): the loop never sleeps on a functor.  This is   *)
(* what the order of setting callingPendingFunctors_, swapping the queue   *)
(* and testing the flag is for.                                            *)
(***************************************************************************)
NoStrandedFunctor ==
    loopPc = "poll" /\ (\E i \in DOMAIN pendingFunctors_ : pendingFunctors_[i] > InitPosts)
        => WakeupComing

(***************************************************************************)
(* Functors start once each and in the order in which they were queued,    *)
(* whatever the interleaving of queueInLoop with doPendingFunctors.        *)
(***************************************************************************)
FQ == INSTANCE FunctorQueue WITH queue <- functors \o pendingFunctors_

StartsInOrder == FQ!Spec

(***************************************************************************)
(* A functor queued while the loop runs is started, unless the loop is     *)
(* told to quit: without help from the timeout of epoll_wait.              *)
(***************************************************************************)
EveryFunctorStarts ==
    \A f \in (InitPosts + 1)..MaxPosts : posted >= f ~> (lastRun >= f \/ quit_)

(***************************************************************************)
(* A loop that has entered loop() and is told to quit, by any thread,      *)
(* leaves loop(): quit_ is tested again and the sleep in epoll_wait is cut *)
(* short (EventLoop.cpp:122-130).                                          *)
(***************************************************************************)
QuitLeavesLoop == (quit_ /\ loopPc # "constructed") ~> (loopPc = "exited")

(***************************************************************************)
(* The comment at EventLoop.cpp:121: after quit_ is set and the loop woken *)
(* the loop exits, whenever quit() is called.                              *)
(***************************************************************************)
QuitAlwaysExits == (\E t \in Threads : callPc[t] = "quitting") ~> (loopPc = "exited")

=============================================================================
