-------------------------- MODULE EventLoopThread ---------------------------
(***************************************************************************)
(* The life of a server's thread pool in mymuduo/net: Thread,              *)
(* EventLoopThread and EventLoopThreadPool start the io loops one by one,  *)
(* TcpServer hands connections to them, and ~TcpServer and ~EventLoopThread *)
(* take it all down again while the loops run.                             *)
(*                                                                         *)
(* The main thread runs the base loop and every step named after it; the   *)
(* thread of pool member w runs threadFunc.  A step is what a thread does  *)
(* between two accesses to shared state; a critical section on mutex_ is   *)
(* one step.  An io loop is module EventLoop's, with the main thread as    *)
(* the only other thread that calls it: callingPendingFunctors_, which     *)
(* matters to functors queued by the loop's own thread, is left out.       *)
(***************************************************************************)
EXTENDS Integers, Sequences

CONSTANTS
    ThreadNums,     \* what setThreadNum() may be given
    Conns           \* connections the server may get

ASSUME ThreadNumsAssumption == ThreadNums \subseteq Nat

VARIABLES
    \* the main thread
    numThreads_,
    mainPc,
    member,         \* the member of the pool it starts, calls or destroys
    next_,          \* getNextLoop's index, from 1
    connections_,   \* TcpServer's map
    ioLoop,         \* the loop of a connection: a member, Base, or None
    closed,         \* connections whose removeConnectionInLoop() is queued
                    \* in the base loop
    destroying,     \* connections whose connectDestroyed() is
    \* each EventLoopThread and its thread
    loop_,          \* loop_ is not null
    destroyed,      \* the EventLoopThread, its mutex_ and cond_ are gone
    threadPc,
    \* each io loop, a local variable of threadFunc
    alive,          \* constructed and not destroyed
    quit_,
    wakeupFd_,      \* the eventfd is readable
    pendingFunctors_,
    functors,       \* doPendingFunctors' local vector: not run yet
    \* each TcpConnection
    state_,
    registered,     \* its channel is in the epoll of its loop
    told            \* what the user's ConnectionCallback has been told

serverVars == <<numThreads_, next_, connections_, ioLoop, closed, destroying>>
mainVars == <<mainPc, member, serverVars>>
objectVars == <<loop_, destroyed, alive>>
queueVars == <<wakeupFd_, pendingFunctors_>>
loopVars == <<objectVars, queueVars, quit_, functors>>
connVars == <<state_, registered, told>>
vars == <<mainVars, loopVars, threadPc, connVars>>

Members == UNION {1..n : n \in ThreadNums}
Base == 0
None == -1     \* the loop of a connection not accepted yet

States == {"kConnecting", "kConnected", "kDisconnecting", "kDisconnected"}

Functors == [fn : {"connectEstablished", "connectDestroyed"}, conn : Conns]

MainPcs == {"start", "semWait", "startLoop", "condWait", "serve", "wakeup",
            "connections", "destroyWakeup", "threads", "quit", "quitWakeup", "join", "done"}
ThreadPcs == {"none", "created", "threadFunc", "publish", "loop", "test", "poll",
              "swap", "run", "unpublish", "return", "ended"}

\* Where an io loop is inside loop().
InLoop == {"test", "poll", "swap", "run"}

\* The types of the variables; next_ is a member of the pool.
TypeOK ==
    /\ numThreads_ \in ThreadNums
    /\ mainPc \in MainPcs
    /\ member \in Nat \ {0}
    /\ next_ \in Nat \ {0}
    /\ next_ = 1 \/ next_ <= numThreads_
    /\ connections_ \in SUBSET Conns
    /\ ioLoop \in [Conns -> Members \cup {Base, None}]
    /\ closed \in SUBSET Conns
    /\ destroying \in SUBSET Conns
    /\ loop_ \in [Members -> BOOLEAN]
    /\ destroyed \in [Members -> BOOLEAN]
    /\ threadPc \in [Members -> ThreadPcs]
    /\ alive \in [Members -> BOOLEAN]
    /\ quit_ \in [Members -> BOOLEAN]
    /\ wakeupFd_ \in [Members -> BOOLEAN]
    /\ pendingFunctors_ \in [Members -> Seq(Functors)]
    /\ functors \in [Members -> Seq(Functors)]
    /\ state_ \in [Conns -> States]
    /\ registered \in [Conns -> BOOLEAN]
    /\ told \in [Conns -> Seq({"up", "down"})]

Init ==
    /\ numThreads_ \in ThreadNums
    /\ mainPc = "start"
    /\ member = 1
    /\ next_ = 1
    /\ connections_ = {}
    /\ ioLoop = [c \in Conns |-> None]
    /\ closed = {}
    /\ destroying = {}
    /\ loop_ = [w \in Members |-> FALSE]
    /\ destroyed = [w \in Members |-> FALSE]
    /\ threadPc = [w \in Members |-> "none"]
    /\ alive = [w \in Members |-> FALSE]
    /\ quit_ = [w \in Members |-> FALSE]
    /\ wakeupFd_ = [w \in Members |-> FALSE]
    /\ pendingFunctors_ = [w \in Members |-> << >>]
    /\ functors = [w \in Members |-> << >>]
    /\ state_ = [c \in Conns |-> "kConnecting"]
    /\ registered = [c \in Conns |-> FALSE]
    /\ told = [c \in Conns |-> << >>]

MainGoes(from, to) == mainPc = from /\ mainPc' = to
ThreadGoes(w, from, to) == threadPc[w] = from /\ threadPc' = [threadPc EXCEPT ![w] = to]

-----------------------------------------------------------------------------
(* TcpConnection, in the thread of its loop.                               *)

connectEstablished(c) ==
    /\ state_' = [state_ EXCEPT ![c] = "kConnected"]
    /\ registered' = [registered EXCEPT ![c] = TRUE]
    /\ told' = [told EXCEPT ![c] = Append(@, "up")]

\* Mutant: connectDestroyed does not test for state kConnected.
connectDestroyedUntested(c) ==
    /\ state_' = [state_ EXCEPT ![c] = "kDisconnected"]
    /\ told' = [told EXCEPT ![c] = Append(@, "down")]
    /\ registered' = [registered EXCEPT ![c] = FALSE]

\* The channel is removed in any state; a connection that is being shut down
\* goes without a word.
connectDestroyed(c) ==
    /\ IF state_[c] = "kConnected"
       THEN /\ state_' = [state_ EXCEPT ![c] = "kDisconnected"]
            /\ told' = [told EXCEPT ![c] = Append(@, "down")]
       ELSE UNCHANGED <<state_, told>>
    /\ registered' = [registered EXCEPT ![c] = FALSE]

\* The end of the connection, an event of its channel; disableAll takes the
\* channel out of epoll.
handleClose(c) ==
    /\ registered[c]
    /\ state_' = [state_ EXCEPT ![c] = "kDisconnected"]
    /\ registered' = [registered EXCEPT ![c] = FALSE]
    /\ told' = [told EXCEPT ![c] = Append(@, "down")]

\* The message callback calls shutdown().
shutdown(c) ==
    /\ registered[c]
    /\ state_[c] = "kConnected"
    /\ state_' = [state_ EXCEPT ![c] = "kDisconnecting"]
    /\ UNCHANGED <<registered, told>>

Call(f) ==
    IF f.fn = "connectEstablished" THEN connectEstablished(f.conn) ELSE connectDestroyed(f.conn)

-----------------------------------------------------------------------------
(* EventLoopThreadPool::start.                                             *)

\* new EventLoopThread; its startLoop() calls Thread::start(), which makes
\* the thread and waits for its semaphore.
NewThread ==
    /\ member <= numThreads_
    /\ MainGoes("start", "semWait")
    /\ ThreadGoes(member, "none", "created")
    /\ UNCHANGED <<serverVars, member, loopVars, connVars>>

SemWait ==
    /\ MainGoes("semWait", "startLoop")
    /\ threadPc[member] # "created"
    /\ UNCHANGED <<serverVars, member, loopVars, threadPc, connVars>>

\* Mutant: startLoop() does not wait for the thread to publish its loop.
StartLoopNoWait ==
    /\ mainPc = "startLoop"
    /\ mainPc' = "start"
    /\ member' = member + 1
    /\ UNCHANGED <<serverVars, loopVars, threadPc, connVars>>

\* while (loop_ == nullptr) cond_.wait(lock), under mutex_; then start()
\* pushes the loop to loops_.
StartLoop ==
    /\ mainPc = "startLoop"
    /\ mainPc' = IF loop_[member] THEN "start" ELSE "condWait"
    /\ member' = IF loop_[member] THEN member + 1 ELSE member
    /\ UNCHANGED <<serverVars, loopVars, threadPc, connVars>>

SpuriousWakeup ==
    /\ MainGoes("condWait", "startLoop")
    /\ UNCHANGED <<serverVars, member, loopVars, threadPc, connVars>>

PoolStarted ==
    /\ member > numThreads_
    /\ MainGoes("start", "serve")
    /\ UNCHANGED <<serverVars, member, loopVars, threadPc, connVars>>

-----------------------------------------------------------------------------
(* threadFunc, in the thread of member w.                                  *)

\* The thread sets tid_, posts the semaphore and calls func_.
ThreadRuns(w) ==
    /\ ThreadGoes(w, "created", "threadFunc")
    /\ UNCHANGED <<mainVars, loopVars, connVars>>

\* EventLoop loop; callback_(&loop).
ConstructLoop(w) ==
    /\ ThreadGoes(w, "threadFunc", "publish")
    /\ alive' = [alive EXCEPT ![w] = TRUE]
    /\ UNCHANGED <<mainVars, loop_, destroyed, queueVars, quit_, functors, connVars>>

\* Mutant: the waiting thread is not notified.
PublishLoopSilently(w) ==
    /\ ThreadGoes(w, "publish", "loop")
    /\ loop_' = [loop_ EXCEPT ![w] = TRUE]
    /\ UNCHANGED <<mainVars, destroyed, alive, queueVars, quit_, functors, connVars>>

\* loop_ = &loop; cond_.notify_one(), under mutex_.
PublishLoop(w) ==
    /\ ThreadGoes(w, "publish", "loop")
    /\ loop_' = [loop_ EXCEPT ![w] = TRUE]
    /\ mainPc' = IF mainPc = "condWait" /\ member = w THEN "startLoop" ELSE mainPc
    /\ UNCHANGED <<serverVars, member, destroyed, alive, queueVars,
                   quit_, functors, connVars>>

LoopEnter(w) ==
    /\ ThreadGoes(w, "loop", "test")
    /\ quit_' = [quit_ EXCEPT ![w] = FALSE]
    /\ UNCHANGED <<mainVars, objectVars, queueVars, functors, connVars>>

LoopTest(w) ==
    /\ ThreadGoes(w, "test", IF quit_[w] THEN "unpublish" ELSE "poll")
    /\ UNCHANGED <<mainVars, loopVars, connVars>>

\* epoll_wait returns: the eventfd is readable and is read, a connection has
\* an event, or kPollTimeMs is over; the events have been handled.
Poll(w) ==
    /\ ThreadGoes(w, "poll", "swap")
    /\ wakeupFd_' = [wakeupFd_ EXCEPT ![w] = FALSE]
    /\ UNCHANGED <<mainVars, objectVars, pendingFunctors_, quit_, functors, connVars>>

\* One of the events is the end of a connection: the base loop gets its
\* removeConnectionInLoop().
HandleClose(w, c) ==
    /\ threadPc[w] = "poll"
    /\ ioLoop[c] = w
    /\ handleClose(c)
    /\ closed' = closed \cup {c}
    /\ UNCHANGED <<numThreads_, mainPc, member, next_, connections_, ioLoop, destroying,
                   loopVars, threadPc>>

\* One of the events is a message, and the user shuts the connection down.
HandleMessage(w, c) ==
    /\ threadPc[w] = "poll"
    /\ ioLoop[c] = w
    /\ shutdown(c)
    /\ UNCHANGED <<mainVars, loopVars, threadPc>>

Swap(w) ==
    /\ ThreadGoes(w, "swap", "run")
    /\ functors' = [functors EXCEPT ![w] = pendingFunctors_[w]]
    /\ pendingFunctors_' = [pendingFunctors_ EXCEPT ![w] = << >>]
    /\ UNCHANGED <<mainVars, objectVars, wakeupFd_, quit_, connVars>>

RunFunctor(w) ==
    /\ threadPc[w] = "run"
    /\ functors[w] # << >>
    /\ functors' = [functors EXCEPT ![w] = Tail(@)]
    /\ Call(Head(functors[w]))
    /\ UNCHANGED <<mainVars, objectVars, queueVars, threadPc, quit_>>

FunctorsRun(w) ==
    /\ functors[w] = << >>
    /\ ThreadGoes(w, "run", "test")
    /\ UNCHANGED <<mainVars, loopVars, connVars>>

\* loop() is over: loop_ = nullptr, under mutex_.
UnpublishLoop(w) ==
    /\ ThreadGoes(w, "unpublish", "return")
    /\ loop_' = [loop_ EXCEPT ![w] = FALSE]
    /\ UNCHANGED <<mainVars, destroyed, alive, queueVars, quit_, functors, connVars>>

\* mutex_ is unlocked and ~EventLoop drops the functors that did not run.
ThreadReturns(w) ==
    /\ ThreadGoes(w, "return", "ended")
    /\ alive' = [alive EXCEPT ![w] = FALSE]
    /\ pendingFunctors_' = [pendingFunctors_ EXCEPT ![w] = << >>]
    /\ UNCHANGED <<mainVars, loop_, destroyed, wakeupFd_, quit_, functors, connVars>>

-----------------------------------------------------------------------------
(* The server, in the main thread.                                         *)

getNextLoop == IF numThreads_ = 0 THEN Base ELSE next_

\* What getNextLoop leaves in next_.
nextIndex == IF next_ >= numThreads_ THEN 1 ELSE next_ + 1

\* queueInLoop() of an io loop; its wakeup() comes next.
QueueInLoop(loop, fn, c, wakeupPc) ==
    /\ pendingFunctors_' =
          [pendingFunctors_ EXCEPT ![loop] = Append(@, [fn |-> fn, conn |-> c])]
    /\ member' = loop
    /\ mainPc' = wakeupPc

\* ioLoop->runInLoop(): at once in the base loop, which is the main thread's.
RunInLoop(loop, fn, c, here, wakeupPc) ==
    IF loop = Base
    THEN Call([fn |-> fn, conn |-> c]) /\ mainPc' = here /\ UNCHANGED <<pendingFunctors_, member>>
    ELSE QueueInLoop(loop, fn, c, wakeupPc) /\ UNCHANGED connVars

\* The end of TcpServer::newConnection.
NewConnection(c) ==
    /\ mainPc = "serve"
    /\ ioLoop[c] = None
    /\ ioLoop' = [ioLoop EXCEPT ![c] = getNextLoop]
    /\ next_' = nextIndex
    /\ connections_' = connections_ \cup {c}
    /\ RunInLoop(getNextLoop, "connectEstablished", c, "serve", "wakeup")
    /\ UNCHANGED <<numThreads_, closed, destroying, objectVars, wakeupFd_,
                   threadPc, quit_, functors>>

\* removeConnectionInLoop(), as a functor of the base loop.
RemoveConnection(c) ==
    /\ mainPc = "serve"
    /\ c \in closed
    /\ closed' = closed \ {c}
    /\ connections_' = connections_ \ {c}
    /\ QueueInLoop(ioLoop[c], "connectDestroyed", c, "wakeup")
    /\ UNCHANGED <<numThreads_, next_, ioLoop, destroying, objectVars, wakeupFd_,
                   threadPc, quit_, functors, connVars>>

\* Without a pool a connection closes in the base loop, which runs
\* removeConnectionInLoop() at once; its connectDestroyed() is queued, ...
HandleCloseInBase(c) ==
    /\ mainPc = "serve"
    /\ ioLoop[c] = Base
    /\ handleClose(c)
    /\ connections_' = connections_ \ {c}
    /\ destroying' = destroying \cup {c}
    /\ UNCHANGED <<numThreads_, mainPc, member, next_, ioLoop, closed, loopVars, threadPc>>

\* ... and run unless the loop ends first.
ConnectDestroyedInBase(c) ==
    /\ mainPc = "serve"
    /\ c \in destroying
    /\ destroying' = destroying \ {c}
    /\ connectDestroyed(c)
    /\ UNCHANGED <<numThreads_, mainPc, member, next_, connections_, ioLoop, closed,
                   loopVars, threadPc>>

HandleMessageInBase(c) ==
    /\ mainPc = "serve"
    /\ ioLoop[c] = Base
    /\ shutdown(c)
    /\ UNCHANGED <<mainVars, loopVars, threadPc>>

\* The base loop's loop() returns and the server is destroyed.
BaseLoopEnds ==
    /\ MainGoes("serve", "connections")
    /\ UNCHANGED <<serverVars, member, loopVars, threadPc, connVars>>

\* ~TcpServer, for one connection.
DestroyConnection(c) ==
    /\ mainPc = "connections"
    /\ c \in connections_
    /\ connections_' = connections_ \ {c}
    /\ RunInLoop(ioLoop[c], "connectDestroyed", c, "connections", "destroyWakeup")
    /\ UNCHANGED <<numThreads_, next_, ioLoop, closed, destroying, objectVars, wakeupFd_,
                   threadPc, quit_, functors>>

\* Mutant: the eventfd is not written.
WakeupNobody(from, to) ==
    /\ MainGoes(from, to)
    /\ UNCHANGED <<serverVars, member, loopVars, threadPc, connVars>>

\* wakeup(), of queueInLoop() and of quit().
Wakeup(from, to) ==
    /\ MainGoes(from, to)
    /\ wakeupFd_' = [wakeupFd_ EXCEPT ![member] = TRUE]
    /\ UNCHANGED <<serverVars, member, objectVars, pendingFunctors_, threadPc,
                   quit_, functors, connVars>>

\* After its body ~TcpServer destroys its members, threadPool_ among them,
\* and that its threads_, one by one.
DestroyThreads ==
    /\ connections_ = {}
    /\ member' = 1
    /\ MainGoes("connections", "threads")
    /\ UNCHANGED <<serverVars, loopVars, threadPc, connVars>>

\* Mutant: the loop is told to quit, and its thread is not joined.
DestroyThreadNoJoin ==
    /\ mainPc = "threads"
    /\ member <= numThreads_
    /\ quit_' = [quit_ EXCEPT ![member] = TRUE]
    /\ destroyed' = [destroyed EXCEPT ![member] = TRUE]
    /\ member' = member + 1
    /\ UNCHANGED <<serverVars, mainPc, loop_, alive, queueVars,
                   threadPc, functors, connVars>>

\* ~EventLoopThread reads loop_ without mutex_; if it is null there is no
\* join, and ~Thread detaches the thread.
DestroyThread ==
    /\ mainPc = "threads"
    /\ member <= numThreads_
    /\ IF loop_[member]
       THEN mainPc' = "quit" /\ UNCHANGED <<destroyed, member>>
       ELSE /\ destroyed' = [destroyed EXCEPT ![member] = TRUE]
            /\ member' = member + 1
            /\ UNCHANGED mainPc
    /\ UNCHANGED <<serverVars, loop_, alive, queueVars, threadPc,
                   quit_, functors, connVars>>

\* loop_->quit() stores quit_; its wakeup() comes next.
Quit ==
    /\ MainGoes("quit", "quitWakeup")
    /\ quit_' = [quit_ EXCEPT ![member] = TRUE]
    /\ UNCHANGED <<serverVars, member, objectVars, queueVars,
                   threadPc, functors, connVars>>

\* thread_.join() returns and the destructor ends.
Join ==
    /\ MainGoes("join", "threads")
    /\ threadPc[member] = "ended"
    /\ destroyed' = [destroyed EXCEPT ![member] = TRUE]
    /\ member' = member + 1
    /\ UNCHANGED <<serverVars, loop_, alive, queueVars, threadPc,
                   quit_, functors, connVars>>

ServerGone ==
    /\ member > numThreads_
    /\ MainGoes("threads", "done")
    /\ UNCHANGED <<serverVars, member, loopVars, threadPc, connVars>>

-----------------------------------------------------------------------------

StartStep == NewThread \/ SemWait \/ StartLoop \/ PoolStarted

TeardownStep ==
    \/ \E c \in Conns : DestroyConnection(c)
    \/ Wakeup("wakeup", "serve")
    \/ Wakeup("destroyWakeup", "connections")
    \/ Wakeup("quitWakeup", "join")
    \/ DestroyThreads \/ DestroyThread \/ Quit \/ Join \/ ServerGone

ThreadStep(w) ==
    \/ ThreadRuns(w) \/ ConstructLoop(w) \/ PublishLoop(w) \/ LoopEnter(w)
    \/ LoopTest(w) \/ Swap(w) \/ RunFunctor(w) \/ FunctorsRun(w)
    \/ UnpublishLoop(w) \/ ThreadReturns(w)

LoopEvent(w) == \E c \in Conns : HandleClose(w, c) \/ HandleMessage(w, c)

BaseLoopStep(c) ==
    \/ NewConnection(c) \/ RemoveConnection(c) \/ ConnectDestroyedInBase(c)
    \/ HandleCloseInBase(c) \/ HandleMessageInBase(c)

\* The process goes on after the server is gone.
Gone == mainPc = "done" /\ UNCHANGED vars

Next ==
    \/ StartStep \/ SpuriousWakeup \/ TeardownStep \/ BaseLoopEnds
    \/ \E c \in Conns : BaseLoopStep(c)
    \/ \E w \in Members : ThreadStep(w) \/ Poll(w) \/ LoopEvent(w)
    \/ Gone

Spec == Init /\ [][Next]_vars

(***************************************************************************)
(* Fairness.  Threads keep running, and epoll_wait returns when the        *)
(* eventfd is readable.  Nothing is assumed of clients, of kPollTimeMs, of *)
(* spurious wakeups or of the user who ends the base loop.                 *)
(***************************************************************************)
Fairness ==
    /\ WF_vars(StartStep)
    /\ WF_vars(TeardownStep)
    /\ \A w \in Members : WF_vars(ThreadStep(w)) /\ WF_vars(wakeupFd_[w] /\ Poll(w))

FairSpec == Spec /\ Fairness

-----------------------------------------------------------------------------
(* Properties.                                                             *)

\* The main thread is about to use the loop of a member: startLoop() has
\* returned it, a functor is queued, the eventfd is written or quit_ is set.
UsesLoop(w) ==
    \/ mainPc = "serve" /\ w <= numThreads_
    \/ mainPc = "connections" /\ \E c \in connections_ : ioLoop[c] = w
    \/ mainPc \in {"wakeup", "destroyWakeup", "quit"} /\ member = w

(***************************************************************************)
(* The loop of a thread is a local variable that the main thread reaches   *)
(* by pointer (EventLoopThread.cpp:45, EventLoopThreadPool.cpp:34): from   *)
(* startLoop() to the quit() of ~EventLoopThread it is there whenever the  *)
(* main thread uses it.                                                    *)
(***************************************************************************)
LoopOutlivesUse == \A w \in Members : UsesLoop(w) => alive[w]

(***************************************************************************)
(* When ~EventLoopThread is over, and mutex_ with it, its thread has left  *)
(* threadFunc: the unlocked read of loop_ at EventLoopThread.cpp:19 never  *)
(* leads to the detach of a thread that still runs.                        *)
(***************************************************************************)
ThreadEndsFirst == \A w \in Members : destroyed[w] => threadPc[w] = "ended"

(***************************************************************************)
(* The user hears of a connection going down only after it has come up,    *)
(* and of each once, whichever of handleClose, the removal by the base     *)
(* loop and ~TcpServer comes first and however far the loops have got with *)
(* the functors (TcpConnection.cpp:173, :241, TcpServer.cpp:37-47).  Only  *)
(* a connection that is up for the user gets events, and none is           *)
(* kDisconnected without the user's knowledge.  The down report of a       *)
(* connection that is kDisconnecting when ~TcpServer ends it, or whose     *)
(* connectDestroyed the loop does not run, is missing: see the README.     *)
(***************************************************************************)
UpThenDown ==
    \A c \in Conns :
        /\ told[c] \in {<< >>, <<"up">>, <<"up", "down">>}
        /\ registered[c] => told[c] = <<"up">>
        /\ state_[c] = "kDisconnected" => told[c] = <<"up", "down">>

(***************************************************************************)
(* EventLoopThreadPool::start comes to its end: no notification of cond_   *)
(* is lost and no thread waits for ever (EventLoopThread.cpp:26-40).       *)
(***************************************************************************)
PoolStarts == <>(mainPc = "serve")

(***************************************************************************)
(* A quit() that meets the loop inside loop() ends the thread, and         *)
(* ~EventLoopThread returns from join() (EventLoopThread.cpp:16-24).  A    *)
(* quit() that comes before loop() is entered is lost: see                 *)
(* EventLoop's QuitAlwaysExits.                                            *)
(***************************************************************************)
QuitThreadIsJoined ==
    \A w \in Members : (quit_[w] /\ threadPc[w] \in InLoop) ~> destroyed[w]

=============================================================================
