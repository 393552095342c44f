----------------------- MODULE EventLoopThread_proofs -----------------------
(***************************************************************************)
(* Proofs about EventLoopThread, for a pool of any size and any            *)
(* connections: the loops outlive their use by the main thread, every      *)
(* thread has ended when its EventLoopThread is gone, and the user hears   *)
(* of a connection's end once, after its beginning.                        *)
(***************************************************************************)
EXTENDS EventLoopThread, TLAPS

-----------------------------------------------------------------------------
(* The inductive invariant.                                                *)

Starting == {"start", "semWait", "startLoop", "condWait"}
Serving == {"serve", "wakeup", "connections", "destroyWakeup"}
Ending == {"threads", "quit", "quitWakeup", "join", "done"}

\* Where threadFunc is while loop_ points to its loop, and while that exists.
Published == {"loop", "unpublish"} \cup InLoop
Constructed == {"publish", "return"} \cup Published

\* The types of what the argument is about.
PoolTypes ==
    /\ numThreads_ \in ThreadNums
    /\ mainPc \in Starting \cup Serving \cup Ending
    /\ member \in Nat \ {0}
    /\ next_ \in Nat \ {0}
    /\ next_ = 1 \/ next_ <= numThreads_
    /\ connections_ \subseteq Conns
    /\ ioLoop \in [Conns -> Int]
    /\ loop_ \in [Members -> BOOLEAN]
    /\ destroyed \in [Members -> BOOLEAN]
    /\ threadPc \in [Members -> ThreadPcs]
    /\ alive \in [Members -> BOOLEAN]
    /\ quit_ \in [Members -> BOOLEAN]

\* loop_ and the local EventLoop follow threadFunc, which leaves loop() only
\* after a quit().
ThreadsInv ==
    \A w \in Members :
        /\ alive[w] <=> threadPc[w] \in Constructed
        /\ loop_[w] <=> threadPc[w] \in Published
        /\ threadPc[w] \in {"unpublish", "return", "ended"} => quit_[w]

\* Only ~EventLoopThread quits a loop.
QuitInv ==
    \A w \in Members : quit_[w] =>
        \/ mainPc \in Ending /\ w < member
        \/ mainPc \in {"quitWakeup", "join"} /\ w = member

\* The main thread starts the members in turn, ...
StartInv ==
    mainPc \in Starting =>
        /\ mainPc # "start" => member <= numThreads_
        /\ \A w \in Members : /\ w < member => loop_[w]
                              /\ w > member => threadPc[w] = "none"
        /\ mainPc = "start" => \A w \in Members : w = member => threadPc[w] = "none"

\* ... finds all of them running while it serves, ...
ServeInv ==
    /\ mainPc \in Serving => \A w \in 1..numThreads_ : loop_[w]
    /\ mainPc \in {"wakeup", "destroyWakeup"} => member <= numThreads_

\* ... and ends them in turn.
EndInv ==
    mainPc \in Ending =>
        /\ mainPc \in {"quit", "quitWakeup", "join"} => member <= numThreads_
        /\ \A w \in 1..numThreads_ :
               w > member \/ (w = member /\ mainPc \in {"threads", "quit"}) => loop_[w]

\* A connection is in a loop of the pool or in the base loop, which removes it
\* at once when it closes.
ConnsInv ==
    \A c \in Conns :
        /\ ioLoop[c] \in {None, Base} \cup (1..numThreads_)
        /\ c \in connections_ => ioLoop[c] # None
        /\ c \in closed => ioLoop[c] \in 1..numThreads_
        /\ c \in destroying => ioLoop[c] = Base

IInv ==
    /\ PoolTypes /\ ThreadsInv /\ QuitInv /\ StartInv /\ ServeInv /\ EndInv /\ ConnsInv
    /\ ThreadEndsFirst

USE DEF Starting, Serving, Ending, Published, Constructed, InLoop, Base, None

\* The members of a pool of numThreads_ threads.
LEMMA PoolMembers ==
    ASSUME numThreads_ \in ThreadNums
    PROVE  numThreads_ \in Nat /\ 1..numThreads_ \subseteq Members
BY ThreadNumsAssumption DEF Members

LEMMA MembersAreNumbers == Members \subseteq Nat \ {0}
BY ThreadNumsAssumption DEF Members

\* The invariant gives the two properties.
LEMMA InvImpliesUse == IInv => LoopOutlivesUse
<1> SUFFICES ASSUME IInv, NEW w \in Members, UsesLoop(w)
             PROVE  alive[w]
  BY DEF LoopOutlivesUse
<1>1. loop_[w]
  <2>1. numThreads_ \in Nat /\ 1..numThreads_ \subseteq Members /\ w \in Nat \ {0}
    BY PoolMembers, MembersAreNumbers DEF IInv, PoolTypes
  <2>2. mainPc \in Serving => w \in 1..numThreads_
    BY <2>1 DEF UsesLoop, IInv, ServeInv, ConnsInv, PoolTypes
  <2>3. CASE mainPc \in Serving
    BY <2>2, <2>3 DEF IInv, ServeInv
  <2>4. CASE mainPc = "quit" /\ w = member
    BY <2>1, <2>4 DEF IInv, EndInv, PoolTypes
  <2>5. QED
    BY <2>3, <2>4 DEF UsesLoop
<1>2. QED
  BY <1>1 DEF IInv, ThreadsInv

LEMMA InitInv == Init => IInv
BY PoolMembers, MembersAreNumbers
   DEF Init, IInv, PoolTypes, ThreadsInv, QuitInv, StartInv, ServeInv, EndInv, ConnsInv,
       ThreadEndsFirst, ThreadPcs

-----------------------------------------------------------------------------
(* The steps.                                                              *)

\* Every step keeps the invariant.
LEMMA StepKeepsInv == IInv /\ [Next]_vars => IInv'
<1> SUFFICES ASSUME IInv, [Next]_vars PROVE IInv'
  OBVIOUS
<1> USE DEF IInv, PoolTypes, ThreadsInv, QuitInv, StartInv, ServeInv, EndInv, ConnsInv,
            ThreadEndsFirst, ThreadPcs, ThreadGoes, MainGoes, vars, mainVars, serverVars, loopVars, objectVars, queueVars, connVars
<1>a. numThreads_ \in Nat /\ 1..numThreads_ \subseteq Members /\ Members \subseteq Nat \ {0}
  BY PoolMembers, MembersAreNumbers
<1>1. ASSUME NEW w \in Members, ThreadRuns(w) PROVE IInv'
  BY <1>a, <1>1 DEF ThreadRuns
<1>2. ASSUME NEW w \in Members, ConstructLoop(w) PROVE IInv'
  BY <1>a, <1>2 DEF ConstructLoop
<1>3. ASSUME NEW w \in Members, PublishLoop(w) PROVE IInv'
  BY <1>a, <1>3 DEF PublishLoop
<1>4. ASSUME NEW w \in Members, LoopEnter(w) PROVE IInv'
  BY <1>a, <1>4 DEF LoopEnter
<1>5. ASSUME NEW w \in Members, LoopTest(w) PROVE IInv'
  BY <1>a, <1>5 DEF LoopTest
<1>6. ASSUME NEW w \in Members, Swap(w) PROVE IInv'
  BY <1>a, <1>6 DEF Swap
<1>7. ASSUME NEW w \in Members, RunFunctor(w) PROVE IInv'
  BY <1>a, <1>7 DEF RunFunctor
<1>8. ASSUME NEW w \in Members, FunctorsRun(w) PROVE IInv'
  BY <1>a, <1>8 DEF FunctorsRun
<1>9. ASSUME NEW w \in Members, UnpublishLoop(w) PROVE IInv'
  BY <1>a, <1>9 DEF UnpublishLoop
<1>10. ASSUME NEW w \in Members, ThreadReturns(w) PROVE IInv'
  BY <1>a, <1>10 DEF ThreadReturns
<1>11. ASSUME NEW w \in Members, Poll(w) PROVE IInv'
  BY <1>a, <1>11 DEF Poll
<1>12. ASSUME NEW w \in Members, NEW c \in Conns, HandleClose(w, c) \/ HandleMessage(w, c)
       PROVE  IInv'
  BY <1>a, <1>12 DEF HandleClose, HandleMessage
<1>13. CASE NewThread
  BY <1>a, <1>13 DEF NewThread
<1>14. CASE SemWait
  BY <1>a, <1>14 DEF SemWait
<1>15. CASE StartLoop
  BY <1>a, <1>15 DEF StartLoop
<1>16. CASE SpuriousWakeup
  BY <1>a, <1>16 DEF SpuriousWakeup
<1>17. CASE PoolStarted
  BY <1>a, <1>17 DEF PoolStarted
<1>18. CASE BaseLoopEnds
  BY <1>a, <1>18 DEF BaseLoopEnds
<1>19. CASE DestroyThreads
  BY <1>a, <1>19 DEF DestroyThreads
<1>20. CASE DestroyThread
  BY <1>a, <1>20 DEF DestroyThread
<1>21. CASE Quit
  BY <1>a, <1>21 DEF Quit
<1>22. CASE Join
  BY <1>a, <1>22 DEF Join
<1>23. CASE ServerGone
  BY <1>a, <1>23 DEF ServerGone
<1>24. ASSUME NEW c \in Conns, NewConnection(c) PROVE IInv'
  BY <1>a, <1>24 DEF NewConnection, RunInLoop, QueueInLoop, getNextLoop, nextIndex
<1>25. ASSUME NEW c \in Conns, RemoveConnection(c) PROVE IInv'
  BY <1>a, <1>25 DEF RemoveConnection, QueueInLoop
<1>26. ASSUME NEW c \in Conns,
              HandleCloseInBase(c) \/ HandleMessageInBase(c) \/ ConnectDestroyedInBase(c)
       PROVE  IInv'
  BY <1>a, <1>26 DEF HandleCloseInBase, HandleMessageInBase, ConnectDestroyedInBase
<1>27. ASSUME NEW c \in Conns, DestroyConnection(c) PROVE IInv'
  BY <1>a, <1>27 DEF DestroyConnection, RunInLoop, QueueInLoop
<1>28. CASE \/ Wakeup("wakeup", "serve")
            \/ Wakeup("destroyWakeup", "connections")
            \/ Wakeup("quitWakeup", "join")
  BY <1>a, <1>28 DEF Wakeup
<1>29. CASE UNCHANGED vars
  BY <1>a, <1>29
<1>30. QED
  BY <1>1, <1>2, <1>3, <1>4, <1>5, <1>6, <1>7, <1>8, <1>9, <1>10,
     <1>11, <1>12, <1>13, <1>14, <1>15, <1>16, <1>17, <1>18, <1>19, <1>20,
     <1>21, <1>22, <1>23, <1>24, <1>25, <1>26, <1>27, <1>28, <1>29
  DEF Next, StartStep, TeardownStep, ThreadStep, LoopEvent, BaseLoopStep, Gone

-----------------------------------------------------------------------------
(* What the user is told.                                                  *)

Up(f) == f.fn = "connectEstablished"

\* A connectEstablished that waits in a queue of member w is of a connection
\* that the loops (io) put there and of which nothing was told yet.
Fresh(q, w, tell, io) ==
    \A i \in 1..Len(q) : Up(q[i]) => tell[q[i].conn] = << >> /\ io[q[i].conn] = w

\* It waits once, ...
Once(q) == \A i, j \in 1..Len(q) : Up(q[i]) /\ Up(q[j]) /\ q[i].conn = q[j].conn => i = j

\* ... and in one of the two queues of its loop.
Apart(p, q) ==
    \A i \in 1..Len(p), j \in 1..Len(q) : Up(p[i]) /\ Up(q[j]) => p[i].conn # q[j].conn

\* No connectEstablished of c waits in q.
NoUp(q, c) == \A i \in 1..Len(q) : Up(q[i]) => q[i].conn # c

Stages == {<< >>, <<"up">>, <<"up", "down">>}

\* What state_, the channel and the history of a connection are together.
Stage(state, inPoll, tell) ==
    \/ state = "kConnecting" /\ ~inPoll /\ tell = << >>
    \/ state = "kConnected" /\ inPoll /\ tell = <<"up">>
    \/ state = "kDisconnecting" /\ tell = <<"up">>
    \/ state = "kDisconnected" /\ ~inPoll /\ tell = <<"up", "down">>

StatesInv ==
    /\ state_ \in [Conns -> States]
    /\ registered \in [Conns -> BOOLEAN]
    /\ told \in [Conns -> Stages]
    /\ \A c \in Conns : Stage(state_[c], registered[c], told[c])

\* The queues of member w.
QueuesInv(w, local, queue, tell, io) ==
    /\ local \in Seq(Functors) /\ queue \in Seq(Functors)
    /\ Fresh(local, w, tell, io) /\ Fresh(queue, w, tell, io)
    /\ Once(local) /\ Once(queue) /\ Apart(local, queue)

\* A history goes from stage to stage, and is empty until its
\* connectEstablished has run.
ToldInv ==
    /\ pendingFunctors_ \in [Members -> Seq(Functors)]
    /\ functors \in [Members -> Seq(Functors)]
    /\ StatesInv
    /\ \A c \in Conns : ioLoop[c] = None => told[c] = << >>
    /\ \A w \in Members :
          /\ threadPc[w] # "run" => functors[w] = << >>
          /\ QueuesInv(w, functors[w], pendingFunctors_[w], told, ioLoop)

LEMMA FunctorConn ==
    ASSUME NEW q \in Seq(Functors), NEW i \in 1..Len(q)
    PROVE  q[i].conn \in Conns
<1>1. q[i] \in Functors
  OBVIOUS
<1>2. QED
  BY <1>1 DEF Functors

\* A change to a connection that is in no queue to come up leaves queues
\* as they are.
LEMMA OtherConnection ==
    ASSUME NEW w, NEW local, NEW queue, NEW tell, NEW io, NEW tell2, NEW io2,
           QueuesInv(w, local, queue, tell, io),
           NEW c \in Conns, tell[c] # << >> \/ io[c] # w,
           \A d \in Conns \ {c} : tell2[d] = tell[d] /\ io2[d] = io[d]
    PROVE  /\ QueuesInv(w, local, queue, tell2, io2)
           /\ NoUp(local, c) /\ NoUp(queue, c)
<1>1. \A i \in 1..Len(local) : local[i].conn \in Conns
  BY FunctorConn DEF QueuesInv
<1>2. \A i \in 1..Len(queue) : queue[i].conn \in Conns
  BY FunctorConn DEF QueuesInv
<1>3. NoUp(local, c) /\ NoUp(queue, c)
  BY DEF QueuesInv, Fresh, NoUp
<1>4. Fresh(local, w, tell2, io2) /\ Fresh(queue, w, tell2, io2)
  BY <1>1, <1>2, <1>3 DEF QueuesInv, Fresh, NoUp
<1>5. QED
  BY <1>3, <1>4 DEF QueuesInv

\* A functor put at the end of a queue: connectEstablished for the first
\* time, or connectDestroyed.
LEMMA FunctorQueued ==
    ASSUME NEW w, NEW local, NEW queue, NEW tell, NEW io,
           QueuesInv(w, local, queue, tell, io), NEW f \in Functors,
           Up(f) => /\ tell[f.conn] = << >> /\ io[f.conn] = w
                    /\ NoUp(local, f.conn) /\ NoUp(queue, f.conn)
    PROVE  QueuesInv(w, local, Append(queue, f), tell, io)
<1> DEFINE q == Append(queue, f)
<1>1. /\ queue \in Seq(Functors) /\ q \in Seq(Functors)
      /\ Len(queue) \in Nat /\ Len(q) = Len(queue) + 1
  BY DEF QueuesInv
<1>2. \A i \in 1..Len(q) : \/ i \in 1..Len(queue) /\ q[i] = queue[i]
                           \/ i = Len(queue) + 1 /\ q[i] = f
  BY <1>1
<1> HIDE DEF q
<1>3. Fresh(q, w, tell, io)
  BY <1>1, <1>2 DEF QueuesInv, Fresh
<1>4. Once(q)
  BY <1>1, <1>2 DEF QueuesInv, Once, NoUp
<1>5. Apart(local, q)
  BY <1>1, <1>2 DEF QueuesInv, Apart, NoUp
<1>6. QED
  BY <1>1, <1>3, <1>4, <1>5 DEF QueuesInv, q

\* The first functor of the local vector is taken.
LEMMA FunctorTaken ==
    ASSUME NEW w, NEW local, NEW queue, NEW tell, NEW io,
           QueuesInv(w, local, queue, tell, io), local # << >>
    PROVE  /\ Head(local) \in Functors
           /\ QueuesInv(w, Tail(local), queue, tell, io)
           /\ Up(Head(local)) => /\ tell[Head(local).conn] = << >> /\ io[Head(local).conn] = w
                                 /\ NoUp(Tail(local), Head(local).conn)
                                 /\ NoUp(queue, Head(local).conn)
<1> DEFINE t == Tail(local)
           f == Head(local)
<1>1. /\ local \in Seq(Functors) /\ t \in Seq(Functors) /\ f \in Functors
      /\ Len(local) \in Nat /\ Len(local) # 0 /\ Len(t) = Len(local) - 1 /\ f = local[1]
  BY DEF QueuesInv
<1>2. \A i \in 1..Len(t) : i + 1 \in 1..Len(local) /\ t[i] = local[i + 1]
  BY <1>1
<1>3. 1 \in 1..Len(local)
  BY <1>1
<1> HIDE DEF t, f
<1>4. Fresh(t, w, tell, io)
  BY <1>2 DEF QueuesInv, Fresh
<1>5. Once(t)
  <2> SUFFICES ASSUME NEW i \in 1..Len(t), NEW j \in 1..Len(t), Up(t[i]), Up(t[j]),
                      t[i].conn = t[j].conn
               PROVE  i = j
    BY DEF Once
  <2>1. i + 1 = j + 1
    BY <1>2 DEF QueuesInv, Once
  <2>2. QED
    BY <2>1
<1>6. Apart(t, queue)
  BY <1>2 DEF QueuesInv, Apart
<1>7. ASSUME Up(f)
      PROVE  tell[f.conn] = << >> /\ io[f.conn] = w /\ NoUp(t, f.conn) /\ NoUp(queue, f.conn)
  <2>1. tell[f.conn] = << >> /\ io[f.conn] = w
    BY <1>1, <1>3, <1>7 DEF QueuesInv, Fresh
  <2>2. NoUp(queue, f.conn)
    BY <1>1, <1>3, <1>7 DEF QueuesInv, Apart, NoUp
  <2>3. NoUp(t, f.conn)
    <3> SUFFICES ASSUME NEW i \in 1..Len(t), Up(t[i]), t[i].conn = f.conn
                 PROVE  FALSE
      BY DEF NoUp
    <3>1. i + 1 = 1
      BY <1>1, <1>2, <1>3, <1>7 DEF QueuesInv, Once
    <3>2. QED
      BY <3>1
  <2>4. QED
    BY <2>1, <2>2, <2>3
<1>8. QED
  BY <1>1, <1>4, <1>5, <1>6, <1>7 DEF QueuesInv, t, f

LEMMA InitTold == Init => ToldInv
BY DEF Init, ToldInv, StatesInv, Stage, States, QueuesInv, Fresh, Once, Apart, Stages

\* A step that tells nothing and leaves the queues and the loops alone.
LEMMA QuietStep ==
    ASSUME ToldInv, UNCHANGED <<connVars, ioLoop, pendingFunctors_, functors>>,
           \A w \in Members : threadPc'[w] # "run" => functors[w] = << >>
    PROVE  ToldInv'
BY DEF ToldInv, StatesInv, connVars

\* What the user hears next.
LEMMA UpFirst == Append(<< >>, "up") = <<"up">>
<1> DEFINE a == Append(<< >>, "up")
<1>1. << >> \in Seq({"up", "down"}) /\ <<"up">> \in Seq({"up", "down"})
  OBVIOUS
<1>2. a \in Seq({"up", "down"}) /\ Len(a) = 1 /\ a[1] = "up"
  BY <1>1
<1>3. a = [i \in 1..1 |-> a[i]] /\ \A i \in 1..1 : a[i] = <<"up">>[i]
  BY <1>2
<1>4. <<"up">> = [i \in 1..1 |-> <<"up">>[i]]
  BY <1>1
<1>5. QED
  BY <1>3, <1>4

LEMMA DownSecond == Append(<<"up">>, "down") = <<"up", "down">>
<1> DEFINE a == Append(<<"up">>, "down")
<1>1. <<"up">> \in Seq({"up", "down"}) /\ <<"up", "down">> \in Seq({"up", "down"})
  OBVIOUS
<1>2. a \in Seq({"up", "down"}) /\ Len(a) = 2 /\ a[1] = "up" /\ a[2] = "down"
  BY <1>1
<1>3. a = [i \in 1..2 |-> a[i]] /\ \A i \in 1..2 : a[i] = <<"up", "down">>[i]
  BY <1>2
<1>4. <<"up", "down">> = [i \in 1..2 |-> <<"up", "down">>[i]]
  BY <1>1
<1>5. QED
  BY <1>3, <1>4

\* One connection goes on to another stage.
LEMMA StageTaken ==
    ASSUME StatesInv, NEW c \in Conns, NEW s \in States, NEW r \in BOOLEAN, NEW t \in Stages,
           Stage(s, r, t), state_' = [state_ EXCEPT ![c] = s],
           registered' = [registered EXCEPT ![c] = r], told' = [told EXCEPT ![c] = t]
    PROVE  StatesInv' /\ told'[c] = t /\ \A d \in Conns \ {c} : told'[d] = told[d]
BY DEF StatesInv

LEMMA StageNames ==
    /\ << >> \in Stages /\ <<"up">> \in Stages /\ <<"up", "down">> \in Stages
    /\ << >> # <<"up">> /\ << >> # <<"up", "down">> /\ <<"up">> # <<"up", "down">>
BY DEF Stages

\* The end of a connection that is in epoll takes its history to the end, ...
LEMMA ToldClosed ==
    ASSUME NEW c \in Conns, StatesInv, handleClose(c)
    PROVE  StatesInv' /\ told[c] # << >> /\ \A d \in Conns \ {c} : told'[d] = told[d]
<1>1. told[c] = <<"up">> /\ registered[c]
  BY DEF handleClose, StatesInv, Stage
<1>2. told' = [told EXCEPT ![c] = <<"up", "down">>]
  BY <1>1, DownSecond DEF handleClose, StatesInv
<1>3. Stage("kDisconnected", FALSE, <<"up", "down">>) /\ "kDisconnected" \in States
  BY DEF Stage, States
<1>4. QED
  BY <1>1, <1>2, <1>3, StageTaken, StageNames DEF handleClose

\* ... shutdown() leaves it, ...
LEMMA ToldShutdown ==
    ASSUME NEW c \in Conns, StatesInv, shutdown(c)
    PROVE  StatesInv' /\ UNCHANGED told
BY DEF shutdown, StatesInv, Stage, States

\* ... and a functor takes it one stage on, or leaves it.
LEMMA ToldByFunctor ==
    ASSUME NEW f \in Functors, StatesInv, Call(f),
           Up(f) => told[f.conn] = << >>
    PROVE  /\ StatesInv'
           /\ \A d \in Conns \ {f.conn} : told'[d] = told[d]
           /\ ~Up(f) /\ told[f.conn] = << >> => told'[f.conn] = << >>
<1>1. f.conn \in Conns
  BY DEF Functors
<1>2. PICK c \in Conns : c = f.conn
  BY <1>1
<1>3. CASE Up(f)
  <2>1. told' = [told EXCEPT ![c] = <<"up">>]
    BY <1>2, <1>3, UpFirst DEF Call, connectEstablished, Up, StatesInv
  <2>2. Stage("kConnected", TRUE, <<"up">>) /\ "kConnected" \in States
    BY DEF Stage, States
  <2>3. /\ state_' = [state_ EXCEPT ![c] = "kConnected"]
        /\ registered' = [registered EXCEPT ![c] = TRUE]
    BY <1>2, <1>3 DEF Call, connectEstablished, Up
  <2>4. QED
    BY <1>2, <1>3, <2>1, <2>2, <2>3, StageTaken, StageNames
<1>4. CASE ~Up(f) /\ state_[c] = "kConnected"
  <2>1. connectDestroyed(c) /\ told[c] = <<"up">>
    BY <1>2, <1>4 DEF Call, Up, StatesInv, Stage
  <2>2. told' = [told EXCEPT ![c] = <<"up", "down">>]
    BY <1>4, <2>1, DownSecond DEF connectDestroyed, StatesInv
  <2>3. Stage("kDisconnected", FALSE, <<"up", "down">>) /\ "kDisconnected" \in States
    BY DEF Stage, States
  <2>4. /\ state_' = [state_ EXCEPT ![c] = "kDisconnected"]
        /\ registered' = [registered EXCEPT ![c] = FALSE]
    BY <1>4, <2>1 DEF connectDestroyed
  <2>5. QED
    BY <1>2, <2>1, <2>2, <2>3, <2>4, StageTaken, StageNames
<1>5. CASE ~Up(f) /\ state_[c] # "kConnected"
  <2>1. /\ UNCHANGED <<state_, told>>
        /\ registered' = [registered EXCEPT ![c] = FALSE]
    BY <1>2, <1>5 DEF Call, connectDestroyed, Up
  <2>2. StatesInv'
    BY <1>5, <2>1 DEF StatesInv, Stage
  <2>3. QED
    BY <1>2, <2>1, <2>2
<1>6. QED
  BY <1>3, <1>4, <1>5

\* Every step keeps ToldInv.
LEMMA StepKeepsTold == IInv /\ ToldInv /\ [Next]_vars => ToldInv'
<1> SUFFICES ASSUME IInv, ToldInv, [Next]_vars PROVE ToldInv'
  OBVIOUS
<1> USE DEF ThreadGoes, MainGoes, vars, mainVars, serverVars, loopVars, objectVars, queueVars
<1>a. /\ numThreads_ \in Nat /\ 1..numThreads_ \subseteq Members /\ Members \subseteq Nat \ {0}
      /\ threadPc \in [Members -> ThreadPcs] /\ ioLoop \in [Conns -> Int]
  BY PoolMembers, MembersAreNumbers DEF IInv, PoolTypes
<1>b. \A w \in Members : threadPc[w] # "run" => functors[w] = << >>
  BY DEF ToldInv
<1>1. ASSUME NEW w \in Members,
             \/ ThreadRuns(w) \/ ConstructLoop(w) \/ PublishLoop(w) \/ LoopEnter(w)
             \/ LoopTest(w) \/ Poll(w) \/ FunctorsRun(w) \/ UnpublishLoop(w)
      PROVE  ToldInv'
  <2>1. UNCHANGED <<connVars, ioLoop, pendingFunctors_, functors>>
    BY <1>1 DEF ThreadRuns, ConstructLoop, PublishLoop, LoopEnter, LoopTest, Poll,
                FunctorsRun, UnpublishLoop
  <2>2. /\ \A v \in Members \ {w} : threadPc'[v] = threadPc[v]
        /\ functors[w] = << >>
    BY <1>1, <1>a, <1>b DEF ThreadRuns, ConstructLoop, PublishLoop, LoopEnter, LoopTest, Poll,
                FunctorsRun, UnpublishLoop
  <2>3. QED
    BY <2>1, <2>2, <1>b, QuietStep
<1>2. CASE \/ SemWait \/ StartLoop \/ SpuriousWakeup \/ PoolStarted \/ BaseLoopEnds
           \/ DestroyThreads \/ DestroyThread \/ Quit \/ Join \/ ServerGone
           \/ Wakeup("wakeup", "serve") \/ Wakeup("destroyWakeup", "connections")
           \/ Wakeup("quitWakeup", "join") \/ UNCHANGED vars
  <2>1. UNCHANGED <<connVars, ioLoop, pendingFunctors_, functors, threadPc>>
    BY <1>2 DEF SemWait, StartLoop, SpuriousWakeup, PoolStarted, BaseLoopEnds,
                DestroyThreads, DestroyThread, Quit, Join, ServerGone, Wakeup
  <2>2. QED
    BY <2>1, <1>b, QuietStep
<1>3. CASE NewThread
  <2>1. UNCHANGED <<connVars, ioLoop, pendingFunctors_, functors>>
    BY <1>3 DEF NewThread
  <2>2. \A w \in Members : threadPc'[w] # "run" => functors[w] = << >>
    BY <1>3, <1>a, <1>b DEF NewThread
  <2>3. QED
    BY <2>1, <2>2, QuietStep
<1>4. ASSUME NEW w \in Members, Swap(w) PROVE ToldInv'
  <2>1. /\ functors' = [functors EXCEPT ![w] = pendingFunctors_[w]]
        /\ pendingFunctors_' = [pendingFunctors_ EXCEPT ![w] = << >>]
        /\ threadPc' = [threadPc EXCEPT ![w] = "run"]
        /\ UNCHANGED <<connVars, ioLoop>>
    BY <1>4 DEF Swap
  <2>2. QueuesInv(w, pendingFunctors_[w], << >>, told, ioLoop)
    BY DEF ToldInv, QueuesInv, Fresh, Once, Apart
  <2>3. QED
    BY <2>1, <2>2, <1>a DEF ToldInv, StatesInv, connVars
<1>5. ASSUME NEW w \in Members, ThreadReturns(w) PROVE ToldInv'
  <2>1. /\ pendingFunctors_' = [pendingFunctors_ EXCEPT ![w] = << >>]
        /\ threadPc' = [threadPc EXCEPT ![w] = "ended"]
        /\ UNCHANGED <<functors, connVars, ioLoop>> /\ functors[w] = << >>
    BY <1>5, <1>b DEF ThreadReturns
  <2>2. QueuesInv(w, << >>, << >>, told, ioLoop)
    BY DEF QueuesInv, Fresh, Once, Apart
  <2>3. QED
    BY <2>1, <2>2, <1>a DEF ToldInv, StatesInv, connVars
<1>6. ASSUME NEW w \in Members, RunFunctor(w) PROVE ToldInv'
  <2> DEFINE f == Head(functors[w])
  <2>1. /\ functors' = [functors EXCEPT ![w] = Tail(functors[w])] /\ Call(f)
        /\ functors[w] # << >> /\ threadPc[w] = "run"
        /\ UNCHANGED <<pendingFunctors_, threadPc, ioLoop>>
    BY <1>6 DEF RunFunctor, ToldInv
  <2>2. /\ f \in Functors
        /\ QueuesInv(w, Tail(functors[w]), pendingFunctors_[w], told, ioLoop)
        /\ Up(f) => /\ told[f.conn] = << >> /\ ioLoop[f.conn] = w
                    /\ NoUp(Tail(functors[w]), f.conn) /\ NoUp(pendingFunctors_[w], f.conn)
    <3>1. QueuesInv(w, functors[w], pendingFunctors_[w], told, ioLoop)
      BY DEF ToldInv
    <3>2. QED
      BY <2>1, <3>1, FunctorTaken
  <2> HIDE DEF f
  <2>3. /\ f.conn \in Conns /\ StatesInv'
        /\ \A d \in Conns \ {f.conn} : told'[d] = told[d]
        /\ ~Up(f) /\ told[f.conn] = << >> => told'[f.conn] = << >>
    BY <2>1, <2>2, ToldByFunctor DEF ToldInv, Functors
  <2>4. QueuesInv(w, Tail(functors[w]), pendingFunctors_[w], told', ioLoop)
    <3>1. \A q : Fresh(q, w, told, ioLoop) /\ q \in Seq(Functors) /\ (Up(f) => NoUp(q, f.conn))
                    => Fresh(q, w, told', ioLoop)
      <4> SUFFICES ASSUME NEW q, Fresh(q, w, told, ioLoop), q \in Seq(Functors),
                          Up(f) => NoUp(q, f.conn), NEW i \in 1..Len(q), Up(q[i])
                   PROVE  told'[q[i].conn] = << >> /\ ioLoop[q[i].conn] = w
        BY DEF Fresh
      <4>1. q[i].conn \in Conns /\ told[q[i].conn] = << >> /\ ioLoop[q[i].conn] = w
        BY FunctorConn DEF Fresh
      <4>2. QED
        BY <2>3, <4>1 DEF NoUp
    <3>2. QED
      BY <2>2, <3>1 DEF QueuesInv
  <2>5. \A v \in Members \ {w} : QueuesInv(v, functors[v], pendingFunctors_[v], told', ioLoop)
    <3> SUFFICES ASSUME NEW v \in Members \ {w}
                 PROVE  QueuesInv(v, functors[v], pendingFunctors_[v], told', ioLoop)
      OBVIOUS
    <3>1. QueuesInv(v, functors[v], pendingFunctors_[v], told, ioLoop)
      BY DEF ToldInv
    <3>2. CASE told[f.conn] # << >> \/ ioLoop[f.conn] # v
      BY <2>3, <3>1, <3>2, OtherConnection
    <3>3. CASE told[f.conn] = << >> /\ ioLoop[f.conn] = v
      <4>1. \A d \in Conns : told'[d] = told[d]
        BY <2>2, <2>3, <3>3
      <4>2. told' = told
        BY <4>1, <2>3 DEF ToldInv, StatesInv
      <4>3. QED
        BY <3>1, <4>2
    <3>4. QED
      BY <3>2, <3>3
  <2>6. \A c \in Conns : ioLoop[c] = None => told'[c] = << >>
    BY <2>2, <2>3, <1>a DEF ToldInv
  <2>7. QED
    BY <2>1, <2>2, <2>3, <2>4, <2>5, <2>6 DEF ToldInv, QueuesInv
<1>7. ASSUME NEW c \in Conns, handleClose(c), UNCHANGED <<ioLoop, pendingFunctors_, functors, threadPc>>
      PROVE  ToldInv'
  <2>1. StatesInv' /\ told[c] # << >> /\ \A d \in Conns \ {c} : told'[d] = told[d]
    BY <1>7, ToldClosed DEF ToldInv
  <2>2. ASSUME NEW w \in Members
        PROVE  QueuesInv(w, functors[w], pendingFunctors_[w], told', ioLoop)
    BY <2>1, OtherConnection DEF ToldInv
  <2>3. \A d \in Conns : ioLoop[d] = None => told'[d] = << >>
    BY <2>1 DEF ToldInv
  <2>4. QED
    BY <1>7, <2>1, <2>2, <2>3 DEF ToldInv
<1>8. ASSUME NEW c \in Conns, shutdown(c), UNCHANGED <<ioLoop, pendingFunctors_, functors, threadPc>>
      PROVE  ToldInv'
  <2>1. StatesInv' /\ UNCHANGED told
    BY <1>8, ToldShutdown DEF ToldInv
  <2>2. QED
    BY <1>8, <2>1 DEF ToldInv
<1>9. ASSUME NEW c \in Conns,
             \/ HandleCloseInBase(c) \/ HandleMessageInBase(c)
             \/ \E w \in Members : HandleClose(w, c) \/ HandleMessage(w, c)
      PROVE  ToldInv'
  <2>1. UNCHANGED <<ioLoop, pendingFunctors_, functors, threadPc>>
    BY <1>9 DEF HandleCloseInBase, HandleMessageInBase, HandleClose, HandleMessage
  <2>2. handleClose(c) \/ shutdown(c)
    BY <1>9 DEF HandleCloseInBase, HandleMessageInBase, HandleClose, HandleMessage
  <2>3. QED
    BY <1>7, <1>8, <2>1, <2>2
<1>10. ASSUME NEW f \in Functors, NEW l \in {Base} \cup 1..numThreads_,
              IF Up(f) THEN ioLoop[f.conn] = None ELSE ioLoop[f.conn] = l,
              ioLoop' = [ioLoop EXCEPT ![f.conn] = l],
              IF l = Base
              THEN Call(f) /\ UNCHANGED pendingFunctors_
              ELSE /\ pendingFunctors_' = [pendingFunctors_ EXCEPT ![l] = Append(@, f)]
                   /\ UNCHANGED connVars,
              UNCHANGED <<threadPc, functors>>
       PROVE  ToldInv'
  <2> DEFINE c == f.conn
  <2>1. c \in Conns
    BY DEF Functors
  <2> HIDE DEF c
  <2>2. /\ ioLoop' \in [Conns -> Int] /\ ioLoop'[c] = l /\ l # None
        /\ \A d \in Conns \ {c} : ioLoop'[d] = ioLoop[d]
    BY <1>10, <1>a, <2>1 DEF c
  <2>3. ASSUME Up(f), NEW w \in Members
        PROVE  /\ QueuesInv(w, functors[w], pendingFunctors_[w], told, ioLoop')
               /\ NoUp(functors[w], c) /\ NoUp(pendingFunctors_[w], c)
    <3>1. QueuesInv(w, functors[w], pendingFunctors_[w], told, ioLoop) /\ ioLoop[c] # w
      BY <1>10, <1>a, <2>3 DEF ToldInv, c
    <3>2. QED
      BY <2>1, <2>2, <3>1, OtherConnection
  <2>4. Up(f) => told[c] = << >>
    BY <1>10, <2>1 DEF ToldInv, c
  <2>5. ASSUME NEW w \in Members
        PROVE  QueuesInv(w, functors[w], pendingFunctors_[w], told, ioLoop')
    <3>1. CASE Up(f)
      BY <2>3, <3>1
    <3>2. CASE ~Up(f)
      <4>1. ioLoop' = ioLoop
        BY <1>10, <1>a, <2>1, <3>2 DEF c
      <4>2. QED
        BY <4>1 DEF ToldInv
    <3>3. QED
      BY <3>1, <3>2
  <2>6. CASE l = Base
    <3>1. Call(f) /\ UNCHANGED pendingFunctors_
      BY <1>10, <2>6
    <3>2. StatesInv' /\ \A d \in Conns \ {c} : told'[d] = told[d]
      BY <2>4, <3>1, ToldByFunctor DEF ToldInv, c
    <3>3. ASSUME NEW w \in Members
          PROVE  QueuesInv(w, functors[w], pendingFunctors_[w], told', ioLoop')
      <4>1. ioLoop'[c] # w
        BY <1>a, <2>2, <2>6
      <4>2. QED
        BY <2>1, <2>5, <3>2, <4>1, OtherConnection
    <3>4. QED
      BY <1>10, <1>b, <2>1, <2>2, <3>1, <3>2, <3>3 DEF ToldInv
  <2>7. CASE l # Base
    <3>1. /\ l \in Members /\ pendingFunctors_' = [pendingFunctors_ EXCEPT ![l] = Append(@, f)]
          /\ UNCHANGED connVars
      BY <1>10, <1>a, <2>7
    <3>2. QueuesInv(l, functors[l], Append(pendingFunctors_[l], f), told, ioLoop')
      <4>1. QueuesInv(l, functors[l], pendingFunctors_[l], told, ioLoop')
        BY <2>5, <3>1
      <4>2. Up(f) => /\ told[f.conn] = << >> /\ ioLoop'[f.conn] = l
                     /\ NoUp(functors[l], f.conn) /\ NoUp(pendingFunctors_[l], f.conn)
        BY <2>2, <2>3, <2>4, <3>1 DEF c
      <4>3. QED
        BY <4>1, <4>2, FunctorQueued
    <3>3. Append(pendingFunctors_[l], f) \in Seq(Functors)
      BY <3>2 DEF QueuesInv
    <3>4. QED
      BY <1>10, <1>b, <2>1, <2>2, <2>5, <3>1, <3>2, <3>3 DEF ToldInv, StatesInv, connVars
  <2>8. QED
    BY <2>6, <2>7
<1>11. ASSUME NEW c \in Conns, NewConnection(c) PROVE ToldInv'
  <2> DEFINE f == [fn |-> "connectEstablished", conn |-> c]
             l == getNextLoop
  <2>1. l \in {Base} \cup 1..numThreads_
    BY <1>a DEF IInv, PoolTypes, getNextLoop
  <2>2. f \in Functors /\ f.conn = c /\ Up(f)
    BY DEF Functors, Up
  <2>3. /\ ioLoop[c] = None /\ ioLoop' = [ioLoop EXCEPT ![c] = l]
        /\ UNCHANGED <<threadPc, functors>>
        /\ IF l = Base
           THEN Call(f) /\ UNCHANGED pendingFunctors_
           ELSE /\ pendingFunctors_' = [pendingFunctors_ EXCEPT ![l] = Append(@, f)]
                /\ UNCHANGED connVars
    BY <1>11 DEF NewConnection, RunInLoop, QueueInLoop
  <2> HIDE DEF f, l
  <2>4. QED
    BY <1>10, <2>1, <2>2, <2>3
<1>12. ASSUME NEW c \in Conns, RemoveConnection(c) \/ DestroyConnection(c) PROVE ToldInv'
  <2> DEFINE f == [fn |-> "connectDestroyed", conn |-> c]
             l == ioLoop[c]
  <2>1. l \in {Base} \cup 1..numThreads_
    BY <1>a, <1>12 DEF RemoveConnection, DestroyConnection, IInv, ConnsInv
  <2>2. f \in Functors /\ f.conn = c /\ ~Up(f)
    BY DEF Functors, Up
  <2>3. /\ ioLoop[c] = l /\ ioLoop' = [ioLoop EXCEPT ![c] = l]
        /\ UNCHANGED <<threadPc, functors>>
    BY <1>12, <1>a DEF RemoveConnection, DestroyConnection
  <2>4. IF l = Base
        THEN Call(f) /\ UNCHANGED pendingFunctors_
        ELSE /\ pendingFunctors_' = [pendingFunctors_ EXCEPT ![l] = Append(@, f)]
             /\ UNCHANGED connVars
    BY <1>12, <1>a DEF RemoveConnection, DestroyConnection, RunInLoop, QueueInLoop, IInv, ConnsInv
  <2> HIDE DEF f, l
  <2>5. QED
    BY <1>10, <2>1, <2>2, <2>3, <2>4
<1>13. ASSUME NEW c \in Conns, ConnectDestroyedInBase(c) PROVE ToldInv'
  <2> DEFINE f == [fn |-> "connectDestroyed", conn |-> c]
  <2>1. f \in Functors /\ f.conn = c /\ ~Up(f)
    BY DEF Functors, Up
  <2>2. ioLoop[c] = Base /\ Call(f) /\ UNCHANGED <<ioLoop, pendingFunctors_, threadPc, functors>>
    BY <1>13, <1>a DEF ConnectDestroyedInBase, Call, IInv, ConnsInv
  <2>3. ioLoop' = [ioLoop EXCEPT ![c] = Base]
    BY <1>a, <2>2
  <2> HIDE DEF f
  <2>4. QED
    BY <1>10, <2>1, <2>2, <2>3
<1>14. QED
  BY <1>1, <1>2, <1>3, <1>4, <1>5, <1>6, <1>9, <1>11, <1>12, <1>13
  DEF Next, StartStep, TeardownStep, ThreadStep, LoopEvent, BaseLoopStep, Gone

-----------------------------------------------------------------------------
(* The theorems.                                                           *)

(***************************************************************************)
(* The loop of a pool thread is there whenever the main thread uses it, up *)
(* to the quit() of ~EventLoopThread (EventLoopThread.cpp:45,              *)
(* EventLoopThreadPool.cpp:34).                                            *)
(***************************************************************************)
THEOREM LoopsOutliveUse == Spec => []LoopOutlivesUse
<1>1. Spec => []IInv
  BY InitInv, StepKeepsInv, PTL DEF Spec
<1>2. QED
  BY <1>1, InvImpliesUse, PTL

(***************************************************************************)
(* A thread has left threadFunc when its EventLoopThread is destroyed: it  *)
(* is joined, never detached (EventLoopThread.cpp:16-24, Thread.cpp:15).   *)
(***************************************************************************)
THEOREM ThreadsEndFirst == Spec => []ThreadEndsFirst
<1>1. Spec => []IInv
  BY InitInv, StepKeepsInv, PTL DEF Spec
<1>2. IInv => ThreadEndsFirst
  BY DEF IInv
<1>3. QED
  BY <1>1, <1>2, PTL

(***************************************************************************)
(* Of each connection the user hears up at most once, and down at most     *)
(* once and after it, from whichever thread (TcpServer.cpp:37-47).         *)
(***************************************************************************)
THEOREM UpBeforeDown == Spec => []UpThenDown
<1>1. Spec => [](IInv /\ ToldInv)
  BY InitInv, StepKeepsInv, InitTold, StepKeepsTold, PTL DEF Spec
<1>2. ToldInv => UpThenDown
  BY StageNames DEF ToldInv, StatesInv, Stage, UpThenDown, Stages
<1>3. QED
  BY <1>1, <1>2, PTL

=============================================================================
