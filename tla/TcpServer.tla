----------------------------- MODULE TcpServer ------------------------------
(***************************************************************************)
(* A running TcpServer of mymuduo/net: its Acceptor and connections_ in    *)
(* the base loop, its TcpConnections in the loops of the thread pool, the  *)
(* event loops that call them, the clients, and other threads that use a   *)
(* connection through send() and shutdown().                               *)
(*                                                                         *)
(* A loop is what module EventLoop shows it to be: it sleeps in poll()     *)
(* until a channel is ready or a functor is queued, handles every active   *)
(* channel, then runs the functors queued so far in order.  A step is one  *)
(* callback of a channel, one call the user's message callback makes, or   *)
(* one functor.                                                            *)
(***************************************************************************)
EXTENDS TcpConnection, FiniteSets

CONSTANTS
    Conns,          \* clients, each with one connection
    Base,           \* the base loop
    Pools,          \* what loops_ of the thread pool may be: sequences of loops
    Acceptor,       \* acceptChannel_
    UserThreads,    \* threads that are not loops and may use the connections
    UserCalls,      \* what they call: a subset of {"send", "shutdown"}
    SendLens,       \* bytes in one send()
    MaxBytes,       \* bound: bytes sent on a connection
    MaxMsgs,        \* bound: messages a client sends
    MaxCalls        \* bound: calls a user thread makes

Loops == {Base} \cup UNION {{p[i] : i \in DOMAIN p} : p \in Pools}

ASSUME SendLensAssumption == SendLens \subseteq Nat \ {0}
ASSUME PoolsAssumption == Pools \subseteq Seq(Loops \ {Base})
ASSUME AcceptorAssumption == Acceptor \notin Conns
ASSUME BoundsAssumption == MaxMsgs \in Nat /\ MaxCalls \in Nat

VARIABLES
    conn,           \* the connections, records of module TcpConnection
    ioLoop,         \* the loop a connection was given to
    backlog,        \* clients connected and not accepted
    connections_,   \* TcpServer's map of connections
    loops_,         \* EventLoopThreadPool's loops; none for setThreadNum(0) ...
    next_,          \* ... and its round-robin index, from 1
    phase,          \* where each loop is
    active,         \* activeChannels_ not handled yet, with their revents_
    cur,            \* the channel being handled
    todo,           \* its callbacks not made yet
    queue,          \* pendingFunctors_
    batch,          \* doPendingFunctors' local vector ...
    pos,            \* ... and the functor it runs next
    msgs,           \* messages each client has sent
    users,          \* threads the user's connection callback gives connections to
    userPc,         \* where each user thread is in send() or shutdown() ...
    userConn,       \* ... of which connection
    calls           \* calls each user thread has made

loopVars == <<phase, active, cur, todo, batch, pos>>
serverVars == <<backlog, connections_, loops_, next_, ioLoop>>
userVars == <<users, userPc, userConn, calls>>
vars == <<conn, loopVars, serverVars, queue, msgs, userVars>>

\* Functors bound to a TcpConnectionPtr, and those bound to a bare "this".
SharedFns == {"connectEstablished", "removeConnectionInLoop", "connectDestroyed",
              "writeComplete", "highWaterMark"}
RawFns == {"sendInLoop", "shutdownInLoop"}

Functors == [fn : SharedFns \cup RawFns, conn : Conns, len : SendLens \cup {0}]

Functor(fn, c) == [fn |-> fn, conn |-> c, len |-> 0]

\* The types of the variables; next_ is an index of loops_.
TypeOK ==
    /\ conn \in [Conns -> ConnectionType]
    /\ ioLoop \in [Conns -> Loops]
    /\ backlog \in SUBSET Conns
    /\ connections_ \in SUBSET Conns
    /\ loops_ \in Pools
    /\ next_ \in IF loops_ = << >> THEN {1} ELSE DOMAIN loops_
    /\ phase \in [Loops -> {"poll", "handle", "event", "message", "pending"}]
    /\ active \in [Loops -> SUBSET ((Conns \cup {Acceptor}) \X SUBSET Revents)]
    /\ cur \in [Loops -> Conns \cup {Acceptor}]
    /\ todo \in [Loops -> Seq({"close", "error", "read", "write"})]
    /\ queue \in [Loops -> Seq(Functors)]
    /\ batch \in [Loops -> Seq(Functors)]
    /\ pos \in [Loops -> Nat \ {0}]
    /\ msgs \in [Conns -> 0..MaxMsgs]
    /\ users \in SUBSET UserThreads
    /\ userPc \in [UserThreads -> {"idle", "sending", "shutting", "shut"}]
    /\ userConn \in [UserThreads -> Conns \cup {Acceptor}]
    /\ calls \in [UserThreads -> 0..MaxCalls]

\* After start(): the pool's threads run and the Acceptor listens.
Init ==
    /\ conn = [c \in Conns |-> Unborn]
    /\ ioLoop = [c \in Conns |-> Base]
    /\ backlog = {}
    /\ connections_ = {}
    /\ loops_ \in Pools
    /\ next_ = 1
    /\ phase = [l \in Loops |-> "poll"]
    /\ active = [l \in Loops |-> {}]
    /\ cur = [l \in Loops |-> Acceptor]
    /\ todo = [l \in Loops |-> << >>]
    /\ queue = [l \in Loops |-> << >>]
    /\ batch = [l \in Loops |-> << >>]
    /\ pos = [l \in Loops |-> 1]
    /\ msgs = [c \in Conns |-> 0]
    /\ users \in SUBSET UserThreads
    /\ userPc = [u \in UserThreads |-> "idle"]
    /\ userConn = [u \in UserThreads |-> Acceptor]
    /\ calls = [u \in UserThreads |-> 0]

-----------------------------------------------------------------------------
(* The lifetime of a connection: it is destroyed, and its socket closed,   *)
(* when its last TcpConnectionPtr goes.  One is kept in connections_, in   *)
(* every functor of a queue or of a vector being run, by the guard of the  *)
(* channel being handled, and by a user thread that was given one, which   *)
(* keeps it: send() and shutdown() bind a bare "this" and rely on it.      *)

Keeps(fs, c) == \E i \in DOMAIN fs : fs[i].conn = c /\ fs[i].fn \in SharedFns

Guarded(l, c) == phase[l] \in {"event", "message"} /\ cur[l] = c

UserHolds(c) == users # {} /\ conn[c].up > 0

Referenced(c) ==
    \/ c \in connections_
    \/ \E l \in Loops : Keeps(queue[l], c) \/ Keeps(batch[l], c) \/ Guarded(l, c)
    \/ UserHolds(c)

Constructed(c) == conn[c].state_ # "unborn"

Destroyed(c) == Constructed(c) /\ ~Referenced(c)

-----------------------------------------------------------------------------
(* The clients.                                                            *)

Reachable(c) == c \in backlog \/ (Constructed(c) /\ ~Destroyed(c))

ClientConnects(c) ==
    /\ ~Constructed(c) /\ c \notin backlog
    /\ backlog' = backlog \cup {c}
    /\ UNCHANGED <<conn, ioLoop, connections_, loops_, next_, loopVars, queue, msgs, userVars>>

ClientSends(c) ==
    /\ Reachable(c) /\ conn[c].peer = "open" /\ msgs[c] < MaxMsgs
    /\ conn' = [conn EXCEPT ![c].unread = TRUE]
    /\ msgs' = [msgs EXCEPT ![c] = @ + 1]
    /\ UNCHANGED <<loopVars, serverVars, queue, userVars>>

ClientReads(c) ==
    /\ Reachable(c) /\ conn[c].sndbuf > 0
    /\ conn' = [conn EXCEPT ![c].sndbuf = @ - 1]
    /\ UNCHANGED <<loopVars, serverVars, queue, msgs, userVars>>

ClientCloses(c) ==
    /\ Reachable(c) /\ conn[c].peer = "open"
    /\ conn' = [conn EXCEPT ![c].peer = "fin"]
    /\ UNCHANGED <<loopVars, serverVars, queue, msgs, userVars>>

ClientResets(c) ==
    /\ Reachable(c) /\ conn[c].peer # "reset"
    /\ conn' = [conn EXCEPT ![c].peer = "reset", ![c].err = TRUE, ![c].sndbuf = 0]
    /\ UNCHANGED <<loopVars, serverVars, queue, msgs, userVars>>

Client(c) == ClientConnects(c) \/ ClientSends(c) \/ ClientReads(c)
             \/ ClientCloses(c) \/ ClientResets(c)

-----------------------------------------------------------------------------
(* EventLoop::loop in loop l: poll, then every active channel, then the    *)
(* functors.                                                               *)

Ready(l) ==
    {<<c, revents(conn[c])>> : c \in {d \in Conns : ioLoop[d] = l /\ revents(conn[d]) # {}}}
    \cup (IF l = Base /\ backlog # {} THEN {<<Acceptor, {"EPOLLIN"}>>} ELSE {})

Poll(l) ==
    /\ phase[l] = "poll"
    /\ Ready(l) # {} \/ queue[l] # << >>
    /\ active' = [active EXCEPT ![l] = Ready(l)]
    /\ phase' = [phase EXCEPT ![l] = "handle"]
    /\ UNCHANGED <<conn, cur, todo, batch, pos, serverVars, queue, msgs, userVars>>

\* Channel::handleEvent takes its guard.
HandleEvent(l, c, revs) ==
    /\ phase[l] = "handle"
    /\ c # Acceptor
    /\ <<c, revs>> \in active[l]
    /\ active' = [active EXCEPT ![l] = @ \ {<<c, revs>>}]
    /\ cur' = [cur EXCEPT ![l] = c]
    /\ todo' = [todo EXCEPT ![l] = callbacks(revs)]
    /\ phase' = [phase EXCEPT ![l] = "event"]
    /\ UNCHANGED <<conn, batch, pos, serverVars, queue, msgs, userVars>>

EventHandled(l) ==
    /\ phase[l] = "event"
    /\ todo[l] = << >>
    /\ cur' = [cur EXCEPT ![l] = Acceptor]
    /\ phase' = [phase EXCEPT ![l] = "handle"]
    /\ UNCHANGED <<conn, active, todo, batch, pos, serverVars, queue, msgs, userVars>>

BeginPending(l) ==
    /\ phase[l] = "handle"
    /\ active[l] = {}
    /\ batch' = [batch EXCEPT ![l] = queue[l]]
    /\ queue' = [queue EXCEPT ![l] = << >>]
    /\ pos' = [pos EXCEPT ![l] = 1]
    /\ phase' = [phase EXCEPT ![l] = "pending"]
    /\ UNCHANGED <<conn, active, cur, todo, serverVars, msgs, userVars>>

\* The vector goes, and with it the functors' references.
EndPending(l) ==
    /\ phase[l] = "pending"
    /\ pos[l] > Len(batch[l])
    /\ batch' = [batch EXCEPT ![l] = << >>]
    /\ pos' = [pos EXCEPT ![l] = 1]
    /\ phase' = [phase EXCEPT ![l] = "poll"]
    /\ UNCHANGED <<conn, active, cur, todo, serverVars, queue, msgs, userVars>>

-----------------------------------------------------------------------------
(* Acceptor::handleRead, TcpServer::newConnection and removeConnection.    *)

getNextLoop == IF loops_ = << >> THEN Base ELSE loops_[next_]

\* What getNextLoop leaves in next_.
nextIndex == IF loops_ = << >> \/ next_ >= Len(loops_) THEN 1 ELSE next_ + 1

newConnection(c) ==
    LET constructed == [conn[c] EXCEPT !.state_ = "kConnecting"]
    IN  /\ ioLoop' = [ioLoop EXCEPT ![c] = getNextLoop]
        /\ next_' = nextIndex
        /\ connections_' = connections_ \cup {c}
        /\ IF getNextLoop = Base
           THEN /\ conn' = [conn EXCEPT ![c] = connectEstablished(constructed)]
                /\ UNCHANGED queue
           ELSE /\ conn' = [conn EXCEPT ![c] = constructed]
                /\ queue' = [queue EXCEPT ![getNextLoop] =
                                 Append(@, Functor("connectEstablished", c))]

HandleAccept(c) ==
    /\ phase[Base] = "handle"
    /\ <<Acceptor, {"EPOLLIN"}>> \in active[Base]
    /\ c \in backlog
    /\ active' = [active EXCEPT ![Base] = @ \ {<<Acceptor, {"EPOLLIN"}>>}]
    /\ backlog' = backlog \ {c}
    /\ newConnection(c)
    /\ UNCHANGED <<phase, cur, todo, batch, pos, loops_, msgs, userVars>>

\* accept() fails, for instance with EMFILE; the client stays in the backlog.
HandleAcceptFails ==
    /\ phase[Base] = "handle"
    /\ <<Acceptor, {"EPOLLIN"}>> \in active[Base]
    /\ active' = [active EXCEPT ![Base] = @ \ {<<Acceptor, {"EPOLLIN"}>>}]
    /\ UNCHANGED <<conn, phase, cur, todo, batch, pos, serverVars, queue, msgs, userVars>>

\* Mutant: the connection is erased and connectDestroyed is not queued.
removeConnectionInLoopOnlyErases(c) ==
    /\ connections_' = connections_ \ {c}
    /\ UNCHANGED queue

\* Mutant: the connection is not erased.
removeConnectionInLoopKeeps(c) ==
    /\ queue' = [queue EXCEPT ![ioLoop[c]] = Append(@, Functor("connectDestroyed", c))]
    /\ UNCHANGED connections_

\* Mutant: connectDestroyed is queued in the base loop.
removeConnectionInLoopStays(c) ==
    /\ connections_' = connections_ \ {c}
    /\ queue' = [queue EXCEPT ![Base] = Append(@, Functor("connectDestroyed", c))]

removeConnectionInLoop(c) ==
    /\ connections_' = connections_ \ {c}
    /\ queue' = [queue EXCEPT ![ioLoop[c]] = Append(@, Functor("connectDestroyed", c))]

\* runInLoop(removeConnectionInLoop), called in the thread of loop l.
removeConnection(l, c) ==
    IF l = Base
    THEN removeConnectionInLoop(c)
    ELSE /\ queue' = [queue EXCEPT ![Base] = Append(@, Functor("removeConnectionInLoop", c))]
         /\ UNCHANGED connections_

-----------------------------------------------------------------------------
(* The callbacks of a TcpConnection's channel, in its loop l.              *)

Callback(l, name) ==
    /\ phase[l] = "event"
    /\ todo[l] # << >>
    /\ Head(todo[l]) = name
    /\ todo' = [todo EXCEPT ![l] = Tail(@)]
    /\ UNCHANGED <<active, cur, batch, pos, backlog, loops_, next_, ioLoop, msgs, userVars>>

\* queueInLoop of callbacks of connection c, from the thread of its loop l.
queueNames(l, c, names) ==
    queue' = [queue EXCEPT ![l] = @ \o [i \in DOMAIN names |-> Functor(names[i], c)]]

HandleClose(l) ==
    /\ Callback(l, "close")
    /\ conn' = [conn EXCEPT ![cur[l]] = handleClose(@)]
    /\ removeConnection(l, cur[l])
    /\ UNCHANGED phase

HandleError(l) ==
    /\ Callback(l, "error")
    /\ conn' = [conn EXCEPT ![cur[l]] = handleError(@)]
    /\ UNCHANGED <<phase, queue, connections_>>

HandleReadMessage(l) ==
    /\ Callback(l, "read")
    /\ readsMessage(conn[cur[l]])
    /\ conn' = [conn EXCEPT ![cur[l]] = readMessage(@)]
    /\ phase' = [phase EXCEPT ![l] = "message"]
    /\ UNCHANGED <<queue, connections_>>

HandleReadEnd(l) ==
    /\ Callback(l, "read")
    /\ readsEnd(conn[cur[l]])
    /\ conn' = [conn EXCEPT ![cur[l]] = handleClose(@)]
    /\ removeConnection(l, cur[l])
    /\ UNCHANGED phase

HandleReadError(l) ==
    /\ Callback(l, "read")
    /\ readsError(conn[cur[l]])
    /\ conn' = [conn EXCEPT ![cur[l]] = handleError(@)]
    /\ UNCHANGED <<phase, queue, connections_>>

HandleWrite(l) ==
    /\ Callback(l, "write")
    /\ conn' = [conn EXCEPT ![cur[l]] = handleWrite(@)]
    /\ queueNames(l, cur[l], writeQueues(conn[cur[l]]))
    /\ UNCHANGED <<phase, connections_>>

(* The user's message callback: it may send, shut down, and returns.       *)

\* Mutant: send() does not test state_.
MessageSendsUnchecked(l, len) ==
    /\ phase[l] = "message"
    /\ conn[cur[l]].sent + len <= MaxBytes
    /\ conn' = [conn EXCEPT ![cur[l]] = sendInLoop(@, len)]
    /\ queueNames(l, cur[l], sendQueues(conn[cur[l]], len))
    /\ UNCHANGED <<loopVars, serverVars, msgs, userVars>>

MessageSends(l, len) ==
    /\ phase[l] = "message"
    /\ conn[cur[l]].state_ = "kConnected"
    /\ conn[cur[l]].sent + len <= MaxBytes
    /\ conn' = [conn EXCEPT ![cur[l]] = sendInLoop(@, len)]
    /\ queueNames(l, cur[l], sendQueues(conn[cur[l]], len))
    /\ UNCHANGED <<loopVars, serverVars, msgs, userVars>>

MessageShutsDown(l) ==
    /\ phase[l] = "message"
    /\ conn[cur[l]].state_ = "kConnected"
    /\ conn' = [conn EXCEPT ![cur[l]] = shutdownInLoop([@ EXCEPT !.state_ = "kDisconnecting"])]
    /\ UNCHANGED <<loopVars, serverVars, queue, msgs, userVars>>

MessageReturns(l) ==
    /\ phase[l] = "message"
    /\ phase' = [phase EXCEPT ![l] = "event"]
    /\ UNCHANGED <<conn, active, cur, todo, batch, pos, serverVars, queue, msgs, userVars>>

-----------------------------------------------------------------------------
(* The functors.                                                           *)

Running(l, fn) ==
    /\ phase[l] = "pending"
    /\ pos[l] <= Len(batch[l])
    /\ batch[l][pos[l]].fn = fn
    /\ pos' = [pos EXCEPT ![l] = @ + 1]
    /\ UNCHANGED <<phase, active, cur, todo, batch, backlog, loops_, next_, ioLoop, msgs, userVars>>

Target(l) == batch[l][pos[l]].conn

RunConnectEstablished(l) ==
    /\ Running(l, "connectEstablished")
    /\ conn' = [conn EXCEPT ![Target(l)] = connectEstablished(@)]
    /\ UNCHANGED <<queue, connections_>>

RunRemoveConnection(l) ==
    /\ Running(l, "removeConnectionInLoop")
    /\ removeConnectionInLoop(Target(l))
    /\ UNCHANGED conn

RunConnectDestroyed(l) ==
    /\ Running(l, "connectDestroyed")
    /\ conn' = [conn EXCEPT ![Target(l)] = connectDestroyed(@)]
    /\ UNCHANGED <<queue, connections_>>

RunSendInLoop(l) ==
    LET c == Target(l)
        len == batch[l][pos[l]].len
    IN  /\ Running(l, "sendInLoop")
        /\ conn' = [conn EXCEPT ![c] = sendInLoop(@, len)]
        /\ queueNames(l, c, sendQueues(conn[c], len))
        /\ UNCHANGED connections_

RunShutdownInLoop(l) ==
    /\ Running(l, "shutdownInLoop")
    /\ conn' = [conn EXCEPT ![Target(l)] = shutdownInLoop(@)]
    /\ UNCHANGED <<queue, connections_>>

RunUserCallback(l) ==
    /\ Running(l, "writeComplete") \/ Running(l, "highWaterMark")
    /\ UNCHANGED <<conn, queue, connections_>>

-----------------------------------------------------------------------------
(* send() and shutdown() called by a thread that is not the connection's   *)
(* loop: state_ is tested in one step and used in a later one.             *)

UserTests(u, c, call, pc) ==
    /\ call \in UserCalls
    /\ userPc[u] = "idle" /\ calls[u] < MaxCalls
    /\ UserHolds(c)
    /\ conn[c].state_ = "kConnected"
    /\ userPc' = [userPc EXCEPT ![u] = pc]
    /\ userConn' = [userConn EXCEPT ![u] = c]
    /\ calls' = [calls EXCEPT ![u] = @ + 1]
    /\ UNCHANGED <<conn, loopVars, serverVars, queue, msgs, users>>

UserQueues(u, pc, functor) ==
    /\ userPc[u] = pc
    /\ queue' = [queue EXCEPT ![ioLoop[userConn[u]]] = Append(@, functor)]
    /\ userPc' = [userPc EXCEPT ![u] = "idle"]
    /\ userConn' = [userConn EXCEPT ![u] = Acceptor]
    /\ UNCHANGED <<conn, loopVars, serverVars, msgs, users, calls>>

UserSend(u, c) == UserTests(u, c, "send", "sending")

UserSendQueues(u, len) ==
    UserQueues(u, "sending", [fn |-> "sendInLoop", conn |-> userConn[u], len |-> len])

UserShutdown(u, c) == UserTests(u, c, "shutdown", "shutting")

UserSetsState(u) ==
    /\ userPc[u] = "shutting"
    /\ conn' = [conn EXCEPT ![userConn[u]].state_ = "kDisconnecting"]
    /\ userPc' = [userPc EXCEPT ![u] = "shut"]
    /\ UNCHANGED <<loopVars, serverVars, queue, msgs, users, userConn, calls>>

UserShutdownQueues(u) ==
    UserQueues(u, "shut", Functor("shutdownInLoop", userConn[u]))

User(u) ==
    \/ \E c \in Conns : UserSend(u, c) \/ UserShutdown(u, c)
    \/ \E len \in SendLens : UserSendQueues(u, len)
    \/ UserSetsState(u) \/ UserShutdownQueues(u)

-----------------------------------------------------------------------------

\* Loop l goes on with what it has begun.
LoopStep(l) ==
    \/ Poll(l) \/ EventHandled(l) \/ BeginPending(l) \/ EndPending(l)
    \/ \E a \in active[l] : HandleEvent(l, a[1], a[2])
    \/ HandleClose(l) \/ HandleError(l) \/ HandleWrite(l)
    \/ HandleReadMessage(l) \/ HandleReadEnd(l) \/ HandleReadError(l)
    \/ MessageReturns(l)
    \/ RunConnectEstablished(l) \/ RunRemoveConnection(l) \/ RunConnectDestroyed(l)
    \/ RunSendInLoop(l) \/ RunShutdownInLoop(l) \/ RunUserCallback(l)

Accept == HandleAcceptFails \/ \E c \in Conns : HandleAccept(c)

Message(l) == MessageShutsDown(l) \/ \E len \in SendLens : MessageSends(l, len)

Next ==
    \/ \E c \in Conns : Client(c)
    \/ \E l \in Loops : LoopStep(l) \/ Message(l)
    \/ Accept
    \/ \E u \in users : User(u)

Spec == Init /\ [][Next]_vars

(***************************************************************************)
(* Fairness: every loop keeps running (it wakes for a queued functor and   *)
(* for a ready channel, module EventLoop), the message callback returns,   *)
(* and a thread inside send() or shutdown() gets to its end.  Clients and  *)
(* callers need do nothing.                                                *)
(***************************************************************************)
Fairness ==
    /\ \A l \in Loops : WF_vars(LoopStep(l) \/ (l = Base /\ Accept))
    /\ \A l \in Loops : WF_vars(MessageReturns(l))
    /\ \A u \in UserThreads :
          WF_vars(UserSetsState(u) \/ UserShutdownQueues(u)
                  \/ \E len \in SendLens : UserSendQueues(u, len))

FairSpec == Spec /\ Fairness
-----------------------------------------------------------------------------
(* Properties.                                                             *)

(***************************************************************************)
(* Whatever the connection goes through, the poller's books and the epoll  *)
(* set agree on its channel, and no epoll_ctl fails: enableReading,        *)
(* enableWriting, disableWriting, disableAll and remove come in an order   *)
(* EPollPoller::updateChannel can follow.                                  *)
(***************************************************************************)
ChannelsInStep == \A c \in Conns : InStep(conn[c].channel_)

(***************************************************************************)
(* A TcpConnection is not destroyed while the poller or the kernel still   *)
(* knows its channel, nor while the loop has events of it to handle: the   *)
(* Channel* in epoll_data and in activeChannels_ never dangles.  This is   *)
(* what connectDestroyed and queueing it behind the active channels        *)
(* (TcpServer.cpp:117-125) are for.                                        *)
(***************************************************************************)
NoDanglingChannel ==
    \A c \in Conns : Destroyed(c) =>
        /\ ~conn[c].channel_.inMap
        /\ ~conn[c].channel_.registered
        /\ \A l \in Loops : \A a \in active[l] : a[1] # c

(***************************************************************************)
(* The connection's handlers run in the thread of its own loop only: a     *)
(* channel event or a functor that touches the connection is never in      *)
(* another loop (one loop per thread, Channel.h:55).                       *)
(***************************************************************************)
OneLoopPerConnection ==
    \A l \in Loops :
        /\ \A a \in active[l] : a[1] # Acceptor => ioLoop[a[1]] = l
        /\ phase[l] \in {"event", "message"} => ioLoop[cur[l]] = l
        /\ \A i \in DOMAIN queue[l] :
               queue[l][i].fn # "removeConnectionInLoop" => ioLoop[queue[l][i].conn] = l

(***************************************************************************)
(* In a server whose connections are not given to other threads, the       *)
(* connection callback reports every connection up once and then down      *)
(* once, and the connection is destroyed after that (handleClose and       *)
(* connectDestroyed share the work, TcpConnection.cpp:163-182, 241-250).   *)
(* With other threads a send() that comes after connectDestroyed may enter *)
(* the channel again, and a reset then closes the connection once more.    *)
(***************************************************************************)
timesUp == [c \in Conns |-> IF users = {} THEN conn[c].up ELSE 0]
timesDown == [c \in Conns |-> IF users = {} THEN conn[c].down ELSE 0]
destroyed == {c \in Conns : users = {} /\ Destroyed(c)}

CL == INSTANCE ConnectionLifecycle WITH up <- timesUp, down <- timesDown, gone <- destroyed

ReportsUpAndDown == CL!Spec

(***************************************************************************)
(* The bytes that went to the socket, followed by the ones still in the    *)
(* output buffer, are the first bytes sent, in order and without a gap:    *)
(* sendInLoop does not overtake handleWrite (TcpConnection.cpp:93).        *)
(***************************************************************************)
StreamInOrder ==
    \A c \in Conns :
        LET stream == conn[c].wire \o conn[c].outputBuffer_
        IN  \A i \in DOMAIN stream : stream[i] = i

(***************************************************************************)
(* As long as the connection is not closed, bytes wait in the output       *)
(* buffer exactly when the channel waits for EPOLLOUT: buffered output is  *)
(* never forgotten and the loop never spins on a writable socket           *)
(* (TcpConnection.cpp:136-139, 215-217).                                   *)
(***************************************************************************)
WritesWhileBuffered ==
    \A c \in Conns :
        conn[c].down = 0 =>
            (isWriting(conn[c].channel_) <=> conn[c].outputBuffer_ # << >>)

(***************************************************************************)
(* SHUT_WR comes after the last buffered byte: a shutdown() waits for the  *)
(* output buffer unless the connection is closed already                   *)
(* (TcpConnection.cpp:154-160, 224-227).                                   *)
(***************************************************************************)
FinAfterOutput ==
    [][\A c \in Conns :
          ~conn[c].shutWr /\ conn'[c].shutWr =>
              conn'[c].outputBuffer_ = << >> \/ conn[c].down > 0]_vars

(***************************************************************************)
(* Once SHUT_WR is done, nothing more is passed to write() by the thread   *)
(* of the connection's loop: send() has been refused since shutdown() set  *)
(* kDisconnecting.  A thread that tested state_ before that may still send. *)
(***************************************************************************)
NothingSentAfterFin ==
    [][\A c \in Conns :
          users = {} /\ conn[c].shutWr => conn'[c].sent = conn[c].sent]_vars

(***************************************************************************)
(* The connection of a client that closes or resets is destroyed in the    *)
(* end: handleRead meets the end of the stream, removeConnection takes it  *)
(* out of connections_, and connectDestroyed drops the last reference but  *)
(* for those that other threads keep.                                      *)
(***************************************************************************)
ClosedClientReleased ==
    \A c \in Conns :
        (Constructed(c) /\ conn[c].peer # "open")
            ~> (Destroyed(c) \/ (users # {} /\ conn[c].down > 0 /\ c \notin connections_))

(***************************************************************************)
(* shutdown() closes the writing side or the connection is lost, unless    *)
(* the client stops reading for good: a shutdown that met a full output    *)
(* buffer is taken up again by handleWrite (TcpConnection.cpp:224-227).    *)
(***************************************************************************)
ShutdownCompletes ==
    \A c \in Conns :
        \/ <>[](conn[c].sndbuf = SndBuf)
        \/ conn[c].state_ = "kDisconnecting" ~> (conn[c].shutWr \/ conn[c].down > 0)

(***************************************************************************)
(* sendInLoop on a disconnected connection gives up writing, as the log    *)
(* message at TcpConnection.cpp:87-90 says: no byte is taken for the       *)
(* socket or for the output buffer any more.                               *)
(***************************************************************************)
GivesUpWriting ==
    [][\A c \in Conns :
          conn[c].state_ = "kDisconnected" =>
              /\ conn'[c].wire = conn[c].wire
              /\ conn'[c].outputBuffer_ = conn[c].outputBuffer_]_vars

=============================================================================
