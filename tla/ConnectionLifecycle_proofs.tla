---------------------- MODULE ConnectionLifecycle_proofs ----------------------
(***************************************************************************)
(* Proofs about the life of TcpServer's connections: which loop handles    *)
(* one, how long it is referenced, what its user is told of it.            *)
(***************************************************************************)
EXTENDS TcpServer_proofs

-----------------------------------------------------------------------------
(* What the methods do to a connection that has come up.                   *)

Alive(k) == k.up > 0 /\ k.state_ # "unborn"

LEMMA AliveShutdown ==
    ASSUME NEW k, ConnInv(k), Alive(k)
    PROVE  Alive(shutdownInLoop(k))
<1>1. k \in ConnectionType
  BY DEF ConnInv
<1>2. QED
  BY <1>1 DEF shutdownInLoop, Alive, ConnectionType

LEMMA AliveDisconnecting ==
    ASSUME NEW k, ConnInv(k), Alive(k), NEW k1, k1 = [k EXCEPT !.state_ = "kDisconnecting"]
    PROVE  ConnInv(k1) /\ Alive(k1) /\ Alive(shutdownInLoop(k1))
<1>1. k \in ConnectionType
  BY DEF ConnInv
<1>2. Alive(k1)
  BY <1>1 DEF Alive, ConnectionType
<1>3. Plain(k, k1)
  BY <1>1, PlainSteps DEF States
<1>4. ConnInv(k1)
  BY <1>3, PlainInv
<1>5. QED
  BY <1>2, <1>4, AliveShutdown

LEMMA AliveSend ==
    ASSUME NEW k, ConnInv(k), Alive(k), NEW len \in Nat
    PROVE  Alive(sendInLoop(k, len))
<1>1. PICK k2 : k2 = sendInLoop(k, len)
  OBVIOUS
<1>2. PICK n \in Nat, r \in Nat : SendStep(k, len, k2, n, r)
  BY <1>1, SendFields
<1>3. k2.state_ = k.state_ /\ k2.up = k.up
  BY <1>2 DEF SendStep
<1>4. QED
  BY <1>1, <1>3 DEF Alive

LEMMA AliveClose ==
    ASSUME NEW k, ConnInv(k), Alive(k)
    PROVE  Alive(handleClose(k)) /\ Alive(connectDestroyed(k)) /\ Alive(handleWrite(k))
<1>1. Alive(handleClose(k))
  <2>1. PICK k2 : k2 = handleClose(k)
    OBVIOUS
  <2>2. QED
    BY <2>1, CloseFields DEF Alive
<1>2. Alive(connectDestroyed(k))
  <2>1. PICK k2 : k2 = connectDestroyed(k)
    OBVIOUS
  <2>2. k2.up = k.up /\ k2.state_ = IF k.state_ = "kConnected" THEN "kDisconnected" ELSE k.state_
    BY <2>1, DestroyedFields
  <2>3. QED
    BY <2>1, <2>2 DEF Alive
<1>3. Alive(handleWrite(k))
  BY WriteInv DEF Alive
<1>4. QED
  BY <1>1, <1>2, <1>3

LEMMA AliveEstablished ==
    ASSUME NEW k, ConnInv(k)
    PROVE  Alive(connectEstablished(k))
<1>1. PICK k2 : k2 = connectEstablished(k)
  OBVIOUS
<1>2. k2.up = k.up + 1 /\ k2.state_ = "kConnected" /\ k.up \in Nat
  BY <1>1, EstablishedFields, ConnFields DEF ConnInv
<1>3. QED
  BY <1>1, <1>2 DEF Alive

-----------------------------------------------------------------------------
(* Where a connection may be met.                                          *)

\* Loop l has a channel of a connection in its hands.
Handles(l) == phase[l] \in {"event", "message"}

\* A functor in the right loop, of a connection that is there for it.
Good(l, f) ==
    /\ f.fn = "removeConnectionInLoop" => l = Base
    /\ f.fn # "removeConnectionInLoop" => ioLoop[f.conn] = l
    /\ Constructed(f.conn)
    /\ f.fn = "connectEstablished" \/ conn[f.conn].up > 0

ActivePlaced ==
    \A l \in Loops : \A a \in active[l] :
        a[1] # Acceptor => ioLoop[a[1]] = l /\ conn[a[1]].up > 0

CurPlaced ==
    \A l \in Loops : Handles(l) => ioLoop[cur[l]] = l /\ conn[cur[l]].up > 0

FunctorsPlaced ==
    \A l \in Loops :
        /\ \A i \in DOMAIN queue[l] : Good(l, queue[l][i])
        /\ \A i \in DOMAIN batch[l] : Good(l, batch[l][i])

UsersPlaced ==
    \A u \in UserThreads : userPc[u] # "idle" => conn[userConn[u]].up > 0

\* Before the connection is up nothing is known of it but connections_.
ConnPlaced(c) ==
    /\ conn[c].up = 0 =>
           /\ conn[c].channel_.index_ = "kNew"
           /\ conn[c].down = 0
           /\ ~conn[c].shutWr
    /\ conn[c].up = 0 /\ Constructed(c) => c \in connections_
    /\ conn[c].up > 0 => Constructed(c)
    /\ c \in backlog => ~Constructed(c)
    /\ c \in connections_ => Constructed(c)

Placed ==
    /\ ActivePlaced
    /\ CurPlaced
    /\ FunctorsPlaced
    /\ UsersPlaced
    /\ \A c \in Conns : ConnPlaced(c)

-----------------------------------------------------------------------------
(* How one step may change a connection.                                   *)

Calm(k, k2) == Plain(k, k2) /\ k2.state_ = k.state_

Changed(c) ==
    \/ Calm(conn[c], conn'[c])
    \/ Constructed(c) /\ Alive(conn'[c])
    \/ HandleAccept(c)

LEMMA CalmSteps ==
    ASSUME NEW k \in ConnectionType
    PROVE  /\ Calm(k, k)
           /\ Calm(k, clearError(k))
           /\ Calm(k, readMessage(k))
           /\ Calm(k, [k EXCEPT !.unread = TRUE])
           /\ k.sndbuf > 0 => Calm(k, [k EXCEPT !.sndbuf = @ - 1])
           /\ k.peer = "open" => Calm(k, [k EXCEPT !.peer = "fin"])
           /\ Calm(k, [k EXCEPT !.peer = "reset", !.err = TRUE, !.sndbuf = 0])
<1>1. /\ clearError(k).state_ = k.state_ /\ readMessage(k).state_ = k.state_
      /\ [k EXCEPT !.unread = TRUE].state_ = k.state_
      /\ [k EXCEPT !.sndbuf = @ - 1].state_ = k.state_
      /\ [k EXCEPT !.peer = "fin"].state_ = k.state_
      /\ [k EXCEPT !.peer = "reset", !.err = TRUE, !.sndbuf = 0].state_ = k.state_
  BY DEF clearError, readMessage, ConnectionType
<1>2. QED
  BY <1>1, PlainSteps DEF Calm

LEMMA CalmChange ==
    ASSUME TypeOK, NEW x, NEW v, conn' = [conn EXCEPT ![x] = v],
           x \in Conns => Calm(conn[x], v), NEW c \in Conns
    PROVE  Calm(conn[c], conn'[c])
<1>1. conn \in [Conns -> ConnectionType]
  BY DEF TypeOK
<1>2. CASE x = c
  <2>1. conn'[c] = v
    BY <1>1, <1>2
  <2>2. QED
    BY <1>2, <2>1
<1>3. CASE x # c
  <2>1. conn'[c] = conn[c] /\ conn[c] \in ConnectionType
    BY <1>1, <1>3
  <2>2. QED
    BY <2>1, CalmSteps
<1>4. QED
  BY <1>2, <1>3

LEMMA AliveChange ==
    ASSUME TypeOK, NEW x, NEW v, conn' = [conn EXCEPT ![x] = v],
           x \in Conns => Constructed(x) /\ Alive(v), NEW c \in Conns
    PROVE  Changed(c)
<1>1. conn \in [Conns -> ConnectionType]
  BY DEF TypeOK
<1>2. CASE x = c
  <2>1. conn'[c] = v
    BY <1>1, <1>2
  <2>2. QED
    BY <1>2, <2>1 DEF Changed
<1>3. CASE x # c
  <2>1. conn'[c] = conn[c] /\ conn[c] \in ConnectionType
    BY <1>1, <1>3
  <2>2. QED
    BY <2>1, CalmSteps DEF Changed
<1>4. QED
  BY <1>2, <1>3

LEMMA CalmClient ==
    ASSUME TypeOK, NEW d \in Conns, Client(d), NEW c \in Conns
    PROVE  Calm(conn[c], conn'[c])
<1>1. conn[d] \in ConnectionType /\ conn[c] \in ConnectionType
  BY DEF TypeOK
<1>2. CASE ClientConnects(d)
  BY <1>1, <1>2, CalmSteps DEF ClientConnects
<1>3. CASE ClientSends(d)
  <2>1. conn' = [conn EXCEPT ![d] = [conn[d] EXCEPT !.unread = TRUE]]
    BY <1>3 DEF ClientSends
  <2>2. Calm(conn[d], [conn[d] EXCEPT !.unread = TRUE])
    BY <1>1, CalmSteps
  <2>3. QED
    BY <2>1, <2>2, CalmChange
<1>4. CASE ClientReads(d)
  <2>1. conn' = [conn EXCEPT ![d] = [conn[d] EXCEPT !.sndbuf = @ - 1]] /\ conn[d].sndbuf > 0
    BY <1>4 DEF ClientReads
  <2>2. Calm(conn[d], [conn[d] EXCEPT !.sndbuf = @ - 1])
    BY <1>1, <2>1, CalmSteps
  <2>3. QED
    BY <2>1, <2>2, CalmChange
<1>5. CASE ClientCloses(d)
  <2>1. conn' = [conn EXCEPT ![d] = [conn[d] EXCEPT !.peer = "fin"]] /\ conn[d].peer = "open"
    BY <1>5 DEF ClientCloses
  <2>2. Calm(conn[d], [conn[d] EXCEPT !.peer = "fin"])
    BY <1>1, <2>1, CalmSteps
  <2>3. QED
    BY <2>1, <2>2, CalmChange
<1>6. CASE ClientResets(d)
  <2>1. conn' = [conn EXCEPT ![d] = [conn[d] EXCEPT !.peer = "reset", !.err = TRUE, !.sndbuf = 0]]
    BY <1>1, <1>6 DEF ClientResets, TypeOK, ConnectionType
  <2>2. Calm(conn[d], [conn[d] EXCEPT !.peer = "reset", !.err = TRUE, !.sndbuf = 0])
    BY <1>1, CalmSteps
  <2>3. QED
    BY <2>1, <2>2, CalmChange
<1>7. QED
  BY <1>2, <1>3, <1>4, <1>5, <1>6 DEF Client

\* What a loop or a user has in its hands is alive.
LEMMA HeldAlive ==
    ASSUME Types, Placed
    PROVE  /\ \A l \in Loops : Handles(l) =>
                  /\ cur[l] \in Conns /\ Constructed(cur[l])
                  /\ ConnInv(conn[cur[l]]) /\ Alive(conn[cur[l]]) /\ ioLoop[cur[l]] = l
           /\ \A l \in Loops : \A fn : Running(l, fn) =>
                  /\ Target(l) \in Conns /\ Constructed(Target(l)) /\ ConnInv(conn[Target(l)])
                  /\ fn = "removeConnectionInLoop" => l = Base
                  /\ fn # "removeConnectionInLoop" => ioLoop[Target(l)] = l
                  /\ fn # "connectEstablished" => Alive(conn[Target(l)])
           /\ \A u \in UserThreads : userPc[u] # "idle" =>
                  /\ userConn[u] \in Conns /\ Constructed(userConn[u])
                  /\ ConnInv(conn[userConn[u]]) /\ Alive(conn[userConn[u]])
<1>1. ASSUME NEW l \in Loops, Handles(l)
      PROVE  /\ cur[l] \in Conns /\ Constructed(cur[l])
             /\ ConnInv(conn[cur[l]]) /\ Alive(conn[cur[l]]) /\ ioLoop[cur[l]] = l
  <2>1. cur[l] \in Conns /\ ioLoop[cur[l]] = l /\ conn[cur[l]].up > 0
    BY <1>1 DEF Types, Busy, Placed, CurPlaced, Handles
  <2>2. Constructed(cur[l])
    BY <2>1 DEF Placed, ConnPlaced
  <2>3. QED
    BY <2>1, <2>2, SoundConn DEF Alive, Constructed
<1>2. ASSUME NEW l \in Loops, NEW fn, Running(l, fn)
      PROVE  /\ Target(l) \in Conns /\ Constructed(Target(l)) /\ ConnInv(conn[Target(l)])
             /\ fn = "removeConnectionInLoop" => l = Base
             /\ fn # "removeConnectionInLoop" => ioLoop[Target(l)] = l
             /\ fn # "connectEstablished" => Alive(conn[Target(l)])
  <2>1. /\ pos[l] \in DOMAIN batch[l] /\ Target(l) \in Conns /\ batch[l][pos[l]].fn = fn
    BY <1>2, RunningFunctor DEF Types
  <2>2. Good(l, batch[l][pos[l]])
    BY <2>1 DEF Placed, FunctorsPlaced
  <2>3. QED
    BY <2>1, <2>2, SoundConn DEF Good, Alive, Constructed, Target
<1>3. ASSUME NEW u \in UserThreads, userPc[u] # "idle"
      PROVE  /\ userConn[u] \in Conns /\ Constructed(userConn[u])
             /\ ConnInv(conn[userConn[u]]) /\ Alive(conn[userConn[u]])
  <2>1. userConn[u] \in Conns /\ conn[userConn[u]].up > 0
    BY <1>3 DEF Types, Busy, Placed, UsersPlaced
  <2>2. Constructed(userConn[u])
    BY <2>1 DEF Placed, ConnPlaced
  <2>3. QED
    BY <2>1, <2>2, SoundConn DEF Alive, Constructed
<1>4. QED
  BY <1>1, <1>2, <1>3

LEMMA LoopChanges ==
    ASSUME Types, Placed, NEW l \in Loops, LoopStep(l) \/ Message(l), NEW c \in Conns
    PROVE  Changed(c)
<1>1. TypeOK /\ conn \in [Conns -> ConnectionType] /\ conn[c] \in ConnectionType
  BY DEF Types, TypeOK
<1>2. PICK x, y : x = cur[l] /\ y = Target(l)
  OBVIOUS
<1>3. ASSUME Handles(l) PROVE x \in Conns /\ Constructed(x) /\ ConnInv(conn[x]) /\ Alive(conn[x])
  BY <1>2, <1>3, HeldAlive
<1>4. ASSUME NEW fn, Running(l, fn)
      PROVE  /\ y \in Conns /\ Constructed(y) /\ ConnInv(conn[y])
             /\ fn # "connectEstablished" => Alive(conn[y])
  BY <1>2, <1>4, HeldAlive
<1>5. CASE HandleClose(l) \/ HandleReadEnd(l) \/ HandleWrite(l)
  <2>1. /\ Handles(l)
        /\ \E v \in {handleClose(conn[x]), handleWrite(conn[x])} : conn' = [conn EXCEPT ![x] = v]
    BY <1>2, <1>5 DEF HandleClose, HandleReadEnd, HandleWrite, Callback, Handles
  <2>2. \A v \in {handleClose(conn[x]), handleWrite(conn[x])} : Alive(v)
    BY <1>3, <2>1, AliveClose
  <2>3. PICK v : conn' = [conn EXCEPT ![x] = v] /\ Alive(v)
    BY <2>1, <2>2
  <2>4. QED
    BY <1>1, <1>3, <2>1, <2>3, AliveChange
<1>6. CASE HandleError(l) \/ HandleReadError(l) \/ HandleReadMessage(l)
  <2>1. /\ Handles(l)
        /\ \E v \in {clearError(conn[x]), readMessage(conn[x])} : conn' = [conn EXCEPT ![x] = v]
    BY <1>2, <1>6 DEF HandleError, HandleReadError, HandleReadMessage, Callback, Handles, handleError
  <2>2. conn[x] \in ConnectionType
    BY <1>1, <1>3, <2>1
  <2>3. \A v \in {clearError(conn[x]), readMessage(conn[x])} : Calm(conn[x], v)
    BY <2>2, CalmSteps
  <2>4. PICK v : conn' = [conn EXCEPT ![x] = v] /\ Calm(conn[x], v)
    BY <2>1, <2>3
  <2>5. QED
    BY <1>1, <2>4, CalmChange DEF Changed
<1>7. CASE RunConnectEstablished(l)
  <2>1. Running(l, "connectEstablished") /\ conn' = [conn EXCEPT ![y] = connectEstablished(conn[y])]
    BY <1>2, <1>7 DEF RunConnectEstablished
  <2>2. Constructed(y) /\ Alive(connectEstablished(conn[y]))
    BY <1>4, <2>1, AliveEstablished
  <2>3. QED
    BY <1>1, <2>1, <2>2, AliveChange
<1>8. CASE RunConnectDestroyed(l)
  <2>1. Running(l, "connectDestroyed") /\ conn' = [conn EXCEPT ![y] = connectDestroyed(conn[y])]
    BY <1>2, <1>8 DEF RunConnectDestroyed
  <2>2. Constructed(y) /\ Alive(connectDestroyed(conn[y]))
    BY <1>4, <2>1, AliveClose
  <2>3. QED
    BY <1>1, <2>1, <2>2, AliveChange
<1>9. CASE RunShutdownInLoop(l)
  <2>1. Running(l, "shutdownInLoop") /\ conn' = [conn EXCEPT ![y] = shutdownInLoop(conn[y])]
    BY <1>2, <1>9 DEF RunShutdownInLoop
  <2>2. Constructed(y) /\ Alive(shutdownInLoop(conn[y]))
    BY <1>4, <2>1, AliveShutdown
  <2>3. QED
    BY <1>1, <2>1, <2>2, AliveChange
<1>10. CASE RunSendInLoop(l)
  <2>1. PICK len : len = batch[l][pos[l]].len
    OBVIOUS
  <2>2. Running(l, "sendInLoop") /\ conn' = [conn EXCEPT ![y] = sendInLoop(conn[y], len)]
    BY <1>2, <1>10, <2>1 DEF RunSendInLoop
  <2>3. len \in Nat
    BY <1>1, <2>1, <2>2, RunningFunctor
  <2>4. Constructed(y) /\ Alive(sendInLoop(conn[y], len))
    BY <1>4, <2>2, <2>3, AliveSend
  <2>5. QED
    BY <1>1, <2>2, <2>4, AliveChange
<1>11. CASE MessageShutsDown(l)
  <2>1. PICK k1 : k1 = [conn[x] EXCEPT !.state_ = "kDisconnecting"]
    OBVIOUS
  <2>2. Handles(l) /\ conn' = [conn EXCEPT ![x] = shutdownInLoop(k1)]
    BY <1>2, <1>11, <2>1 DEF MessageShutsDown, Handles
  <2>3. Constructed(x) /\ Alive(shutdownInLoop(k1))
    BY <1>3, <2>1, <2>2, AliveDisconnecting
  <2>4. QED
    BY <1>1, <2>2, <2>3, AliveChange
<1>12. ASSUME NEW len \in SendLens, MessageSends(l, len) PROVE Changed(c)
  <2>1. Handles(l) /\ conn' = [conn EXCEPT ![x] = sendInLoop(conn[x], len)]
    BY <1>2, <1>12 DEF MessageSends, Handles
  <2>2. len \in Nat
    BY SendLensAssumption
  <2>3. Constructed(x) /\ Alive(sendInLoop(conn[x], len))
    BY <1>3, <2>1, <2>2, AliveSend
  <2>4. QED
    BY <1>1, <2>1, <2>3, AliveChange
<1>13. CASE conn' = conn
  BY <1>1, <1>13, CalmSteps DEF Changed
<1>14. CASE \/ Poll(l) \/ EventHandled(l) \/ BeginPending(l) \/ EndPending(l)
            \/ MessageReturns(l) \/ RunRemoveConnection(l) \/ RunUserCallback(l)
            \/ \E a \in active[l] : HandleEvent(l, a[1], a[2])
  BY <1>13, <1>14 DEF Poll, EventHandled, BeginPending, EndPending, MessageReturns,
                      RunRemoveConnection, RunUserCallback, HandleEvent
<1>15. QED
  BY <1>5, <1>6, <1>7, <1>8, <1>9, <1>10, <1>11, <1>12, <1>14 DEF LoopStep, Message

LEMMA UserChanges ==
    ASSUME Types, Placed, NEW u \in UserThreads, User(u), NEW c \in Conns
    PROVE  Changed(c)
<1>1. TypeOK /\ conn[c] \in ConnectionType
  BY DEF Types, TypeOK
<1>2. CASE UserSetsState(u)
  <2>1. PICK x : x = userConn[u]
    OBVIOUS
  <2>2. PICK k1 : k1 = [conn[x] EXCEPT !.state_ = "kDisconnecting"]
    OBVIOUS
  <2>3. userPc[u] # "idle" /\ conn' = [conn EXCEPT ![x] = k1]
    BY <1>2, <2>1, <2>2 DEF UserSetsState
  <2>4. ConnInv(conn[x]) /\ Alive(conn[x]) /\ Constructed(x)
    BY <2>1, <2>3, HeldAlive
  <2>5. Alive(k1)
    BY <2>2, <2>4, AliveDisconnecting
  <2>6. QED
    BY <1>1, <2>3, <2>4, <2>5, AliveChange
<1>3. CASE conn' = conn
  BY <1>1, <1>3, CalmSteps DEF Changed
<1>4. QED
  BY <1>2, <1>3 DEF User, UserSend, UserShutdown, UserTests, UserSendQueues, UserShutdownQueues,
                    UserQueues

LEMMA AcceptChanges ==
    ASSUME Types, Accept, NEW c \in Conns
    PROVE  Changed(c)
<1>1. conn \in [Conns -> ConnectionType] /\ conn[c] \in ConnectionType
  BY DEF Types, TypeOK
<1>2. CASE conn' = conn
  BY <1>1, <1>2, CalmSteps DEF Changed
<1>3. ASSUME NEW d \in Conns, HandleAccept(d), d # c PROVE Changed(c)
  <2>1. \E v : conn' = [conn EXCEPT ![d] = v]
    BY <1>3 DEF HandleAccept, newConnection
  <2>2. conn'[c] = conn[c]
    BY <1>1, <1>3, <2>1
  <2>3. QED
    BY <1>1, <2>2, CalmSteps DEF Changed
<1>4. QED
  BY <1>2, <1>3 DEF Accept, HandleAcceptFails, Changed

LEMMA EveryChange ==
    ASSUME Types, Placed, [Next]_vars, NEW c \in Conns
    PROVE  Changed(c)
<1>1. CASE UNCHANGED vars
  BY <1>1, CalmSteps DEF vars, Types, TypeOK, Changed
<1>2. CASE \E d \in Conns : Client(d)
  BY <1>2, CalmClient DEF Types, Changed
<1>3. QED
  BY <1>1, <1>2, KnownUsers, LoopChanges, UserChanges, AcceptChanges DEF Next, Types

\* A connection keeps its loop, stays up, and is unborn until it is accepted.
Stable ==
    \A c \in Conns :
        /\ Constructed(c) => Constructed(c)' /\ ioLoop'[c] = ioLoop[c]
        /\ conn[c].up > 0 => conn'[c].up > 0

LEMMA IoLoopKept ==
    ASSUME TypeOK, [Next]_vars, NEW c \in Conns
    PROVE  ioLoop'[c] = ioLoop[c] \/ HandleAccept(c)
<1>1. CASE ioLoop' = ioLoop
  BY <1>1
<1>2. ASSUME NEW d \in Conns, HandleAccept(d) PROVE ioLoop'[c] = ioLoop[c] \/ HandleAccept(c)
  <2>1. ioLoop' = [ioLoop EXCEPT ![d] = getNextLoop] /\ ioLoop \in [Conns -> Loops]
    BY <1>2 DEF HandleAccept, newConnection, TypeOK
  <2>2. QED
    BY <1>2, <2>1
<1>3. CASE \E d \in Conns : Client(d)
  BY <1>1, <1>3 DEF Client, ClientConnects, ClientSends, ClientReads, ClientCloses, ClientResets,
                    serverVars
<1>4. CASE \E u \in users : User(u)
  BY <1>1, <1>4 DEF User, UserSend, UserShutdown, UserTests, UserSendQueues, UserShutdownQueues,
                    UserQueues, UserSetsState, serverVars
<1>5. CASE \E l \in Loops : Message(l)
  BY <1>1, <1>5 DEF Message, MessageShutsDown, MessageSends, serverVars
<1>6. CASE \E l \in Loops : LoopStep(l)
  <2>1. PICK l \in Loops : LoopStep(l)
    BY <1>6
  <2>2. CASE (\E name : Callback(l, name)) \/ (\E fn : Running(l, fn))
    BY <1>1, <2>2 DEF Callback, Running
  <2>3. CASE Poll(l) \/ EventHandled(l) \/ BeginPending(l) \/ EndPending(l) \/ MessageReturns(l)
             \/ \E a \in active[l] : HandleEvent(l, a[1], a[2])
    BY <1>1, <2>3 DEF Poll, EventHandled, BeginPending, EndPending, MessageReturns, HandleEvent,
                      serverVars
  <2>4. QED
    BY <2>1, <2>2, <2>3 DEF LoopStep, HandleClose, HandleError, HandleWrite, HandleReadMessage,
          HandleReadEnd, HandleReadError, RunConnectEstablished, RunRemoveConnection,
          RunConnectDestroyed, RunSendInLoop, RunShutdownInLoop, RunUserCallback
<1>7. CASE HandleAcceptFails
  BY <1>1, <1>7 DEF HandleAcceptFails, serverVars
<1>8. CASE UNCHANGED vars
  BY <1>1, <1>8 DEF vars, serverVars
<1>9. QED
  BY <1>2, <1>3, <1>4, <1>5, <1>6, <1>7, <1>8 DEF Next, Accept

LEMMA StepStable ==
    ASSUME Types, Placed, [Next]_vars
    PROVE  Stable
<1>1. SUFFICES ASSUME NEW c \in Conns, Constructed(c) \/ conn[c].up > 0
               PROVE  /\ Constructed(c)' /\ ioLoop'[c] = ioLoop[c]
                      /\ conn[c].up > 0 => conn'[c].up > 0
  BY DEF Stable
<1>2. Constructed(c) /\ c \notin backlog
  BY <1>1 DEF Placed, ConnPlaced
<1>3. ~HandleAccept(c)
  BY <1>2 DEF HandleAccept
<1>4. Calm(conn[c], conn'[c]) \/ Alive(conn'[c])
  BY <1>3, EveryChange DEF Changed
<1>5. ioLoop'[c] = ioLoop[c]
  BY <1>3, IoLoopKept DEF Types
<1>6. QED
  BY <1>2, <1>4, <1>5 DEF Calm, Plain, Alive, Constructed

-----------------------------------------------------------------------------
(* Every step keeps the connections where they belong.                     *)

\* connections_ loses what has been up, and gains what is accepted.
LEMMA ServerSets ==
    ASSUME Types, Placed, [Next]_vars, NEW c \in Conns
    PROVE  /\ c \in connections_ /\ c \notin connections_' => conn[c].up > 0
           /\ c \in connections_' => c \in connections_ \/ HandleAccept(c)
           /\ c \in backlog' => c \in backlog \/ ~Constructed(c)
<1> DEFINE G == /\ c \in connections_ /\ c \notin connections_' => conn[c].up > 0
                /\ c \in connections_' => c \in connections_ \/ HandleAccept(c)
                /\ c \in backlog' => c \in backlog \/ ~Constructed(c)
<1>1. CASE UNCHANGED vars
  BY <1>1 DEF vars, serverVars
<1>2. CASE \E d \in Conns : Client(d)
  BY <1>2 DEF Client, ClientConnects, ClientSends, ClientReads, ClientCloses, ClientResets,
              serverVars
<1>3. CASE \E u \in users : User(u)
  BY <1>3 DEF User, UserSend, UserShutdown, UserTests, UserSendQueues, UserShutdownQueues,
              UserQueues, UserSetsState, serverVars
<1>4. CASE Accept
  BY <1>4 DEF Accept, HandleAccept, HandleAcceptFails, newConnection, serverVars
<1>5. CASE \E l \in Loops : Message(l)
  BY <1>5 DEF Message, MessageShutsDown, MessageSends, serverVars
<1>6. ASSUME NEW l \in Loops, LoopStep(l) PROVE G
  <2>1. CASE UNCHANGED <<connections_, backlog>>
    BY <2>1
  <2>2. ASSUME NEW x, conn[x].up > 0, backlog' = backlog, connections_' = connections_ \ {x}
        PROVE  G
    BY <2>2
  <2>3. CASE HandleClose(l) \/ HandleReadEnd(l)
    <3>1. Handles(l) /\ backlog' = backlog /\ removeConnection(l, cur[l])
      BY <2>3 DEF HandleClose, HandleReadEnd, Callback, Handles
    <3>2. conn[cur[l]].up > 0
      BY <3>1, HeldAlive DEF Alive
    <3>3. QED
      BY <2>1, <2>2, <3>1, <3>2 DEF removeConnection, removeConnectionInLoop
  <2>4. CASE RunRemoveConnection(l)
    <3>1. Running(l, "removeConnectionInLoop") /\ backlog' = backlog
          /\ connections_' = connections_ \ {Target(l)}
      BY <2>4 DEF RunRemoveConnection, Running, removeConnectionInLoop
    <3>2. conn[Target(l)].up > 0
      BY <3>1, HeldAlive DEF Alive
    <3>3. QED
      BY <2>2, <3>1, <3>2
  <2>5. CASE \/ Poll(l) \/ EventHandled(l) \/ BeginPending(l) \/ EndPending(l) \/ MessageReturns(l)
             \/ \E a \in active[l] : HandleEvent(l, a[1], a[2])
    BY <2>1, <2>5 DEF Poll, EventHandled, BeginPending, EndPending, MessageReturns, HandleEvent,
                      serverVars
  <2>6. CASE \/ HandleError(l) \/ HandleWrite(l) \/ HandleReadMessage(l) \/ HandleReadError(l)
             \/ RunConnectEstablished(l) \/ RunConnectDestroyed(l)
             \/ RunSendInLoop(l) \/ RunShutdownInLoop(l) \/ RunUserCallback(l)
    BY <2>1, <2>6 DEF HandleError, HandleWrite, HandleReadMessage, HandleReadError,
          RunConnectEstablished, RunConnectDestroyed, RunSendInLoop, RunShutdownInLoop,
          RunUserCallback, Callback, Running
  <2>7. QED
    BY <1>6, <2>3, <2>4, <2>5, <2>6 DEF LoopStep
<1>7. QED
  BY <1>1, <1>2, <1>3, <1>4, <1>5, <1>6 DEF Next

LEMMA ConnPlacedNext ==
    ASSUME Types, Placed, [Next]_vars, NEW c \in Conns
    PROVE  ConnPlaced(c)'
<1>1. ConnPlaced(c) /\ Changed(c)
  BY EveryChange DEF Placed
<1>2. /\ c \in connections_ /\ c \notin connections_' => conn[c].up > 0
      /\ c \in connections_' => c \in connections_ \/ HandleAccept(c)
      /\ c \in backlog' => c \in backlog \/ ~Constructed(c)
  BY ServerSets
<1>3. conn'[c].up \in Nat /\ conn[c].up \in Nat
  BY SoundConn, TypesNext, ConnFields DEF SoundStep, ConnInv
<1>4. CASE HandleAccept(c)
  <2>1. c \notin backlog' /\ c \in connections_' /\ ~Constructed(c)
    BY <1>1, <1>4 DEF HandleAccept, newConnection, ConnPlaced
  <2>2. PICK k, k1 : k = conn[c] /\ k1 = [k EXCEPT !.state_ = "kConnecting"]
    OBVIOUS
  <2>3. conn'[c] = k1 \/ conn'[c] = connectEstablished(k1)
    BY <1>4, <2>2 DEF HandleAccept, newConnection, Types, TypeOK
  <2>4. ConnInv(k) /\ k \in ConnectionType
    BY <2>2, SoundConn
  <2>5. CASE conn'[c] = k1
    <3>1. k1.state_ = "kConnecting" /\ k1.up = k.up /\ k1.down = k.down
          /\ k1.channel_ = k.channel_ /\ k1.shutWr = k.shutWr
      BY <2>2, <2>4 DEF ConnectionType
    <3>2. k.up = 0
      BY <1>1, <1>3, <2>1, <2>2 DEF ConnPlaced
    <3>3. QED
      BY <1>1, <2>1, <2>2, <2>5, <3>1, <3>2 DEF ConnPlaced, Constructed
  <2>6. CASE conn'[c] = connectEstablished(k1)
    <3>1. ConnInv(k1)
      BY <2>2, <2>4, ConstructInv
    <3>2. Alive(conn'[c])
      BY <2>6, <3>1, AliveEstablished
    <3>3. QED
      BY <1>3, <2>1, <3>2 DEF Alive, ConnPlaced, Constructed
  <2>7. QED
    BY <2>3, <2>5, <2>6
<1>5. CASE Calm(conn[c], conn'[c]) /\ ~HandleAccept(c)
  BY <1>1, <1>2, <1>3, <1>5 DEF Calm, Plain, ConnPlaced, Constructed
<1>6. CASE Constructed(c) /\ Alive(conn'[c]) /\ ~HandleAccept(c)
  BY <1>1, <1>2, <1>3, <1>6 DEF Alive, ConnPlaced, Constructed
<1>7. QED
  BY <1>1, <1>4, <1>5, <1>6 DEF Changed

\* Good(l, f), of the functor f itself, in the next state.
GoodNext(l, f) ==
    /\ f.fn = "removeConnectionInLoop" => l = Base
    /\ f.fn # "removeConnectionInLoop" => ioLoop'[f.conn] = l
    /\ conn'[f.conn].state_ # "unborn"
    /\ f.fn = "connectEstablished" \/ conn'[f.conn].up > 0

QueueGood == \A l \in Loops : \A i \in DOMAIN queue'[l] : GoodNext(l, queue'[l][i])

BatchGood == \A l \in Loops : \A i \in DOMAIN batch'[l] : GoodNext(l, batch'[l][i])

LEMMA GoodKept ==
    ASSUME Stable, NEW l \in Loops, NEW f \in Functors, Good(l, f)
    PROVE  GoodNext(l, f)
<1>1. f.conn \in Conns
  BY DEF Functors
<1>2. QED
  BY <1>1 DEF Stable, Good, GoodNext, Constructed

LEMMA QueueElement ==
    ASSUME NEW q \in Seq(Functors), NEW f, NEW i \in DOMAIN Append(q, f)
    PROVE  (i \in DOMAIN q /\ Append(q, f)[i] = q[i]) \/ Append(q, f)[i] = f
OBVIOUS

LEMMA ConcatElement ==
    ASSUME NEW q \in Seq(Functors), NEW s \in Seq(Functors), NEW i \in DOMAIN (q \o s)
    PROVE  \/ i \in DOMAIN q /\ (q \o s)[i] = q[i]
           \/ i - Len(q) \in DOMAIN s /\ (q \o s)[i] = s[i - Len(q)]
OBVIOUS

LEMMA QueueSame ==
    ASSUME TypeOK, FunctorsPlaced, Stable, queue' = queue
    PROVE  QueueGood
<1>1. SUFFICES ASSUME NEW l \in Loops, NEW i \in DOMAIN queue[l] PROVE GoodNext(l, queue[l][i])
  BY DEF QueueGood
<1>2. queue[l] \in Seq(Functors)
  BY DEF TypeOK
<1>3. queue[l][i] \in Functors
  BY <1>2
<1>4. Good(l, queue[l][i])
  BY DEF FunctorsPlaced
<1>5. QED
  BY <1>3, <1>4, GoodKept

LEMMA BatchSame ==
    ASSUME TypeOK, FunctorsPlaced, Stable, batch' = batch
    PROVE  BatchGood
<1>1. SUFFICES ASSUME NEW l \in Loops, NEW i \in DOMAIN batch[l] PROVE GoodNext(l, batch[l][i])
  BY DEF BatchGood
<1>2. batch[l] \in Seq(Functors)
  BY DEF TypeOK
<1>3. batch[l][i] \in Functors
  BY <1>2
<1>4. Good(l, batch[l][i])
  BY DEF FunctorsPlaced
<1>5. QED
  BY <1>3, <1>4, GoodKept

LEMMA QueueAppended ==
    ASSUME TypeOK, FunctorsPlaced, Stable, NEW x \in Loops, NEW f \in Functors, GoodNext(x, f),
           queue' = [queue EXCEPT ![x] = Append(@, f)]
    PROVE  QueueGood
<1>1. SUFFICES ASSUME NEW l \in Loops, NEW i \in DOMAIN queue'[l] PROVE GoodNext(l, queue'[l][i])
  BY DEF QueueGood
<1>2. PICK q \in Seq(Functors) : q = queue[l]
  BY DEF TypeOK
<1>3. ASSUME NEW j \in DOMAIN q PROVE GoodNext(l, q[j])
  <2>1. q[j] \in Functors /\ Good(l, q[j])
    BY <1>2, <1>3 DEF FunctorsPlaced
  <2>2. QED
    BY <2>1, GoodKept
<1>4. queue'[l] = IF l = x THEN Append(q, f) ELSE q
  BY <1>2 DEF TypeOK
<1>5. CASE l = x
  <2>1. i \in DOMAIN Append(q, f) /\ queue'[l][i] = Append(q, f)[i]
    BY <1>1, <1>4, <1>5
  <2>2. QED
    BY <1>3, <1>5, <2>1, QueueElement
<1>6. CASE l # x
  BY <1>1, <1>3, <1>4, <1>6
<1>7. QED
  BY <1>5, <1>6

LEMMA QueueNamed ==
    ASSUME TypeOK, FunctorsPlaced, Stable, NEW x \in Loops, NEW c \in Conns,
           NEW names \in Seq(SharedFns), queueNames(x, c, names),
           \A i \in DOMAIN names : names[i] # "removeConnectionInLoop",
           Constructed(c), conn[c].up > 0, ioLoop[c] = x
    PROVE  QueueGood
<1>1. SUFFICES ASSUME NEW l \in Loops, NEW i \in DOMAIN queue'[l] PROVE GoodNext(l, queue'[l][i])
  BY DEF QueueGood
<1>2. PICK q \in Seq(Functors) : q = queue[l]
  BY DEF TypeOK
<1>3. ASSUME NEW j \in DOMAIN q PROVE GoodNext(l, q[j])
  <2>1. q[j] \in Functors /\ Good(l, q[j])
    BY <1>2, <1>3 DEF FunctorsPlaced
  <2>2. QED
    BY <2>1, GoodKept
<1>4. PICK s \in Seq(Functors) : s = [j \in DOMAIN names |-> Functor(names[j], c)]
  BY QueueNamesType
<1>5. ASSUME NEW j \in DOMAIN s PROVE GoodNext(x, s[j])
  <2>1. j \in DOMAIN names /\ s[j] = Functor(names[j], c)
    BY <1>4, <1>5
  <2>2. s[j].conn = c /\ s[j].fn # "removeConnectionInLoop"
    BY <2>1 DEF Functor
  <2>3. conn'[c].state_ # "unborn" /\ conn'[c].up > 0 /\ ioLoop'[c] = x
    BY DEF Stable, Constructed
  <2>4. QED
    BY <2>2, <2>3 DEF GoodNext
<1>6. queue'[l] = IF l = x THEN q \o s ELSE q
  BY <1>2, <1>4 DEF TypeOK, queueNames
<1>7. CASE l = x
  <2>1. i \in DOMAIN (q \o s) /\ queue'[l][i] = (q \o s)[i]
    BY <1>1, <1>6, <1>7
  <2>2. QED
    BY <1>3, <1>5, <1>7, <2>1, ConcatElement
<1>8. CASE l # x
  BY <1>1, <1>3, <1>6, <1>8
<1>9. QED
  BY <1>7, <1>8

LEMMA NamesQueued ==
    ASSUME NEW k, NEW len
    PROVE  /\ \A i \in DOMAIN sendQueues(k, len) :
                  sendQueues(k, len)[i] \in {"writeComplete", "highWaterMark"}
           /\ \A i \in DOMAIN writeQueues(k) : writeQueues(k)[i] \in {"writeComplete"}
<1> DEFINE S == {"writeComplete", "highWaterMark"}
<1>1. <<"writeComplete">> \in Seq(S) /\ <<"highWaterMark">> \in Seq(S) /\ << >> \in Seq(S)
  OBVIOUS
<1>2. \A s, t \in Seq(S) : s \o t \in Seq(S)
  OBVIOUS
<1>3. \A s \in Seq(S) : \A i \in DOMAIN s : s[i] \in S
  OBVIOUS
<1> HIDE DEF S
<1>4. sendQueues(k, len) \in Seq(S)
  BY <1>1, <1>2 DEF sendQueues
<1>5. \A i \in DOMAIN sendQueues(k, len) : sendQueues(k, len)[i] \in S
  BY <1>3, <1>4
<1>6. \A i \in DOMAIN writeQueues(k) : writeQueues(k)[i] \in {"writeComplete"}
  BY DEF writeQueues
<1>7. QED
  BY <1>5, <1>6 DEF S

\* removeConnection of a connection that is alive, in its own loop or in Base.
LEMMA QueueRemoved ==
    ASSUME TypeOK, FunctorsPlaced, Stable, NEW l \in Loops, NEW c \in Conns,
           Constructed(c), conn[c].up > 0,
           removeConnection(l, c) \/ removeConnectionInLoop(c)
    PROVE  QueueGood
<1>1. Base \in Loops /\ ioLoop[c] \in Loops
  BY DEF Loops, TypeOK
<1>2. conn'[c].state_ # "unborn" /\ conn'[c].up > 0 /\ ioLoop'[c] = ioLoop[c]
  BY DEF Stable, Constructed
<1>3. CASE removeConnectionInLoop(c)
  <2>1. PICK f \in Functors : f = Functor("connectDestroyed", c)
    BY FunctorType DEF SharedFns
  <2>2. GoodNext(ioLoop[c], f)
    BY <1>2, <2>1 DEF GoodNext, Functor
  <2>3. queue' = [queue EXCEPT ![ioLoop[c]] = Append(@, f)]
    BY <1>3, <2>1 DEF removeConnectionInLoop
  <2>4. QED
    BY <1>1, <2>2, <2>3, QueueAppended
<1>4. CASE queue' = [queue EXCEPT ![Base] = Append(@, Functor("removeConnectionInLoop", c))]
  <2>1. PICK f \in Functors : f = Functor("removeConnectionInLoop", c)
    BY FunctorType DEF SharedFns
  <2>2. GoodNext(Base, f)
    BY <1>2, <2>1 DEF GoodNext, Functor
  <2>3. QED
    BY <1>1, <1>4, <2>1, <2>2, QueueAppended
<1>5. QED
  BY <1>3, <1>4 DEF removeConnection

LEMMA FunctorsLoop ==
    ASSUME Types, Placed, Stable, NEW l \in Loops, LoopStep(l) \/ Message(l)
    PROVE  QueueGood /\ BatchGood
<1>1. TypeOK /\ FunctorsPlaced
  BY DEF Types, Placed
<1>2. CASE UNCHANGED <<queue, batch>>
  BY <1>1, <1>2, QueueSame, BatchSame
<1>3. CASE BeginPending(l)
  <2>1. /\ queue' = [queue EXCEPT ![l] = << >>] /\ batch' = [batch EXCEPT ![l] = queue[l]]
        /\ queue \in [Loops -> Seq(Functors)] /\ batch \in [Loops -> Seq(Functors)]
    BY <1>1, <1>3 DEF BeginPending, TypeOK
  <2>2. ASSUME NEW m \in Loops, NEW q \in {queue[m], batch[m]}, NEW i \in DOMAIN q
        PROVE  GoodNext(m, q[i])
    <3>1. q \in Seq(Functors)
      BY <2>1
    <3>2. q[i] \in Functors
      BY <3>1
    <3>3. Good(m, q[i])
      BY <1>1 DEF FunctorsPlaced
    <3>4. QED
      BY <3>2, <3>3, GoodKept
  <2>3. QueueGood
    BY <2>1, <2>2 DEF QueueGood
  <2>4. BatchGood
    BY <2>1, <2>2 DEF BatchGood
  <2>5. QED
    BY <2>3, <2>4
<1>4. CASE EndPending(l)
  <2>1. /\ queue' = queue /\ batch' = [batch EXCEPT ![l] = << >>]
        /\ batch \in [Loops -> Seq(Functors)]
    BY <1>1, <1>4 DEF EndPending, TypeOK
  <2>2. ASSUME NEW m \in Loops, NEW i \in DOMAIN batch[m] PROVE GoodNext(m, batch[m][i])
    <3>1. batch[m] \in Seq(Functors)
      BY <2>1
    <3>2. batch[m][i] \in Functors
      BY <3>1
    <3>3. Good(m, batch[m][i])
      BY <1>1 DEF FunctorsPlaced
    <3>4. QED
      BY <3>2, <3>3, GoodKept
  <2>3. BatchGood
    BY <2>1, <2>2 DEF BatchGood
  <2>4. QED
    BY <1>1, <2>1, <2>3, QueueSame
<1>5. CASE HandleClose(l) \/ HandleReadEnd(l)
  <2>1. Handles(l) /\ removeConnection(l, cur[l]) /\ batch' = batch
    BY <1>5 DEF HandleClose, HandleReadEnd, Callback, Handles
  <2>2. cur[l] \in Conns /\ Constructed(cur[l]) /\ conn[cur[l]].up > 0
    BY <2>1, HeldAlive DEF Alive
  <2>3. QED
    BY <1>1, <2>1, <2>2, QueueRemoved, BatchSame
<1>6. CASE HandleWrite(l)
  <2>1. Handles(l) /\ queueNames(l, cur[l], writeQueues(conn[cur[l]])) /\ batch' = batch
    BY <1>6 DEF HandleWrite, Callback, Handles
  <2>2. cur[l] \in Conns /\ Constructed(cur[l]) /\ conn[cur[l]].up > 0 /\ ioLoop[cur[l]] = l
    BY <2>1, HeldAlive DEF Alive
  <2>3. PICK names \in Seq(SharedFns) :
            /\ names = writeQueues(conn[cur[l]])
            /\ \A i \in DOMAIN names : names[i] # "removeConnectionInLoop"
    BY QueuedNames, NamesQueued
  <2>4. QED
    BY <1>1, <2>1, <2>2, <2>3, QueueNamed, BatchSame
<1>7. ASSUME NEW len \in SendLens, MessageSends(l, len) PROVE QueueGood /\ BatchGood
  <2>1. Handles(l) /\ queueNames(l, cur[l], sendQueues(conn[cur[l]], len)) /\ batch' = batch
    BY <1>7 DEF MessageSends, Handles, loopVars
  <2>2. cur[l] \in Conns /\ Constructed(cur[l]) /\ conn[cur[l]].up > 0 /\ ioLoop[cur[l]] = l
    BY <2>1, HeldAlive DEF Alive
  <2>3. PICK names \in Seq(SharedFns) :
            /\ names = sendQueues(conn[cur[l]], len)
            /\ \A i \in DOMAIN names : names[i] # "removeConnectionInLoop"
    BY QueuedNames, NamesQueued
  <2>4. QED
    BY <1>1, <2>1, <2>2, <2>3, QueueNamed, BatchSame
<1>8. CASE RunSendInLoop(l)
  <2>1. /\ Running(l, "sendInLoop") /\ batch' = batch
        /\ queueNames(l, Target(l), sendQueues(conn[Target(l)], batch[l][pos[l]].len))
    BY <1>8 DEF RunSendInLoop, Running
  <2>2. Target(l) \in Conns /\ Constructed(Target(l)) /\ conn[Target(l)].up > 0
        /\ ioLoop[Target(l)] = l
    BY <2>1, HeldAlive DEF Alive
  <2>3. PICK names \in Seq(SharedFns) :
            /\ names = sendQueues(conn[Target(l)], batch[l][pos[l]].len)
            /\ \A i \in DOMAIN names : names[i] # "removeConnectionInLoop"
    BY QueuedNames, NamesQueued
  <2>4. QED
    BY <1>1, <2>1, <2>2, <2>3, QueueNamed, BatchSame
<1>9. CASE RunRemoveConnection(l)
  <2>1. /\ Running(l, "removeConnectionInLoop") /\ batch' = batch
        /\ removeConnectionInLoop(Target(l))
    BY <1>9 DEF RunRemoveConnection, Running
  <2>2. Target(l) \in Conns /\ Constructed(Target(l)) /\ conn[Target(l)].up > 0
    BY <2>1, HeldAlive DEF Alive
  <2>3. QED
    BY <1>1, <2>1, <2>2, QueueRemoved, BatchSame
<1>10. CASE \/ Poll(l) \/ EventHandled(l) \/ MessageReturns(l) \/ MessageShutsDown(l)
            \/ \E a \in active[l] : HandleEvent(l, a[1], a[2])
  BY <1>2, <1>10 DEF Poll, EventHandled, MessageReturns, MessageShutsDown, HandleEvent, loopVars
<1>11. CASE \/ HandleError(l) \/ HandleReadMessage(l) \/ HandleReadError(l)
            \/ RunConnectEstablished(l) \/ RunConnectDestroyed(l)
            \/ RunShutdownInLoop(l) \/ RunUserCallback(l)
  BY <1>2, <1>11 DEF HandleError, HandleReadMessage, HandleReadError, RunConnectEstablished,
        RunConnectDestroyed, RunShutdownInLoop, RunUserCallback, Callback, Running
<1>12. QED
  BY <1>3, <1>4, <1>5, <1>6, <1>7, <1>8, <1>9, <1>10, <1>11 DEF LoopStep, Message

LEMMA FunctorsUser ==
    ASSUME Types, Placed, Stable, NEW u \in UserThreads, User(u)
    PROVE  QueueGood /\ BatchGood
<1>1. TypeOK /\ FunctorsPlaced
  BY DEF Types, Placed
<1>2. CASE UNCHANGED <<queue, batch>>
  BY <1>1, <1>2, QueueSame, BatchSame
<1>3. ASSUME NEW pc, NEW f \in Functors, UserQueues(u, pc, f), pc # "idle", f.conn = userConn[u],
             f.fn # "removeConnectionInLoop"
      PROVE  QueueGood /\ BatchGood
  <2>1. PICK c : c = userConn[u]
    OBVIOUS
  <2>2. c \in Conns /\ Constructed(c) /\ conn[c].up > 0
    BY <1>3, <2>1, HeldAlive DEF Alive, UserQueues
  <2>3. ioLoop[c] \in Loops /\ conn'[c].state_ # "unborn" /\ conn'[c].up > 0 /\ ioLoop'[c] = ioLoop[c]
    BY <1>1, <2>2 DEF Stable, Constructed, TypeOK
  <2>4. GoodNext(ioLoop[c], f)
    BY <1>3, <2>1, <2>3 DEF GoodNext
  <2>5. queue' = [queue EXCEPT ![ioLoop[c]] = Append(@, f)] /\ batch' = batch
    BY <1>3, <2>1 DEF UserQueues, loopVars
  <2>6. QED
    BY <1>1, <2>3, <2>4, <2>5, QueueAppended, BatchSame
<1>4. ASSUME NEW len \in SendLens, UserSendQueues(u, len) PROVE QueueGood /\ BatchGood
  <2>1. userConn[u] \in Conns
    BY <1>4 DEF Types, Busy, UserSendQueues, UserQueues
  <2>2. PICK f \in Functors : f = [fn |-> "sendInLoop", conn |-> userConn[u], len |-> len]
    BY <2>1, FunctorType DEF RawFns
  <2>3. f.conn = userConn[u] /\ f.fn # "removeConnectionInLoop"
    BY <2>2
  <2>4. UserQueues(u, "sending", f)
    BY <1>4, <2>2 DEF UserSendQueues
  <2>5. QED
    BY <1>3, <2>3, <2>4
<1>5. CASE UserShutdownQueues(u)
  <2>1. userConn[u] \in Conns
    BY <1>5 DEF Types, Busy, UserShutdownQueues, UserQueues
  <2>2. PICK f \in Functors : f = Functor("shutdownInLoop", userConn[u])
    BY <2>1, FunctorType DEF RawFns
  <2>3. f.conn = userConn[u] /\ f.fn # "removeConnectionInLoop"
    BY <2>2 DEF Functor
  <2>4. UserQueues(u, "shut", f)
    BY <1>5, <2>2 DEF UserShutdownQueues
  <2>5. QED
    BY <1>3, <2>3, <2>4
<1>6. QED
  BY <1>2, <1>4, <1>5 DEF User, UserSend, UserShutdown, UserTests, UserSetsState, loopVars

LEMMA FunctorsAccept ==
    ASSUME Types, Placed, Stable, Accept
    PROVE  QueueGood /\ BatchGood
<1>1. TypeOK /\ FunctorsPlaced
  BY DEF Types, Placed
<1>2. CASE UNCHANGED <<queue, batch>>
  BY <1>1, <1>2, QueueSame, BatchSame
<1>3. ASSUME NEW c \in Conns, HandleAccept(c), getNextLoop # Base PROVE QueueGood /\ BatchGood
  <2>1. /\ ioLoop' = [ioLoop EXCEPT ![c] = getNextLoop]
        /\ conn' = [conn EXCEPT ![c] = [conn[c] EXCEPT !.state_ = "kConnecting"]]
        /\ queue' = [queue EXCEPT ![getNextLoop] = Append(@, Functor("connectEstablished", c))]
        /\ batch' = batch
    BY <1>3 DEF HandleAccept, newConnection
  <2>2. ioLoop'[c] = getNextLoop /\ conn'[c].state_ = "kConnecting"
    BY <1>1, <2>1 DEF TypeOK, ConnectionType
  <2>3. PICK f \in Functors : f = Functor("connectEstablished", c)
    BY FunctorType DEF SharedFns
  <2>4. GoodNext(getNextLoop, f)
    BY <2>2, <2>3 DEF GoodNext, Functor
  <2>5. getNextLoop \in Loops
    BY <1>1, NextLoop
  <2>6. QED
    BY <1>1, <2>1, <2>3, <2>4, <2>5, QueueAppended, BatchSame
<1>4. QED
  BY <1>2, <1>3 DEF Accept, HandleAccept, HandleAcceptFails, newConnection

LEMMA FunctorsNext ==
    ASSUME Types, Placed, [Next]_vars
    PROVE  FunctorsPlaced'
<1>1. Stable
  BY StepStable
<1>2. ASSUME UNCHANGED <<queue, batch>> PROVE QueueGood /\ BatchGood
  BY <1>1, <1>2, QueueSame, BatchSame DEF Types, Placed
<1>3. ASSUME UNCHANGED vars PROVE QueueGood /\ BatchGood
  BY <1>2, <1>3 DEF vars, loopVars
<1>4. ASSUME NEW c \in Conns, Client(c) PROVE QueueGood /\ BatchGood
  BY <1>2, <1>4 DEF Client, ClientConnects, ClientSends, ClientReads, ClientCloses, ClientResets,
                    loopVars
<1>5. QueueGood /\ BatchGood
  BY <1>1, <1>3, <1>4, KnownUsers, FunctorsLoop, FunctorsUser, FunctorsAccept DEF Next, Types
<1>6. QED
  BY <1>5 DEF QueueGood, BatchGood, GoodNext, FunctorsPlaced, Good, Constructed

\* A loop has active channels from poll() only, and handles those.
ActiveStep(l) ==
    \/ active'[l] \subseteq active[l]
    \/ Poll(l) /\ active'[l] = Ready(l)

CurStep(l) ==
    Handles(l)' =>
        \/ Handles(l) /\ cur'[l] = cur[l]
        \/ \E a \in active[l] : a[1] # Acceptor /\ cur'[l] = a[1]

LEMMA LoopHands ==
    ASSUME Types, [Next]_vars, NEW l \in Loops
    PROVE  ActiveStep(l) /\ CurStep(l)
<1>1. /\ phase \in [Loops -> {"poll", "handle", "event", "message", "pending"}]
      /\ active \in [Loops -> SUBSET ((Conns \cup {Acceptor}) \X SUBSET Revents)]
      /\ cur \in [Loops -> Conns \cup {Acceptor}]
  BY DEF Types, TypeOK
<1>2. CASE UNCHANGED <<phase, active, cur>>
  BY <1>2 DEF ActiveStep, CurStep, Handles
<1>3. CASE UNCHANGED loopVars
  BY <1>2, <1>3 DEF loopVars
<1>4. CASE UNCHANGED vars
  BY <1>3, <1>4 DEF vars
<1>5. CASE \E c \in Conns : Client(c)
  BY <1>3, <1>5 DEF Client, ClientConnects, ClientSends, ClientReads, ClientCloses, ClientResets
<1>6. CASE \E u \in users : User(u)
  BY <1>3, <1>6 DEF User, UserSend, UserShutdown, UserTests, UserSendQueues, UserShutdownQueues,
                    UserQueues, UserSetsState
<1>7. CASE Accept
  BY <1>1, <1>7 DEF Accept, HandleAccept, HandleAcceptFails, ActiveStep, CurStep, Handles
<1>8. CASE \E m \in Loops : Message(m)
  BY <1>3, <1>8 DEF Message, MessageShutsDown, MessageSends
<1>9. ASSUME NEW m \in Loops, LoopStep(m) PROVE ActiveStep(l) /\ CurStep(l)
  <2>1. CASE Poll(m)
    <3>1. CASE l = m
      BY <1>1, <2>1, <3>1 DEF Poll, ActiveStep, CurStep, Handles
    <3>2. CASE l # m
      BY <1>1, <2>1, <3>2 DEF Poll, ActiveStep, CurStep, Handles
    <3>3. QED
      BY <3>1, <3>2
  <2>2. CASE EventHandled(m) \/ MessageReturns(m)
    BY <1>1, <2>2 DEF EventHandled, MessageReturns, ActiveStep, CurStep, Handles
  <2>3. CASE BeginPending(m) \/ EndPending(m)
    BY <1>1, <2>3 DEF BeginPending, EndPending, ActiveStep, CurStep, Handles
  <2>4. ASSUME NEW a \in active[m], HandleEvent(m, a[1], a[2]) PROVE ActiveStep(l) /\ CurStep(l)
    BY <1>1, <2>4 DEF HandleEvent, ActiveStep, CurStep, Handles
  <2>5. CASE HandleReadMessage(m)
    BY <1>1, <2>5 DEF HandleReadMessage, Callback, ActiveStep, CurStep, Handles
  <2>6. CASE \/ HandleClose(m) \/ HandleError(m) \/ HandleWrite(m) \/ HandleReadEnd(m)
             \/ HandleReadError(m)
    BY <1>2, <2>6 DEF HandleClose, HandleError, HandleWrite, HandleReadEnd, HandleReadError, Callback
  <2>7. CASE \/ RunConnectEstablished(m) \/ RunRemoveConnection(m) \/ RunConnectDestroyed(m)
             \/ RunSendInLoop(m) \/ RunShutdownInLoop(m) \/ RunUserCallback(m)
    BY <1>2, <2>7 DEF RunConnectEstablished, RunRemoveConnection, RunConnectDestroyed,
          RunSendInLoop, RunShutdownInLoop, RunUserCallback, Running
  <2>8. QED
    BY <1>9, <2>1, <2>2, <2>3, <2>4, <2>5, <2>6, <2>7 DEF LoopStep
<1>10. QED
  BY <1>4, <1>5, <1>6, <1>7, <1>8, <1>9 DEF Next

\* poll() returns channels of the loop that are in the epoll set.
LEMMA ReadyConns ==
    ASSUME Types, Placed, NEW l \in Loops, NEW a \in Ready(l), a[1] # Acceptor
    PROVE  /\ a[1] \in Conns /\ ioLoop[a[1]] = l /\ conn[a[1]].channel_.registered
           /\ conn[a[1]].up > 0
           /\ a = <<a[1], revents(conn[a[1]])>>
<1>1. PICK c \in Conns : a = <<c, revents(conn[c])>> /\ ioLoop[c] = l /\ revents(conn[c]) # {}
  BY DEF Ready
<1>2. conn[c].channel_.registered
  BY <1>1 DEF revents
<1>3. InStep(conn[c].channel_) /\ conn[c].up \in Nat
  BY SoundConn, ConnFields DEF ConnInv
<1>4. conn[c].up > 0
  BY <1>2, <1>3 DEF InStep, Placed, ConnPlaced
<1>5. QED
  BY <1>1, <1>2, <1>4

LEMMA HandsNext ==
    ASSUME Types, Placed, [Next]_vars
    PROVE  ActivePlaced' /\ CurPlaced'
<1>1. Stable /\ ActivePlaced /\ CurPlaced
  BY StepStable DEF Placed
<1>2. ASSUME NEW c \in Conns, NEW l \in Loops, ioLoop[c] = l, conn[c].up > 0
      PROVE  ioLoop'[c] = l /\ conn'[c].up > 0
  BY <1>1, <1>2 DEF Stable, Placed, ConnPlaced
<1>3. ASSUME NEW l \in Loops, NEW a \in active[l], a[1] # Acceptor
      PROVE  a[1] \in Conns /\ ioLoop[a[1]] = l /\ conn[a[1]].up > 0
  <2>1. a[1] \in Conns
    BY <1>3 DEF Types, TypeOK
  <2>2. QED
    BY <1>1, <1>3, <2>1 DEF ActivePlaced
<1>4. ASSUME NEW l \in Loops, NEW a \in active'[l], a[1] # Acceptor
      PROVE  ioLoop'[a[1]] = l /\ conn'[a[1]].up > 0
  <2>1. ActiveStep(l)
    BY LoopHands
  <2>2. a[1] \in Conns /\ ioLoop[a[1]] = l /\ conn[a[1]].up > 0
    BY <1>3, <1>4, <2>1, ReadyConns DEF ActiveStep
  <2>3. QED
    BY <1>2, <2>2
<1>5. ASSUME NEW l \in Loops, Handles(l)'
      PROVE  ioLoop'[cur'[l]] = l /\ conn'[cur'[l]].up > 0
  <2>1. CurStep(l)
    BY LoopHands
  <2>2. CASE Handles(l) /\ cur'[l] = cur[l]
    <3>1. cur[l] \in Conns /\ ioLoop[cur[l]] = l /\ conn[cur[l]].up > 0
      BY <2>2, HeldAlive DEF Alive
    <3>2. QED
      BY <1>2, <2>2, <3>1
  <2>3. CASE \E a \in active[l] : a[1] # Acceptor /\ cur'[l] = a[1]
    BY <1>2, <1>3, <2>3
  <2>4. QED
    BY <1>5, <2>1, <2>2, <2>3 DEF CurStep
<1>6. QED
  BY <1>4, <1>5 DEF ActivePlaced, CurPlaced

\* Only user threads change their variables, and none of them the set of
\* threads that are given connections.
LEMMA UserStep ==
    ASSUME TypeOK, [Next]_vars
    PROVE  users' = users /\ (UNCHANGED userVars \/ \E u \in UserThreads : User(u))
<1>1. CASE UNCHANGED userVars
  BY <1>1 DEF userVars
<1>2. ASSUME NEW u \in users, User(u)
      PROVE  users' = users /\ \E v \in UserThreads : User(v)
  <2>1. users' = users
    BY <1>2 DEF User, UserSend, UserShutdown, UserTests, UserSendQueues, UserShutdownQueues,
                UserQueues, UserSetsState
  <2>2. QED
    BY <1>2, <2>1, KnownUsers
<1>3. CASE UNCHANGED vars
  BY <1>1, <1>3 DEF vars
<1>4. CASE \E c \in Conns : Client(c)
  BY <1>1, <1>4 DEF Client, ClientConnects, ClientSends, ClientReads, ClientCloses, ClientResets
<1>5. CASE Accept
  BY <1>1, <1>5 DEF Accept, HandleAccept, HandleAcceptFails
<1>6. CASE \E l \in Loops : Message(l)
  BY <1>1, <1>6 DEF Message, MessageShutsDown, MessageSends
<1>7. ASSUME NEW l \in Loops, LoopStep(l)
      PROVE  UNCHANGED userVars
  <2>1. CASE \/ Poll(l) \/ EventHandled(l) \/ BeginPending(l) \/ EndPending(l)
             \/ MessageReturns(l) \/ \E a \in active[l] : HandleEvent(l, a[1], a[2])
    BY <2>1 DEF Poll, EventHandled, BeginPending, EndPending, MessageReturns, HandleEvent
  <2>2. CASE (\E name : Callback(l, name)) \/ (\E fn : Running(l, fn))
    BY <2>2 DEF Callback, Running
  <2>3. QED
    BY <1>7, <2>1, <2>2 DEF LoopStep, HandleClose, HandleError, HandleWrite, HandleReadMessage,
          HandleReadEnd, HandleReadError, RunConnectEstablished, RunRemoveConnection,
          RunConnectDestroyed, RunSendInLoop, RunShutdownInLoop, RunUserCallback
<1>8. QED
  BY <1>1, <1>2, <1>3, <1>4, <1>5, <1>6, <1>7 DEF Next

LEMMA UsersNext ==
    ASSUME Types, Placed, [Next]_vars
    PROVE  UsersPlaced'
<1>1. Stable /\ UsersPlaced
  BY StepStable DEF Placed
<1>2. ASSUME NEW u \in UserThreads, userPc'[u] # "idle"
      PROVE  \E c \in Conns : userConn'[u] = c /\ conn[c].up > 0
  <2>1. /\ userPc \in [UserThreads -> {"idle", "sending", "shutting", "shut"}]
        /\ userConn \in [UserThreads -> Conns \cup {Acceptor}]
    BY DEF Types, TypeOK
  <2>2. userPc[u] # "idle" => userConn[u] \in Conns /\ conn[userConn[u]].up > 0
    BY <1>1 DEF UsersPlaced, Types, Busy
  <2>3. CASE UNCHANGED userVars
    BY <1>2, <2>2, <2>3 DEF userVars
  <2>4. ASSUME NEW v \in UserThreads, User(v)
        PROVE  \E c \in Conns : userConn'[u] = c /\ conn[c].up > 0
    <3>1. ASSUME NEW c \in Conns, UserSend(v, c) \/ UserShutdown(v, c)
          PROVE  \E d \in Conns : userConn'[u] = d /\ conn[d].up > 0
      BY <1>2, <2>1, <2>2, <3>1 DEF UserSend, UserShutdown, UserTests, UserHolds
    <3>2. CASE UserSetsState(v)
      BY <1>2, <2>1, <2>2, <3>2 DEF UserSetsState
    <3>3. ASSUME NEW pc, NEW f, UserQueues(v, pc, f)
          PROVE  \E d \in Conns : userConn'[u] = d /\ conn[d].up > 0
      BY <1>2, <2>1, <2>2, <3>3 DEF UserQueues
    <3>4. QED
      BY <2>4, <3>1, <3>2, <3>3 DEF User, UserSendQueues, UserShutdownQueues
  <2>5. QED
    BY <2>3, <2>4, UserStep DEF Types
<1>3. ASSUME NEW u \in UserThreads, userPc'[u] # "idle" PROVE conn'[userConn'[u]].up > 0
  <2>1. PICK c \in Conns : userConn'[u] = c /\ conn[c].up > 0
    BY <1>2, <1>3
  <2>2. QED
    BY <1>1, <2>1 DEF Stable
<1>4. QED
  BY <1>3 DEF UsersPlaced

LEMMA PlacedInit ==
    ASSUME Init
    PROVE  Placed
<1>1. ActivePlaced /\ CurPlaced /\ FunctorsPlaced /\ UsersPlaced
  BY DEF Init, ActivePlaced, CurPlaced, FunctorsPlaced, UsersPlaced, Handles
<1>2. ASSUME NEW c \in Conns PROVE ConnPlaced(c)
  <2>1. conn[c] = Unborn /\ connections_ = {} /\ backlog = {}
    BY DEF Init
  <2>2. QED
    BY <2>1 DEF ConnPlaced, Constructed, Unborn, NewChannel
<1>3. QED
  BY <1>1, <1>2 DEF Placed

LEMMA PlacedAlways == Spec => [](Types /\ Placed)
<1>1. Init => Types /\ Placed
  BY TypesInit, PlacedInit
<1>2. Types /\ Placed /\ [Next]_vars => Types' /\ Placed'
  <2>1. SUFFICES ASSUME Types, Placed, [Next]_vars PROVE Types' /\ Placed'
    OBVIOUS
  <2>2. Types'
    BY <2>1, TypesNext
  <2>3. ActivePlaced' /\ CurPlaced' /\ FunctorsPlaced' /\ UsersPlaced'
    BY <2>1, HandsNext, FunctorsNext, UsersNext
  <2>4. \A c \in Conns : ConnPlaced(c)'
    BY <2>1, ConnPlacedNext
  <2>5. QED
    BY <2>2, <2>3, <2>4 DEF Placed
<1>3. QED
  BY <1>1, <1>2, PTL DEF Spec

(***************************************************************************)
(* For any number of loops, connections and user threads: what a loop has  *)
(* active, handles or has queued belongs to it, since the Acceptor picks   *)
(* the loop before anything else knows the connection and removeConnection *)
(* goes through the base loop and back (TcpServer.cpp:56-126).             *)
(***************************************************************************)
THEOREM AlwaysOneLoopPerConnection == Spec => []OneLoopPerConnection
<1>1. Types /\ Placed => OneLoopPerConnection
  BY DEF Placed, ActivePlaced, CurPlaced, FunctorsPlaced, Handles, Good, OneLoopPerConnection
<1>2. QED
  BY <1>1, PlacedAlways, PTL

-----------------------------------------------------------------------------
(* The work of a loop: the functors of its queue q, and those of the       *)
(* vector b from p on, which still have to run.                            *)

Matches(f, fn, c) == f.fn = fn /\ f.conn = c

NoWork(q, b, p, fn, c) ==
    /\ \A i \in DOMAIN q : ~Matches(q[i], fn, c)
    /\ \A i \in DOMAIN b : i >= p => ~Matches(b[i], fn, c)

OneWork(q, b, p, fn, c) ==
    /\ \A i, j \in DOMAIN q : Matches(q[i], fn, c) /\ Matches(q[j], fn, c) => i = j
    /\ \A i, j \in DOMAIN b :
           i >= p /\ j >= p /\ Matches(b[i], fn, c) /\ Matches(b[j], fn, c) => i = j
    /\ \A i \in DOMAIN q, j \in DOMAIN b :
           j >= p => ~(Matches(q[i], fn, c) /\ Matches(b[j], fn, c))

\* Functor fn of connection c is neither added nor taken.
WorkKept(q, b, p, q2, b2, p2, fn, c) ==
    /\ NoWork(q, b, p, fn, c) <=> NoWork(q2, b2, p2, fn, c)
    /\ OneWork(q, b, p, fn, c) => OneWork(q2, b2, p2, fn, c)

LEMMA NoneIsAtMostOne ==
    ASSUME NEW q, NEW b, NEW p, NEW fn, NEW c, NoWork(q, b, p, fn, c)
    PROVE  OneWork(q, b, p, fn, c)
BY DEF NoWork, OneWork

LEMMA WorkAppend ==
    ASSUME NEW q \in Seq(Functors), NEW b, NEW p, NEW f \in Functors, NEW fn, NEW c
    PROVE  /\ ~Matches(f, fn, c) => WorkKept(q, b, p, Append(q, f), b, p, fn, c)
           /\ Matches(f, fn, c) /\ NoWork(q, b, p, fn, c) =>
                  OneWork(Append(q, f), b, p, fn, c) /\ ~NoWork(Append(q, f), b, p, fn, c)
<1>1. PICK q2 : q2 = Append(q, f)
  OBVIOUS
<1>2. PICK n : n = Len(q) + 1
  OBVIOUS
<1>3. /\ DOMAIN q2 = DOMAIN q \cup {n} /\ n \notin DOMAIN q /\ q2[n] = f
      /\ \A i \in DOMAIN q : q2[i] = q[i]
  BY <1>1, <1>2
<1>4. ~Matches(f, fn, c) => WorkKept(q, b, p, q2, b, p, fn, c)
  <2>1. SUFFICES ASSUME ~Matches(f, fn, c) PROVE WorkKept(q, b, p, q2, b, p, fn, c)
    OBVIOUS
  <2>2. NoWork(q, b, p, fn, c) <=> NoWork(q2, b, p, fn, c)
    BY <1>3, <2>1 DEF NoWork
  <2>3. ASSUME OneWork(q, b, p, fn, c) PROVE OneWork(q2, b, p, fn, c)
    BY <1>3, <2>1, <2>3 DEF OneWork
  <2>4. QED
    BY <2>2, <2>3 DEF WorkKept
<1>5. Matches(f, fn, c) /\ NoWork(q, b, p, fn, c) =>
          OneWork(q2, b, p, fn, c) /\ ~NoWork(q2, b, p, fn, c)
  BY <1>3 DEF NoWork, OneWork
<1>6. QED
  BY <1>1, <1>4, <1>5

LEMMA WorkConcat ==
    ASSUME NEW q \in Seq(Functors), NEW b, NEW p, NEW s \in Seq(Functors), NEW fn, NEW c,
           \A j \in DOMAIN s : ~Matches(s[j], fn, c)
    PROVE  WorkKept(q, b, p, q \o s, b, p, fn, c)
<1>1. PICK q2 : q2 = q \o s
  OBVIOUS
<1>2. \A i \in DOMAIN q : i \in DOMAIN q2 /\ q2[i] = q[i]
  BY <1>1
<1>3. \A i \in DOMAIN q2 : Matches(q2[i], fn, c) => i \in DOMAIN q /\ q2[i] = q[i]
  BY <1>1, ConcatElement
<1>4. NoWork(q, b, p, fn, c) <=> NoWork(q2, b, p, fn, c)
  BY <1>2, <1>3 DEF NoWork
<1>5. ASSUME OneWork(q, b, p, fn, c) PROVE OneWork(q2, b, p, fn, c)
  BY <1>2, <1>3, <1>5 DEF OneWork
<1>6. QED
  BY <1>1, <1>4, <1>5 DEF WorkKept

LEMMA WorkBegin ==
    ASSUME NEW q \in Seq(Functors), NEW p, NEW fn, NEW c
    PROVE  WorkKept(q, << >>, p, << >>, q, 1, fn, c)
<1>1. \A i \in DOMAIN q : i >= 1
  OBVIOUS
<1>2. DOMAIN << >> = {}
  OBVIOUS
<1>3. NoWork(q, << >>, p, fn, c) <=> NoWork(<< >>, q, 1, fn, c)
  BY <1>1, <1>2 DEF NoWork
<1>4. OneWork(q, << >>, p, fn, c) => OneWork(<< >>, q, 1, fn, c)
  BY <1>1, <1>2 DEF OneWork
<1>5. QED
  BY <1>3, <1>4 DEF WorkKept

LEMMA WorkEnd ==
    ASSUME NEW q \in Seq(Functors), NEW b \in Seq(Functors), NEW p \in Nat, p > Len(b),
           NEW fn, NEW c
    PROVE  WorkKept(q, b, p, q, << >>, 1, fn, c)
<1>1. \A i \in DOMAIN b : ~(i >= p)
  OBVIOUS
<1>2. DOMAIN << >> = {}
  OBVIOUS
<1>3. NoWork(q, b, p, fn, c) <=> NoWork(q, << >>, 1, fn, c)
  BY <1>1, <1>2 DEF NoWork
<1>4. OneWork(q, b, p, fn, c) => OneWork(q, << >>, 1, fn, c)
  BY <1>1, <1>2 DEF OneWork
<1>5. QED
  BY <1>3, <1>4 DEF WorkKept

LEMMA WorkRun ==
    ASSUME NEW q, NEW b \in Seq(Functors), NEW p \in DOMAIN b, NEW fn, NEW c
    PROVE  /\ ~Matches(b[p], fn, c) => WorkKept(q, b, p, q, b, p + 1, fn, c)
           /\ Matches(b[p], fn, c) /\ OneWork(q, b, p, fn, c) => NoWork(q, b, p + 1, fn, c)
<1>1. \A i \in DOMAIN b : i >= p <=> (i = p \/ i >= p + 1)
  OBVIOUS
<1>2. ~(p >= p + 1) /\ p >= p
  OBVIOUS
<1>3. PICK r : r = p + 1
  OBVIOUS
<1>4. ASSUME ~Matches(b[p], fn, c) PROVE WorkKept(q, b, p, q, b, r, fn, c)
  <2>1. NoWork(q, b, p, fn, c) <=> NoWork(q, b, r, fn, c)
    BY <1>1, <1>3, <1>4 DEF NoWork
  <2>2. OneWork(q, b, p, fn, c) => OneWork(q, b, r, fn, c)
    BY <1>1, <1>3, <1>4 DEF OneWork
  <2>3. QED
    BY <2>1, <2>2 DEF WorkKept
<1>5. ASSUME Matches(b[p], fn, c), OneWork(q, b, p, fn, c) PROVE NoWork(q, b, r, fn, c)
  BY <1>1, <1>2, <1>3, <1>5 DEF NoWork, OneWork
<1>6. QED
  BY <1>3, <1>4, <1>5

-----------------------------------------------------------------------------
(* A server whose connections are used by their loops only.                *)

LifeFns == {"connectEstablished", "removeConnectionInLoop", "connectDestroyed"}

\* The callbacks that may end a connection.
Ends == {"close", "read"}

NoEnd(s) == \A i \in DOMAIN s : s[i] \notin Ends

OneEnd(s) == \A i, j \in DOMAIN s : s[i] \in Ends /\ s[j] \in Ends => i = j

\* A channel is active once, and at most one callback of it ends the connection.
TidyHands(l) ==
    /\ \A a, b \in active[l] : a[1] = b[1] => a = b
    /\ Handles(l) => \A a \in active[l] : a[1] # cur[l]
    /\ OneEnd(todo[l])
    /\ phase[l] = "message" => NoEnd(todo[l])

\* Nobody but the loops queues functors.
Shared(q) == \A i \in DOMAIN q : q[i].fn \in SharedFns

TidyWork(l) ==
    /\ phase[l] # "pending" => batch[l] = << >>
    /\ Shared(queue[l])
    /\ Shared(batch[l])

Tidy == \A l \in Loops : TidyHands(l) /\ TidyWork(l)

\* No loop has anything in hand that ends connection c.
Quiet(c) ==
    \A l \in Loops :
        /\ \A a \in active[l] : a[1] # c
        /\ Handles(l) /\ cur[l] = c => phase[l] = "event" /\ NoEnd(todo[l])

Nothing(l, fn, c) == NoWork(queue[l], batch[l], pos[l], fn, c)

AtMostOne(l, fn, c) == OneWork(queue[l], batch[l], pos[l], fn, c)

Open(k) ==
    /\ "EPOLLIN" \in k.channel_.events_
    /\ k.channel_.index_ = "kAdded"
    /\ k.state_ \in {"kConnected", "kDisconnecting"}

Closed(k) ==
    /\ k.channel_.events_ = {}
    /\ k.channel_.index_ # "kAdded"
    /\ k.state_ = "kDisconnected"

(* The stages of a connection: until connectEstablished has run, until its *)
(* close, and after it.  In the last one removeConnectionInLoop and then   *)
(* connectDestroyed are still to run.                                      *)

Early(c) ==
    /\ conn[c].up = 0
    /\ AtMostOne(ioLoop[c], "connectEstablished", c)

Up(c) ==
    /\ conn[c].up = 1 /\ conn[c].down = 0 /\ Open(conn[c])
    /\ c \in connections_
    /\ Nothing(ioLoop[c], "connectEstablished", c)
    /\ Nothing(Base, "removeConnectionInLoop", c)
    /\ Nothing(ioLoop[c], "connectDestroyed", c)

Listed(c) ==
    /\ c \in connections_
    /\ AtMostOne(Base, "removeConnectionInLoop", c)
    /\ Nothing(ioLoop[c], "connectDestroyed", c)

Removed(c) ==
    /\ c \notin connections_
    /\ Nothing(Base, "removeConnectionInLoop", c)
    /\ \/ /\ AtMostOne(ioLoop[c], "connectDestroyed", c)
          /\ ~Nothing(ioLoop[c], "connectDestroyed", c)
       \/ /\ Nothing(ioLoop[c], "connectDestroyed", c)
          /\ conn[c].channel_.index_ = "kNew"

Down(c) ==
    /\ conn[c].up = 1 /\ conn[c].down = 1 /\ Closed(conn[c])
    /\ Quiet(c)
    /\ Nothing(ioLoop[c], "connectEstablished", c)
    /\ Listed(c) \/ Removed(c)

Stage(c) == Early(c) \/ Up(c) \/ Down(c)

\* send() is refused once SHUT_WR is done.
Refuses(k) == k.shutWr => k.state_ # "kConnected"

Staged == \A c \in Conns : Stage(c) /\ Refuses(conn[c])

-----------------------------------------------------------------------------
(* What a method leaves of the stage of its connection.                    *)

Kept(k, k2) ==
    /\ k2.up = k.up /\ k2.down = k.down
    /\ Open(k) => Open(k2)
    /\ Closed(k) => Closed(k2) /\ k2.channel_.index_ = k.channel_.index_
    /\ Refuses(k) => Refuses(k2)
    /\ Refuses(k) /\ k.shutWr => k2.sent = k.sent

LEMMA CalmKept ==
    ASSUME NEW k, NEW k2, Calm(k, k2)
    PROVE  Kept(k, k2)
BY DEF Calm, Plain, Kept, Open, Closed, Refuses

\* An event less or more, of a channel that stays in the epoll set.
LEMMA ChannelStaysAdded ==
    ASSUME NEW ch \in ChannelType, InStep(ch), ch.index_ = "kAdded", "EPOLLIN" \in ch.events_,
           NEW ch2 \in {ch, enableWriting(ch), disableWriting(ch)}
    PROVE  ch2.index_ = "kAdded" /\ "EPOLLIN" \in ch2.events_
<1>1. ASSUME NEW E \in SUBSET Events, "EPOLLIN" \in E
      PROVE  LET new == updateChannel([ch EXCEPT !.events_ = E])
             IN  new.index_ = "kAdded" /\ "EPOLLIN" \in new.events_
  <2>1. PICK ch1 : ch1 = [ch EXCEPT !.events_ = E]
    OBVIOUS
  <2>2. ch1 \in ChannelType /\ ch1.index_ = "kAdded" /\ ch1.events_ = E
    BY <2>1 DEF ChannelType
  <2>3. updateChannel(ch1) = epollMod(ch1)
    BY <1>1, <2>2 DEF updateChannel, isNoneEvent
  <2>4. updateChannel(ch1).index_ = "kAdded" /\ updateChannel(ch1).events_ = E
    BY <2>2, <2>3 DEF epollMod, ChannelType
  <2>5. QED
    BY <1>1, <2>1, <2>4
<1>2. /\ ch.events_ \cup {"EPOLLOUT"} \in SUBSET Events /\ ch.events_ \ {"EPOLLOUT"} \in SUBSET Events
      /\ "EPOLLIN" \in ch.events_ \cup {"EPOLLOUT"} /\ "EPOLLIN" \in ch.events_ \ {"EPOLLOUT"}
  BY DEF ChannelType, Events
<1>3. enableWriting(ch).index_ = "kAdded" /\ "EPOLLIN" \in enableWriting(ch).events_
  BY <1>1, <1>2 DEF enableWriting
<1>4. disableWriting(ch).index_ = "kAdded" /\ "EPOLLIN" \in disableWriting(ch).events_
  BY <1>1, <1>2 DEF disableWriting
<1>5. QED
  BY <1>3, <1>4

LEMMA SendKept ==
    ASSUME NEW k, ConnInv(k), NEW len \in Nat, k.state_ = "kConnected"
    PROVE  Kept(k, sendInLoop(k, len))
<1>1. PICK k2 : k2 = sendInLoop(k, len)
  OBVIOUS
<1>2. PICK n \in Nat, r \in Nat : SendStep(k, len, k2, n, r)
  BY <1>1, SendFields
<1>3. /\ k2.state_ = k.state_ /\ k2.up = k.up /\ k2.down = k.down /\ k2.shutWr = k.shutWr
      /\ k2.channel_ \in {k.channel_, enableWriting(k.channel_), disableWriting(k.channel_)}
  BY <1>2 DEF SendStep
<1>4. k.channel_ \in ChannelType /\ InStep(k.channel_)
  BY ConnFields DEF ConnInv
<1>5. Open(k) => Open(k2)
  BY <1>3, <1>4, ChannelStaysAdded DEF Open
<1>6. ~Closed(k) /\ (Refuses(k) => Refuses(k2)) /\ (Refuses(k) => ~k.shutWr)
  BY <1>3 DEF Closed, Refuses
<1>7. QED
  BY <1>1, <1>3, <1>5, <1>6 DEF Kept

LEMMA ShutdownKept ==
    ASSUME NEW k, ConnInv(k), NEW k1, k1 = [k EXCEPT !.state_ = "kDisconnecting"],
           k.state_ = "kConnected"
    PROVE  Kept(k, shutdownInLoop(k1))
<1>1. PICK k2 : k2 = shutdownInLoop(k1)
  OBVIOUS
<1>2. k \in ConnectionType
  BY DEF ConnInv
<1>3. /\ k2.state_ = "kDisconnecting" /\ k2.up = k.up /\ k2.down = k.down
      /\ k2.channel_ = k.channel_ /\ k2.sent = k.sent
  BY <1>1, <1>2 DEF shutdownInLoop, ConnectionType
<1>4. QED
  BY <1>1, <1>3 DEF Kept, Open, Closed, Refuses

LEMMA WriteKept ==
    ASSUME NEW k, ConnInv(k)
    PROVE  Kept(k, handleWrite(k))
<1>1. PICK k2 : k2 = handleWrite(k)
  OBVIOUS
<1>2. /\ k2.state_ = k.state_ /\ k2.up = k.up /\ k2.down = k.down /\ k2.sent = k.sent
      /\ k2.channel_ \in {k.channel_, disableWriting(k.channel_)}
      /\ k2.shutWr = k.shutWr \/ k.state_ = "kDisconnecting"
      /\ ~isWriting(k.channel_) => k2 = k
  BY <1>1, WriteInv
<1>3. k.channel_ \in ChannelType /\ InStep(k.channel_)
  BY ConnFields DEF ConnInv
<1>4. Open(k) => Open(k2)
  BY <1>2, <1>3, ChannelStaysAdded DEF Open
<1>5. Closed(k) => k2 = k
  BY <1>2 DEF Closed, isWriting
<1>6. Refuses(k) => Refuses(k2)
  BY <1>2 DEF Refuses
<1>7. QED
  BY <1>1, <1>2, <1>4, <1>5, <1>6 DEF Kept

\* connectEstablished opens, handleClose closes, connectDestroyed removes.
LEMMA EstablishedOpens ==
    ASSUME NEW k, ConnInv(k), k.up = 0, k.down = 0, ~k.shutWr
    PROVE  LET k2 == connectEstablished(k)
           IN  k2.up = 1 /\ k2.down = 0 /\ Open(k2) /\ Refuses(k2) /\ k2.sent = k.sent
<1>1. PICK k2 : k2 = connectEstablished(k)
  OBVIOUS
<1>2. /\ k2.state_ = "kConnected" /\ k2.channel_ = enableReading(k.channel_)
      /\ k2.up = k.up + 1 /\ k2.down = k.down /\ k2.shutWr = k.shutWr /\ k2.sent = k.sent
  BY <1>1, EstablishedFields
<1>3. PICK ch \in ChannelType : ch = k.channel_ /\ InStep(ch)
  BY ConnFields DEF ConnInv
<1>4. enableReading(ch).index_ = "kAdded" /\ enableReading(ch).events_ = ch.events_ \cup {"EPOLLIN"}
  <2>1. PICK ch1 : ch1 = [ch EXCEPT !.events_ = @ \cup {"EPOLLIN"}]
    OBVIOUS
  <2>2. ch1 \in ChannelType /\ ch1.events_ = ch.events_ \cup {"EPOLLIN"} /\ ~isNoneEvent(ch1)
    BY <2>1 DEF ChannelType, isNoneEvent, Events
  <2>3. updateChannel(ch1).index_ = "kAdded" /\ updateChannel(ch1).events_ = ch1.events_
    BY <2>2 DEF updateChannel, epollAdd, epollMod, ChannelType
  <2>4. QED
    BY <2>1, <2>2, <2>3 DEF enableReading
<1>5. Open(k2) /\ Refuses(k2)
  BY <1>2, <1>3, <1>4 DEF Open, Refuses
<1>6. QED
  BY <1>1, <1>2, <1>5

LEMMA CloseCloses ==
    ASSUME NEW k, ConnInv(k), Open(k), k.up = 1, k.down = 0
    PROVE  LET k2 == handleClose(k)
           IN  k2.up = 1 /\ k2.down = 1 /\ Closed(k2) /\ Refuses(k2) /\ k2.sent = k.sent
<1>1. PICK k2 : k2 = handleClose(k)
  OBVIOUS
<1>2. /\ k2.state_ = "kDisconnected" /\ k2.channel_ = disableAll(k.channel_)
      /\ k2.up = k.up /\ k2.down = k.down + 1 /\ k2.sent = k.sent
  BY <1>1, CloseFields
<1>3. PICK ch \in ChannelType : ch = k.channel_ /\ ch.index_ = "kAdded"
  BY ConnFields DEF ConnInv, Open
<1>4. disableAll(ch).index_ = "kDeleted" /\ disableAll(ch).events_ = {}
  <2>1. PICK ch1 : ch1 = [ch EXCEPT !.events_ = {}]
    OBVIOUS
  <2>2. ch1 \in ChannelType /\ ch1.events_ = {} /\ isNoneEvent(ch1) /\ ch1.index_ = "kAdded"
    BY <1>3, <2>1 DEF ChannelType, isNoneEvent
  <2>3. updateChannel(ch1).index_ = "kDeleted" /\ updateChannel(ch1).events_ = {}
    BY <2>2 DEF updateChannel, epollDel, ChannelType
  <2>4. QED
    BY <2>1, <2>3 DEF disableAll
<1>5. Closed(k2) /\ Refuses(k2)
  BY <1>2, <1>3, <1>4 DEF Closed, Refuses
<1>6. QED
  BY <1>1, <1>2, <1>5

LEMMA DestroyedRemoves ==
    ASSUME NEW k, ConnInv(k), Closed(k)
    PROVE  LET k2 == connectDestroyed(k)
           IN  /\ k2.up = k.up /\ k2.down = k.down /\ Closed(k2) /\ Refuses(k2)
               /\ k2.channel_.index_ = "kNew" /\ k2.sent = k.sent
<1>1. PICK k2 : k2 = connectDestroyed(k)
  OBVIOUS
<1>2. k.state_ # "kConnected" /\ k.channel_.events_ = {} /\ k.state_ = "kDisconnected"
  BY DEF Closed
<1>3. /\ k2.state_ = "kDisconnected" /\ k2.channel_ = removeChannel(k.channel_)
      /\ k2.up = k.up /\ k2.down = k.down /\ k2.sent = k.sent
  BY <1>1, <1>2, DestroyedFields
<1>4. k.channel_ \in ChannelType /\ InStep(k.channel_)
  BY ConnFields DEF ConnInv
<1>5. k2.channel_.index_ = "kNew" /\ k2.channel_.events_ = {}
  BY <1>2, <1>3, <1>4, RemoveChannel
<1>6. Closed(k2) /\ Refuses(k2)
  BY <1>3, <1>5 DEF Closed, Refuses
<1>7. QED
  BY <1>1, <1>3, <1>5, <1>6

-----------------------------------------------------------------------------
(* What a step does to the hands of a loop.                                *)

\* Loop l goes on with the channel it handles, or does not handle any.
GoesOn(l) ==
    /\ active'[l] \subseteq active[l]
    /\ Handles(l)' => Handles(l) /\ cur'[l] = cur[l]
    /\ \/ todo'[l] = todo[l] /\ (phase'[l] = "message" => phase[l] = "message")
       \/ /\ phase[l] = "event" /\ todo[l] # << >> /\ todo'[l] = Tail(todo[l])
          /\ phase'[l] = "message" => Head(todo[l]) \in Ends

Polls(l) ==
    /\ active'[l] = Ready(l)
    /\ todo'[l] = todo[l]
    /\ ~Handles(l)'

Begins(l) ==
    \E a \in active[l] :
        /\ a[1] # Acceptor
        /\ active'[l] = active[l] \ {a}
        /\ phase'[l] = "event"
        /\ cur'[l] = a[1]
        /\ todo'[l] = callbacks(a[2])

HandStep(l) == GoesOn(l) \/ Polls(l) \/ Begins(l)

LEMMA HandsStep ==
    ASSUME Types, [Next]_vars, NEW l \in Loops
    PROVE  HandStep(l)
<1>1. /\ phase \in [Loops -> {"poll", "handle", "event", "message", "pending"}]
      /\ active \in [Loops -> SUBSET ((Conns \cup {Acceptor}) \X SUBSET Revents)]
      /\ cur \in [Loops -> Conns \cup {Acceptor}]
      /\ todo \in [Loops -> Seq({"close", "error", "read", "write"})]
  BY DEF Types, TypeOK
<1>2. CASE UNCHANGED <<phase, active, cur, todo>>
  BY <1>2 DEF HandStep, GoesOn, Handles
<1>3. CASE UNCHANGED loopVars
  BY <1>2, <1>3 DEF loopVars
<1>4. CASE UNCHANGED vars
  BY <1>3, <1>4 DEF vars
<1>5. CASE \E c \in Conns : Client(c)
  BY <1>3, <1>5 DEF Client, ClientConnects, ClientSends, ClientReads, ClientCloses, ClientResets
<1>6. CASE \E u \in users : User(u)
  BY <1>3, <1>6 DEF User, UserSend, UserShutdown, UserTests, UserSendQueues, UserShutdownQueues,
                    UserQueues, UserSetsState
<1>7. CASE Accept
  <2>1. active'[l] \subseteq active[l] /\ UNCHANGED <<phase, cur, todo>>
    BY <1>1, <1>7 DEF Accept, HandleAccept, HandleAcceptFails
  <2>2. QED
    BY <2>1 DEF HandStep, GoesOn, Handles
<1>8. CASE \E m \in Loops : Message(m)
  BY <1>3, <1>8 DEF Message, MessageShutsDown, MessageSends
<1>9. ASSUME NEW m \in Loops, LoopStep(m) PROVE HandStep(l)
  <2>1. CASE l # m
    <3>1. /\ phase'[l] = phase[l] /\ active'[l] = active[l] /\ cur'[l] = cur[l]
          /\ todo'[l] = todo[l]
      <4>1. CASE \/ Poll(m) \/ EventHandled(m) \/ MessageReturns(m)
                 \/ BeginPending(m) \/ EndPending(m)
        BY <1>1, <2>1, <4>1 DEF Poll, EventHandled, MessageReturns, BeginPending, EndPending
      <4>2. ASSUME NEW a \in active[m], HandleEvent(m, a[1], a[2])
            PROVE  /\ phase'[l] = phase[l] /\ active'[l] = active[l] /\ cur'[l] = cur[l]
                   /\ todo'[l] = todo[l]
        BY <1>1, <2>1, <4>2 DEF HandleEvent
      <4>3. CASE \/ HandleClose(m) \/ HandleError(m) \/ HandleWrite(m) \/ HandleReadEnd(m)
                 \/ HandleReadError(m) \/ HandleReadMessage(m)
        BY <1>1, <2>1, <4>3 DEF HandleClose, HandleError, HandleWrite, HandleReadEnd,
              HandleReadError, HandleReadMessage, Callback
      <4>4. CASE \E fn : Running(m, fn)
        BY <4>4 DEF Running
      <4>5. QED
        BY <1>9, <4>1, <4>2, <4>3, <4>4 DEF LoopStep, RunConnectEstablished, RunRemoveConnection,
              RunConnectDestroyed, RunSendInLoop, RunShutdownInLoop, RunUserCallback
    <3>2. QED
      BY <3>1 DEF HandStep, GoesOn, Handles
  <2>2. CASE l = m
    <3>1. CASE Poll(l)
      BY <1>1, <3>1 DEF Poll, HandStep, Polls, Handles
    <3>2. CASE EventHandled(l) \/ MessageReturns(l) \/ BeginPending(l) \/ EndPending(l)
      BY <1>1, <3>2 DEF EventHandled, MessageReturns, BeginPending, EndPending, HandStep, GoesOn,
                        Handles
    <3>3. ASSUME NEW a \in active[l], HandleEvent(l, a[1], a[2]) PROVE HandStep(l)
      <4>1. a = <<a[1], a[2]>>
        BY <1>1
      <4>2. Begins(l)
        BY <1>1, <3>3, <4>1 DEF HandleEvent, Begins
      <4>3. QED
        BY <4>2 DEF HandStep
    <3>4. CASE \/ HandleClose(l) \/ HandleError(l) \/ HandleWrite(l) \/ HandleReadEnd(l)
               \/ HandleReadError(l) \/ HandleReadMessage(l)
      <4>1. /\ phase[l] = "event" /\ todo[l] # << >> /\ todo'[l] = Tail(todo[l])
            /\ active'[l] = active[l] /\ cur'[l] = cur[l]
            /\ phase'[l] = "message" => Head(todo[l]) \in Ends
        BY <1>1, <3>4 DEF HandleClose, HandleError, HandleWrite, HandleReadEnd, HandleReadError,
                          HandleReadMessage, Callback, Ends
      <4>2. QED
        BY <4>1 DEF HandStep, GoesOn, Handles
    <3>5. CASE \E fn : Running(l, fn)
      BY <1>2, <3>5 DEF Running
    <3>6. QED
      BY <1>9, <2>2, <3>1, <3>2, <3>3, <3>4, <3>5 DEF LoopStep, RunConnectEstablished,
            RunRemoveConnection, RunConnectDestroyed, RunSendInLoop, RunShutdownInLoop,
            RunUserCallback
  <2>3. QED
    BY <2>1, <2>2
<1>10. QED
  BY <1>4, <1>5, <1>6, <1>7, <1>8, <1>9 DEF Next

LEMMA TailElement ==
    ASSUME NEW S, NEW s \in Seq(S), s # << >>
    PROVE  /\ \A i \in DOMAIN Tail(s) : i + 1 \in DOMAIN s /\ i + 1 # 1 /\ Tail(s)[i] = s[i + 1]
           /\ 1 \in DOMAIN s /\ Head(s) = s[1]
           /\ \A i, j \in DOMAIN Tail(s) : i + 1 = j + 1 => i = j
OBVIOUS

LEMMA TailEnds ==
    ASSUME NEW S, NEW s \in Seq(S), s # << >>
    PROVE  /\ OneEnd(s) => OneEnd(Tail(s))
           /\ NoEnd(s) => NoEnd(Tail(s)) /\ Head(s) \notin Ends
           /\ OneEnd(s) /\ Head(s) \in Ends => NoEnd(Tail(s))
<1>1. PICK t : t = Tail(s)
  OBVIOUS
<1>2. /\ \A i \in DOMAIN t : i + 1 \in DOMAIN s /\ i + 1 # 1 /\ t[i] = s[i + 1]
      /\ 1 \in DOMAIN s /\ Head(s) = s[1]
      /\ \A i, j \in DOMAIN t : i + 1 = j + 1 => i = j
  BY <1>1, TailElement
<1>3. OneEnd(s) => OneEnd(t)
  BY <1>2 DEF OneEnd
<1>4. NoEnd(s) => NoEnd(t) /\ Head(s) \notin Ends
  BY <1>2 DEF NoEnd
<1>5. OneEnd(s) /\ Head(s) \in Ends => NoEnd(t)
  BY <1>2 DEF OneEnd, NoEnd
<1>6. QED
  BY <1>1, <1>3, <1>4, <1>5

\* handleEventWithGuard calls close or read, never both.
LEMMA CallbacksEnd ==
    ASSUME NEW revs
    PROVE  OneEnd(callbacks(revs))
<1> DEFINE A == IF "EPOLLHUP" \in revs /\ "EPOLLIN" \notin revs THEN <<"close">> ELSE << >>
           B == IF "EPOLLERR" \in revs THEN <<"error">> ELSE << >>
           C == IF "EPOLLIN" \in revs THEN <<"read">> ELSE << >>
           D == IF "EPOLLOUT" \in revs THEN <<"write">> ELSE << >>
<1>1. callbacks(revs) = A \o B \o C \o D
  BY DEF callbacks
<1>2. CASE "EPOLLIN" \in revs
  <2>1. callbacks(revs) = B \o <<"read">> \o D
    BY <1>1, <1>2
  <2>2. /\ B = << >> \/ B = <<"error">>
        /\ D = << >> \/ D = <<"write">>
    OBVIOUS
  <2>3. QED
    BY <2>1, <2>2 DEF OneEnd, Ends
<1>3. CASE "EPOLLIN" \notin revs
  <2>1. callbacks(revs) = A \o B \o D
    BY <1>1, <1>3
  <2>2. /\ A = << >> \/ A = <<"close">>
        /\ B = << >> \/ B = <<"error">>
        /\ D = << >> \/ D = <<"write">>
    OBVIOUS
  <2>3. QED
    BY <2>1, <2>2 DEF OneEnd, Ends
<1>4. QED
  BY <1>2, <1>3

LEMMA TidyHandsNext ==
    ASSUME Types, Placed, [Next]_vars, NEW l \in Loops, TidyHands(l)
    PROVE  TidyHands(l)'
<1>1. todo[l] \in Seq({"close", "error", "read", "write"})
  BY DEF Types, TypeOK
<1>2. CASE GoesOn(l)
  <2>1. \A a, b \in active'[l] : a[1] = b[1] => a = b
    BY <1>2 DEF GoesOn, TidyHands
  <2>2. Handles(l)' => \A a \in active'[l] : a[1] # cur'[l]
    BY <1>2 DEF GoesOn, TidyHands
  <2>3. OneEnd(todo'[l]) /\ (phase'[l] = "message" => NoEnd(todo'[l]))
    BY <1>1, <1>2, TailEnds DEF GoesOn, TidyHands
  <2>4. QED
    BY <2>1, <2>2, <2>3 DEF TidyHands
<1>3. CASE Polls(l)
  <2>1. \A a, b \in Ready(l) : a[1] = b[1] => a = b
    <3>1. \A a \in Ready(l) : a[1] = Acceptor => a = <<Acceptor, {"EPOLLIN"}>>
      BY AcceptorAssumption DEF Ready
    <3>2. ASSUME NEW a \in Ready(l), a[1] # Acceptor PROVE a = <<a[1], revents(conn[a[1]])>>
      BY <3>2, ReadyConns
    <3>3. ASSUME NEW a \in Ready(l), NEW b \in Ready(l), a[1] = b[1] PROVE a = b
      <4>1. CASE a[1] = Acceptor
        BY <3>1, <3>3, <4>1
      <4>2. CASE a[1] # Acceptor
        <5>1. PICK x, y : x = a[1] /\ y = revents(conn[x])
          OBVIOUS
        <5>2. a = <<x, y>> /\ b = <<x, y>>
          BY <3>2, <3>3, <4>2, <5>1
        <5>3. QED
          BY <5>2
      <4>3. QED
        BY <4>1, <4>2
    <3>4. QED
      BY <3>3
  <2>2. QED
    BY <1>3, <2>1 DEF Polls, TidyHands, Handles
<1>4. CASE Begins(l)
  <2>1. PICK a \in active[l] : /\ active'[l] = active[l] \ {a} /\ phase'[l] = "event"
                               /\ cur'[l] = a[1] /\ todo'[l] = callbacks(a[2])
    BY <1>4 DEF Begins
  <2>2. OneEnd(todo'[l])
    BY <2>1, CallbacksEnd
  <2>3. QED
    BY <2>1, <2>2 DEF TidyHands, Handles
<1>5. QED
  BY <1>2, <1>3, <1>4, HandsStep DEF HandStep

\* What is closed stays quiet: poll() does not return its channel any more.
LEMMA QuietNext ==
    ASSUME Types, Placed, [Next]_vars, NEW c \in Conns, Quiet(c), conn[c].channel_.index_ # "kAdded"
    PROVE  Quiet(c)'
<1>1. SUFFICES ASSUME NEW l \in Loops
               PROVE  /\ \A a \in active'[l] : a[1] # c
                      /\ Handles(l)' /\ cur'[l] = c => phase'[l] = "event" /\ NoEnd(todo'[l])
  BY DEF Quiet
<1>2. /\ \A a \in active[l] : a[1] # c
      /\ Handles(l) /\ cur[l] = c => phase[l] = "event" /\ NoEnd(todo[l])
  BY DEF Quiet
<1>3. todo[l] \in Seq({"close", "error", "read", "write"})
  BY DEF Types, TypeOK
<1>4. CASE GoesOn(l)
  BY <1>2, <1>3, <1>4, TailEnds DEF GoesOn, Handles
<1>5. CASE Polls(l)
  <2>1. ~conn[c].channel_.registered
    BY SoundConn DEF ConnInv, InStep
  <2>2. c # Acceptor
    BY AcceptorAssumption
  <2>3. \A a \in Ready(l) : a[1] # c
    BY <2>1, <2>2, ReadyConns
  <2>4. QED
    BY <1>5, <2>3 DEF Polls
<1>6. CASE Begins(l)
  BY <1>2, <1>6 DEF Begins
<1>7. QED
  BY <1>4, <1>5, <1>6, HandsStep DEF HandStep

-----------------------------------------------------------------------------
(* What a step does to the work of the loops.                              *)

SameWork(l, fn, c) ==
    WorkKept(queue[l], batch[l], pos[l], queue'[l], batch'[l], pos'[l], fn, c)

WorkSame(c) == \A l \in Loops : \A fn \in LifeFns : SameWork(l, fn, c)

\* A step that queues at most one functor, not fn of c ...
QueuesOther(fn, c) ==
    \/ queue' = queue
    \/ \E x \in Loops, f \in Functors :
           queue' = [queue EXCEPT ![x] = Append(@, f)] /\ ~Matches(f, fn, c)

\* ... and runs at most one functor, not fn of c.
RunsOther(fn, c) ==
    /\ batch' = batch
    /\ \/ pos' = pos
       \/ \E m \in Loops :
              /\ pos[m] \in DOMAIN batch[m]
              /\ pos' = [pos EXCEPT ![m] = @ + 1]
              /\ ~Matches(batch[m][pos[m]], fn, c)

LEMMA WorkRefl ==
    ASSUME NEW q, NEW b, NEW p, NEW fn, NEW c
    PROVE  WorkKept(q, b, p, q, b, p, fn, c)
BY DEF WorkKept

LEMMA WorkTrans ==
    ASSUME NEW q, NEW b, NEW p, NEW q2, NEW b2, NEW p2, NEW q3, NEW b3, NEW p3, NEW fn, NEW c,
           WorkKept(q, b, p, q2, b2, p2, fn, c), WorkKept(q2, b2, p2, q3, b3, p3, fn, c)
    PROVE  WorkKept(q, b, p, q3, b3, p3, fn, c)
BY DEF WorkKept

LEMMA QueuesWork ==
    ASSUME TypeOK, NEW fn, NEW c, QueuesOther(fn, c), NEW l \in Loops, NEW b, NEW p
    PROVE  WorkKept(queue[l], b, p, queue'[l], b, p, fn, c)
<1>1. CASE queue' = queue
  BY <1>1, WorkRefl
<1>2. ASSUME NEW x \in Loops, NEW f \in Functors, queue' = [queue EXCEPT ![x] = Append(@, f)],
             ~Matches(f, fn, c)
      PROVE  WorkKept(queue[l], b, p, queue'[l], b, p, fn, c)
  <2>1. PICK q \in Seq(Functors) : q = queue[l]
    BY DEF TypeOK
  <2>2. queue'[l] = IF l = x THEN Append(q, f) ELSE q
    BY <1>2, <2>1 DEF TypeOK
  <2>3. WorkKept(q, b, p, Append(q, f), b, p, fn, c)
    BY <1>2, WorkAppend
  <2>4. WorkKept(q, b, p, q, b, p, fn, c)
    BY WorkRefl
  <2>5. QED
    BY <2>1, <2>2, <2>3, <2>4
<1>3. QED
  BY <1>1, <1>2 DEF QueuesOther

LEMMA RunsWork ==
    ASSUME TypeOK, NEW fn, NEW c, RunsOther(fn, c), NEW l \in Loops, NEW q
    PROVE  WorkKept(q, batch[l], pos[l], q, batch'[l], pos'[l], fn, c)
<1>1. CASE batch' = batch /\ pos' = pos
  BY <1>1, WorkRefl
<1>2. ASSUME NEW m \in Loops, pos[m] \in DOMAIN batch[m], pos' = [pos EXCEPT ![m] = @ + 1],
             ~Matches(batch[m][pos[m]], fn, c), batch' = batch
      PROVE  WorkKept(q, batch[l], pos[l], q, batch'[l], pos'[l], fn, c)
  <2>1. PICK b \in Seq(Functors), p \in Nat : b = batch[l] /\ p = pos[l]
    BY DEF TypeOK
  <2>2. pos'[l] = IF l = m THEN p + 1 ELSE p
    BY <1>2, <2>1 DEF TypeOK
  <2>3. l = m => WorkKept(q, b, p, q, b, p + 1, fn, c)
    BY <1>2, <2>1, WorkRun
  <2>4. WorkKept(q, b, p, q, b, p, fn, c)
    BY WorkRefl
  <2>5. QED
    BY <1>2, <2>1, <2>2, <2>3, <2>4
<1>3. QED
  BY <1>1, <1>2 DEF RunsOther

LEMMA WorkStep ==
    ASSUME TypeOK, NEW fn, NEW c, QueuesOther(fn, c), RunsOther(fn, c), NEW l \in Loops
    PROVE  SameWork(l, fn, c)
<1>1. PICK q, b, p, q2, b2, p2 : /\ q = queue[l] /\ b = batch[l] /\ p = pos[l]
                                 /\ q2 = queue'[l] /\ b2 = batch'[l] /\ p2 = pos'[l]
  OBVIOUS
<1>2. WorkKept(q, b, p, q2, b, p, fn, c)
  BY <1>1, QueuesWork
<1>3. WorkKept(q2, b, p, q2, b2, p2, fn, c)
  BY <1>1, RunsWork
<1>4. WorkKept(q, b, p, q2, b2, p2, fn, c)
  BY <1>2, <1>3, WorkTrans
<1>5. QED
  BY <1>1, <1>4 DEF SameWork

\* A functor is queued that was not there before.
LEMMA WorkGained ==
    ASSUME TypeOK, NEW fn, NEW c, RunsOther(fn, c), NEW x \in Loops, NEW f \in Functors,
           Matches(f, fn, c), queue' = [queue EXCEPT ![x] = Append(@, f)], Nothing(x, fn, c)
    PROVE  AtMostOne(x, fn, c)' /\ ~Nothing(x, fn, c)'
<1>0. PICK b, p, b2, p2 : b = batch[x] /\ p = pos[x] /\ b2 = batch'[x] /\ p2 = pos'[x]
  OBVIOUS
<1>1. PICK q \in Seq(Functors) : q = queue[x]
  BY DEF TypeOK
<1>2. PICK q2 : q2 = Append(q, f)
  OBVIOUS
<1>3. queue'[x] = q2
  BY <1>1, <1>2 DEF TypeOK
<1>4. NoWork(q, b, p, fn, c)
  BY <1>0, <1>1 DEF Nothing
<1>5. OneWork(q2, b, p, fn, c) /\ ~NoWork(q2, b, p, fn, c)
  BY <1>2, <1>4, WorkAppend
<1>6. WorkKept(q2, b, p, q2, b2, p2, fn, c)
  BY <1>0, RunsWork
<1>7. OneWork(q2, b2, p2, fn, c) /\ ~NoWork(q2, b2, p2, fn, c)
  BY <1>5, <1>6 DEF WorkKept
<1>8. QED
  BY <1>0, <1>3, <1>7 DEF AtMostOne, Nothing

\* The only functor of its kind is run.
LEMMA WorkDone ==
    ASSUME TypeOK, NEW fn, NEW c, QueuesOther(fn, c), NEW l \in Loops, Running(l, fn),
           Target(l) = c, AtMostOne(l, fn, c)
    PROVE  Nothing(l, fn, c)' /\ ~Nothing(l, fn, c)
<1>0. PICK q2 : q2 = queue'[l]
  OBVIOUS
<1>1. PICK q \in Seq(Functors), b \in Seq(Functors), p \in Nat :
          q = queue[l] /\ b = batch[l] /\ p = pos[l]
  BY DEF TypeOK
<1>2. /\ p \in DOMAIN b /\ Matches(b[p], fn, c) /\ batch'[l] = b /\ pos'[l] = p + 1
      /\ p >= p
  BY <1>1, RunningFunctor DEF Running, Target, Matches, TypeOK
<1>3. OneWork(q, b, p, fn, c)
  BY <1>1 DEF AtMostOne
<1>4. NoWork(q, b, p + 1, fn, c)
  BY <1>2, <1>3, WorkRun
<1>5. PICK p2 : p2 = p + 1
  OBVIOUS
<1>6. WorkKept(q, b, p2, q2, b, p2, fn, c)
  BY <1>0, <1>1, QueuesWork
<1>7. NoWork(q2, b, p2, fn, c)
  BY <1>4, <1>5, <1>6 DEF WorkKept
<1>8. ~NoWork(q, b, p, fn, c)
  BY <1>2 DEF NoWork
<1>9. QED
  BY <1>0, <1>1, <1>2, <1>5, <1>7, <1>8 DEF Nothing

\* The callbacks of the user that a loop queues are not counted.
LEMMA WorkNamed ==
    ASSUME TypeOK, NEW x \in Loops, NEW d \in Conns, NEW names \in Seq(SharedFns),
           \A i \in DOMAIN names : names[i] \notin LifeFns, queueNames(x, d, names),
           UNCHANGED <<batch, pos>>, NEW c
    PROVE  WorkSame(c)
<1>1. SUFFICES ASSUME NEW l \in Loops, NEW fn \in LifeFns PROVE SameWork(l, fn, c)
  BY DEF WorkSame
<1>2. PICK q \in Seq(Functors), b \in Seq(Functors), p \in Nat :
          q = queue[l] /\ b = batch[l] /\ p = pos[l]
  BY DEF TypeOK
<1>3. PICK s \in Seq(Functors) : s = [j \in DOMAIN names |-> Functor(names[j], d)]
  BY QueueNamesType
<1>4. \A j \in DOMAIN s : ~Matches(s[j], fn, c)
  BY <1>3 DEF Functor, Matches
<1>5. queue'[l] = IF l = x THEN q \o s ELSE q
  BY <1>2, <1>3 DEF TypeOK, queueNames
<1>6. WorkKept(q, b, p, q \o s, b, p, fn, c)
  BY <1>4, WorkConcat
<1>7. WorkKept(q, b, p, q, b, p, fn, c)
  BY WorkRefl
<1>8. QED
  BY <1>2, <1>5, <1>6, <1>7 DEF SameWork

LEMMA WorkPending ==
    ASSUME TypeOK, NEW m \in Loops, TidyWork(m), BeginPending(m) \/ EndPending(m), NEW c
    PROVE  WorkSame(c)
<1>1. SUFFICES ASSUME NEW l \in Loops, NEW fn \in LifeFns PROVE SameWork(l, fn, c)
  BY DEF WorkSame
<1>2. PICK q \in Seq(Functors), b \in Seq(Functors), p \in Nat :
          q = queue[l] /\ b = batch[l] /\ p = pos[l]
  BY DEF TypeOK
<1>3. CASE l # m
  <2>1. queue'[l] = q /\ batch'[l] = b /\ pos'[l] = p
    BY <1>2, <1>3 DEF BeginPending, EndPending, TypeOK
  <2>2. QED
    BY <1>2, <2>1, WorkRefl DEF SameWork
<1>4. CASE l = m /\ BeginPending(m)
  <2>1. queue'[l] = << >> /\ batch'[l] = q /\ pos'[l] = 1 /\ b = << >>
    BY <1>2, <1>4 DEF BeginPending, TypeOK, TidyWork
  <2>2. WorkKept(q, << >>, p, << >>, q, 1, fn, c)
    BY WorkBegin
  <2>3. QED
    BY <1>2, <2>1, <2>2 DEF SameWork
<1>5. CASE l = m /\ EndPending(m)
  <2>1. queue'[l] = q /\ batch'[l] = << >> /\ pos'[l] = 1 /\ p > Len(b)
    BY <1>2, <1>5 DEF EndPending, TypeOK
  <2>2. WorkKept(q, b, p, q, << >>, 1, fn, c)
    BY <2>1, WorkEnd
  <2>3. QED
    BY <1>2, <2>1, <2>2 DEF SameWork
<1>6. QED
  BY <1>3, <1>4, <1>5

\* The three functors of a connection's life.
LEMMA LifeFunctor ==
    ASSUME NEW fn \in LifeFns, NEW c \in Conns
    PROVE  \E f \in Functors :
               f = Functor(fn, c) /\ f.fn = fn /\ f.conn = c /\ f.fn \in SharedFns
<1>1. fn \in SharedFns
  BY DEF LifeFns, SharedFns
<1>2. PICK f \in Functors : f = Functor(fn, c)
  BY <1>1, FunctorType
<1>3. f.fn = fn /\ f.conn = c
  BY <1>2 DEF Functor
<1>4. QED
  BY <1>1, <1>2, <1>3

LEMMA SharedAppend ==
    ASSUME TypeOK, NEW x \in Loops, NEW f \in Functors, f.fn \in SharedFns,
           queue' = [queue EXCEPT ![x] = Append(@, f)], NEW l \in Loops, Shared(queue[l])
    PROVE  Shared(queue'[l])
<1>1. PICK q \in Seq(Functors) : q = queue[l] /\ Shared(q)
  BY DEF TypeOK
<1>2. queue'[l] = IF l = x THEN Append(q, f) ELSE q
  BY <1>1 DEF TypeOK
<1>3. Shared(Append(q, f))
  BY <1>1, QueueElement DEF Shared
<1>4. QED
  BY <1>1, <1>2, <1>3

LEMMA SharedNamed ==
    ASSUME TypeOK, NEW x \in Loops, NEW d \in Conns, NEW names \in Seq(SharedFns),
           queueNames(x, d, names), NEW l \in Loops, Shared(queue[l])
    PROVE  Shared(queue'[l])
<1>1. PICK q \in Seq(Functors) : q = queue[l] /\ Shared(q)
  BY DEF TypeOK
<1>2. PICK s \in Seq(Functors) : s = [j \in DOMAIN names |-> Functor(names[j], d)]
  BY QueueNamesType
<1>3. \A j \in DOMAIN names : names[j] \in SharedFns
  OBVIOUS
<1>4. Shared(s)
  BY <1>2, <1>3 DEF Functor, Shared
<1>5. queue'[l] = IF l = x THEN q \o s ELSE q
  BY <1>1, <1>2 DEF TypeOK, queueNames
<1>6. Shared(q \o s)
  BY <1>1, <1>4, ConcatElement DEF Shared
<1>7. QED
  BY <1>1, <1>5, <1>6

LEMMA SharedRemove ==
    ASSUME TypeOK, NEW x, NEW d \in Conns, removeConnection(x, d) \/ removeConnectionInLoop(d),
           NEW l \in Loops, Shared(queue[l])
    PROVE  Shared(queue'[l])
<1>1. Base \in Loops /\ ioLoop[d] \in Loops
  BY DEF Loops, TypeOK
<1>2. CASE removeConnectionInLoop(d)
  <2>1. PICK f \in Functors : f = Functor("connectDestroyed", d) /\ f.fn \in SharedFns
    BY LifeFunctor DEF LifeFns
  <2>2. queue' = [queue EXCEPT ![ioLoop[d]] = Append(@, f)]
    BY <1>2, <2>1 DEF removeConnectionInLoop
  <2>3. QED
    BY <1>1, <2>1, <2>2, SharedAppend
<1>3. CASE queue' = [queue EXCEPT ![Base] = Append(@, Functor("removeConnectionInLoop", d))]
  <2>1. PICK f \in Functors : f = Functor("removeConnectionInLoop", d) /\ f.fn \in SharedFns
    BY LifeFunctor DEF LifeFns
  <2>2. QED
    BY <1>1, <1>3, <2>1, SharedAppend
<1>4. QED
  BY <1>2, <1>3 DEF removeConnection

\* A functor that runs is not one of a user thread's.
LEMMA RunsShared ==
    ASSUME Types, Tidy, NEW l \in Loops
    PROVE  ~RunSendInLoop(l) /\ ~RunShutdownInLoop(l)
<1>1. SUFFICES ASSUME NEW fn \in RawFns, Running(l, fn) PROVE FALSE
  BY DEF RunSendInLoop, RunShutdownInLoop, RawFns
<1>2. pos[l] \in DOMAIN batch[l] /\ batch[l][pos[l]].fn = fn
  BY <1>1, RunningFunctor DEF Types
<1>3. fn \in SharedFns
  BY <1>2 DEF Tidy, TidyWork, Shared
<1>4. QED
  BY <1>1, <1>3 DEF SharedFns, RawFns

LEMMA TidyWorkLoop ==
    ASSUME Types, Placed, Tidy, NEW m \in Loops, LoopStep(m) \/ Message(m), NEW l \in Loops
    PROVE  TidyWork(l)'
<1>1. TypeOK /\ TidyWork(l)
  BY DEF Types, Tidy
<1>2. /\ phase \in [Loops -> {"poll", "handle", "event", "message", "pending"}]
      /\ queue \in [Loops -> Seq(Functors)] /\ batch \in [Loops -> Seq(Functors)]
  BY <1>1 DEF TypeOK
<1>3. CASE BeginPending(m)
  <2>1. /\ queue'[l] = IF l = m THEN << >> ELSE queue[l]
        /\ batch'[l] = IF l = m THEN queue[l] ELSE batch[l]
        /\ phase'[l] = IF l = m THEN "pending" ELSE phase[l]
    BY <1>2, <1>3 DEF BeginPending
  <2>2. Shared(<< >>)
    BY DEF Shared
  <2>3. QED
    BY <1>1, <2>1, <2>2 DEF TidyWork
<1>4. CASE EndPending(m)
  <2>1. /\ queue'[l] = queue[l]
        /\ batch'[l] = IF l = m THEN << >> ELSE batch[l]
        /\ phase'[l] = IF l = m THEN "poll" ELSE phase[l]
    BY <1>2, <1>4 DEF EndPending
  <2>2. Shared(<< >>)
    BY DEF Shared
  <2>3. QED
    BY <1>1, <2>1, <2>2 DEF TidyWork
<1>5. ASSUME batch' = batch, Shared(queue'[l]), phase'[l] = "pending" <=> phase[l] = "pending"
      PROVE  TidyWork(l)'
  BY <1>1, <1>5 DEF TidyWork
<1>6. CASE UNCHANGED <<queue, batch, phase>>
  BY <1>1, <1>5, <1>6 DEF TidyWork
<1>7. CASE Poll(m) \/ EventHandled(m) \/ MessageReturns(m) \/ HandleReadMessage(m)
  <2>1. queue' = queue /\ batch' = batch /\ (phase'[l] = "pending" <=> phase[l] = "pending")
    BY <1>2, <1>7 DEF Poll, EventHandled, MessageReturns, HandleReadMessage, Callback
  <2>2. QED
    BY <1>1, <1>5, <2>1 DEF TidyWork
<1>8. ASSUME NEW a \in active[m], HandleEvent(m, a[1], a[2]) PROVE TidyWork(l)'
  <2>1. queue' = queue /\ batch' = batch /\ (phase'[l] = "pending" <=> phase[l] = "pending")
    BY <1>2, <1>8 DEF HandleEvent
  <2>2. QED
    BY <1>1, <1>5, <2>1 DEF TidyWork
<1>9. CASE HandleClose(m) \/ HandleReadEnd(m)
  <2>1. Handles(m) /\ removeConnection(m, cur[m]) /\ batch' = batch /\ phase' = phase
    BY <1>9 DEF HandleClose, HandleReadEnd, Callback, Handles
  <2>2. cur[m] \in Conns
    BY <2>1, HeldAlive
  <2>3. Shared(queue'[l])
    BY <1>1, <2>1, <2>2, SharedRemove DEF TidyWork
  <2>4. QED
    BY <1>5, <2>1, <2>3
<1>10. CASE HandleWrite(m)
  <2>1. /\ Handles(m) /\ queueNames(m, cur[m], writeQueues(conn[cur[m]]))
        /\ batch' = batch /\ phase' = phase
    BY <1>10 DEF HandleWrite, Callback, Handles
  <2>2. cur[m] \in Conns
    BY <2>1, HeldAlive
  <2>3. Shared(queue'[l])
    BY <1>1, <2>1, <2>2, SharedNamed, QueuedNames DEF TidyWork
  <2>4. QED
    BY <1>5, <2>1, <2>3
<1>11. ASSUME NEW len \in SendLens, MessageSends(m, len) PROVE TidyWork(l)'
  <2>1. /\ Handles(m) /\ queueNames(m, cur[m], sendQueues(conn[cur[m]], len))
        /\ batch' = batch /\ phase' = phase
    BY <1>11 DEF MessageSends, Handles, loopVars
  <2>2. cur[m] \in Conns
    BY <2>1, HeldAlive
  <2>3. Shared(queue'[l])
    BY <1>1, <2>1, <2>2, SharedNamed, QueuedNames DEF TidyWork
  <2>4. QED
    BY <1>5, <2>1, <2>3
<1>12. CASE RunRemoveConnection(m)
  <2>1. /\ Running(m, "removeConnectionInLoop") /\ removeConnectionInLoop(Target(m))
        /\ batch' = batch /\ phase' = phase
    BY <1>12 DEF RunRemoveConnection, Running
  <2>2. Target(m) \in Conns
    BY <1>1, <2>1, RunningFunctor
  <2>3. Shared(queue'[l])
    BY <1>1, <2>1, <2>2, SharedRemove DEF TidyWork
  <2>4. QED
    BY <1>5, <2>1, <2>3
<1>13. CASE \/ HandleError(m) \/ HandleReadError(m) \/ MessageShutsDown(m)
            \/ RunConnectEstablished(m) \/ RunConnectDestroyed(m) \/ RunUserCallback(m)
  BY <1>6, <1>13 DEF HandleError, HandleReadError, MessageShutsDown, RunConnectEstablished,
        RunConnectDestroyed, RunUserCallback, Callback, Running, loopVars
<1>14. ~RunSendInLoop(m) /\ ~RunShutdownInLoop(m)
  BY RunsShared
<1>15. QED
  BY <1>3, <1>4, <1>7, <1>8, <1>9, <1>10, <1>11, <1>12, <1>13, <1>14 DEF LoopStep, Message

LEMMA TidyNext ==
    ASSUME Types, Placed, Tidy, users = {}, [Next]_vars
    PROVE  Tidy'
<1>1. TypeOK
  BY DEF Types
<1>2. SUFFICES ASSUME NEW l \in Loops PROVE TidyHands(l)' /\ TidyWork(l)'
  BY DEF Tidy
<1>3. TidyHands(l)'
  BY TidyHandsNext DEF Tidy
<1>4. TidyWork(l)
  BY DEF Tidy
<1>5. CASE UNCHANGED <<queue, batch, phase>>
  BY <1>3, <1>4, <1>5 DEF TidyWork
<1>6. CASE UNCHANGED vars
  BY <1>5, <1>6 DEF vars, loopVars
<1>7. CASE \E c \in Conns : Client(c)
  BY <1>5, <1>7 DEF Client, ClientConnects, ClientSends, ClientReads, ClientCloses, ClientResets,
                    loopVars
<1>8. CASE Accept
  <2>1. batch' = batch /\ phase' = phase
    BY <1>8 DEF Accept, HandleAccept, HandleAcceptFails
  <2>2. Shared(queue'[l])
    <3>1. CASE queue' = queue
      BY <1>4, <3>1 DEF TidyWork
    <3>2. ASSUME NEW d \in Conns, HandleAccept(d), getNextLoop # Base PROVE Shared(queue'[l])
      <4>1. PICK f \in Functors : f = Functor("connectEstablished", d) /\ f.fn \in SharedFns
        BY LifeFunctor DEF LifeFns
      <4>2. queue' = [queue EXCEPT ![getNextLoop] = Append(@, f)]
        BY <3>2, <4>1 DEF HandleAccept, newConnection
      <4>3. getNextLoop \in Loops
        BY <1>1, NextLoop
      <4>4. QED
        BY <1>1, <1>4, <4>1, <4>2, <4>3, SharedAppend DEF TidyWork
    <3>3. QED
      BY <1>8, <3>1, <3>2 DEF Accept, HandleAccept, HandleAcceptFails, newConnection
  <2>3. TidyWork(l)'
    BY <1>4, <2>1, <2>2 DEF TidyWork
  <2>4. QED
    BY <1>3, <2>3
<1>9. ASSUME NEW m \in Loops, LoopStep(m) \/ Message(m) PROVE TidyHands(l)' /\ TidyWork(l)'
  BY <1>3, <1>9, TidyWorkLoop
<1>10. QED
  BY <1>6, <1>7, <1>8, <1>9 DEF Next

-----------------------------------------------------------------------------
(* A step touches the stage of one connection at most.                     *)

Closes(l, c) == (HandleClose(l) \/ HandleReadEnd(l)) /\ cur[l] = c

RunsFor(l, c) ==
    /\ RunConnectEstablished(l) \/ RunRemoveConnection(l) \/ RunConnectDestroyed(l)
    /\ Target(l) = c

Touched(c) ==
    \/ HandleAccept(c)
    \/ \E l \in Loops : Closes(l, c) \/ RunsFor(l, c)

Untouched(c) ==
    /\ Kept(conn[c], conn'[c])
    /\ c \in connections_' <=> c \in connections_
    /\ WorkSame(c)

LEMMA SameKept ==
    ASSUME TypeOK, NEW c \in Conns, conn'[c] = conn[c]
    PROVE  Kept(conn[c], conn'[c])
<1>1. conn[c] \in ConnectionType
  BY DEF TypeOK
<1>2. QED
  BY <1>1, CalmSteps, CalmKept

LEMMA KeptChange ==
    ASSUME TypeOK, NEW x, NEW v, conn' = [conn EXCEPT ![x] = v],
           x \in Conns => Kept(conn[x], v), NEW c \in Conns
    PROVE  Kept(conn[c], conn'[c])
<1>1. conn \in [Conns -> ConnectionType]
  BY DEF TypeOK
<1>2. CASE x = c
  <2>1. conn'[c] = v
    BY <1>1, <1>2
  <2>2. QED
    BY <1>2, <2>1
<1>3. CASE x # c
  <2>1. conn'[c] = conn[c]
    BY <1>1, <1>3
  <2>2. QED
    BY <2>1, SameKept
<1>4. QED
  BY <1>2, <1>3

LEMMA WorkUnchanged ==
    ASSUME TypeOK, UNCHANGED <<queue, batch, pos>>, NEW c
    PROVE  WorkSame(c)
BY WorkStep DEF WorkSame, QueuesOther, RunsOther

LEMMA OtherAccept ==
    ASSUME Types, Accept, NEW c \in Conns, ~HandleAccept(c)
    PROVE  Untouched(c)
<1>1. TypeOK /\ conn \in [Conns -> ConnectionType]
  BY DEF Types, TypeOK
<1>2. CASE HandleAcceptFails
  <2>1. UNCHANGED <<conn, queue, batch, pos, connections_>>
    BY <1>2 DEF HandleAcceptFails, serverVars
  <2>2. QED
    BY <1>1, <2>1, SameKept, WorkUnchanged DEF Untouched
<1>3. ASSUME NEW d \in Conns, HandleAccept(d), d # c PROVE Untouched(c)
  <2>1. \E v : conn' = [conn EXCEPT ![d] = v]
    BY <1>3 DEF HandleAccept, newConnection
  <2>2. Kept(conn[c], conn'[c])
    BY <1>1, <1>3, <2>1, SameKept
  <2>3. c \in connections_' <=> c \in connections_
    BY <1>3 DEF HandleAccept, newConnection
  <2>4. ASSUME NEW fn \in LifeFns PROVE QueuesOther(fn, c) /\ RunsOther(fn, c)
    <3>1. PICK f \in Functors : f = Functor("connectEstablished", d) /\ f.conn = d
      BY LifeFunctor DEF LifeFns
    <3>2. queue' = queue \/ queue' = [queue EXCEPT ![getNextLoop] = Append(@, f)]
      BY <1>3, <3>1 DEF HandleAccept, newConnection
    <3>3. getNextLoop \in Loops
      BY <1>1, NextLoop
    <3>4. ~Matches(f, fn, c)
      BY <1>3, <3>1 DEF Matches
    <3>5. QueuesOther(fn, c)
      BY <3>2, <3>3, <3>4 DEF QueuesOther
    <3>6. RunsOther(fn, c)
      BY <1>3 DEF HandleAccept, RunsOther
    <3>7. QED
      BY <3>5, <3>6
  <2>5. WorkSame(c)
    BY <1>1, <2>4, WorkStep DEF WorkSame
  <2>6. QED
    BY <2>2, <2>3, <2>5 DEF Untouched
<1>4. QED
  BY <1>2, <1>3 DEF Accept

\* The functor that loop l runs is not fn of connection c.
LEMMA RunningOther ==
    ASSUME TypeOK, NEW l \in Loops, NEW g, Running(l, g), NEW fn, NEW c, g # fn \/ Target(l) # c
    PROVE  RunsOther(fn, c)
<1>1. pos[l] \in DOMAIN batch[l] /\ batch[l][pos[l]].fn = g
  BY RunningFunctor
<1>2. ~Matches(batch[l][pos[l]], fn, c)
  BY <1>1 DEF Matches, Target
<1>3. QED
  BY <1>1, <1>2 DEF RunsOther, Running

\* removeConnection of d queues a functor of d.
LEMMA RemoveOther ==
    ASSUME TypeOK, NEW x, NEW d \in Conns, removeConnection(x, d) \/ removeConnectionInLoop(d),
           NEW fn, NEW c, c # d
    PROVE  QueuesOther(fn, c) /\ (c \in connections_' <=> c \in connections_)
<1>1. Base \in Loops /\ ioLoop[d] \in Loops
  BY DEF Loops, TypeOK
<1>2. ASSUME NEW y \in Loops, NEW g \in LifeFns, queue' = [queue EXCEPT ![y] = Append(@, Functor(g, d))]
      PROVE  QueuesOther(fn, c)
  <2>1. PICK f \in Functors : f = Functor(g, d) /\ f.conn = d
    BY LifeFunctor
  <2>2. ~Matches(f, fn, c)
    BY <2>1 DEF Matches
  <2>3. QED
    BY <1>2, <2>1, <2>2 DEF QueuesOther
<1>3. CASE removeConnectionInLoop(d)
  <2>1. /\ queue' = [queue EXCEPT ![ioLoop[d]] = Append(@, Functor("connectDestroyed", d))]
        /\ connections_' = connections_ \ {d}
    BY <1>3 DEF removeConnectionInLoop
  <2>2. QED
    BY <1>1, <1>2, <2>1 DEF LifeFns
<1>4. CASE /\ queue' = [queue EXCEPT ![Base] = Append(@, Functor("removeConnectionInLoop", d))]
           /\ UNCHANGED connections_
  BY <1>1, <1>2, <1>4 DEF LifeFns
<1>5. QED
  BY <1>3, <1>4 DEF removeConnection

LEMMA OtherEvent ==
    ASSUME Types, Placed, NEW l \in Loops, NEW c \in Conns,
           \/ HandleClose(l) \/ HandleReadEnd(l) \/ HandleError(l) \/ HandleReadError(l)
           \/ HandleReadMessage(l) \/ HandleWrite(l) \/ Message(l),
           ~Closes(l, c)
    PROVE  Untouched(c)
<1>1. TypeOK /\ conn \in [Conns -> ConnectionType]
  BY DEF Types, TypeOK
<1>2. PICK x : x = cur[l]
  OBVIOUS
<1>3. Handles(l)
  BY DEF HandleClose, HandleReadEnd, HandleError, HandleReadError, HandleReadMessage, HandleWrite,
         Callback, Message, MessageSends, MessageShutsDown, Handles
<1>4. x \in Conns /\ ConnInv(conn[x]) /\ conn[x] \in ConnectionType
  BY <1>2, <1>3, HeldAlive, SoundConn
<1>5. CASE HandleClose(l) \/ HandleReadEnd(l)
  <2>1. /\ removeConnection(l, x) /\ UNCHANGED <<batch, pos>> /\ x # c
        /\ \E v : conn' = [conn EXCEPT ![x] = v]
    BY <1>2, <1>5 DEF HandleClose, HandleReadEnd, Callback, Closes
  <2>2. Kept(conn[c], conn'[c])
    BY <1>1, <2>1, SameKept
  <2>3. c \in connections_' <=> c \in connections_
    BY <1>1, <1>4, <2>1, RemoveOther
  <2>4. \A fn \in LifeFns : QueuesOther(fn, c) /\ RunsOther(fn, c)
    BY <1>1, <1>4, <2>1, RemoveOther DEF RunsOther
  <2>5. WorkSame(c)
    BY <1>1, <2>4, WorkStep DEF WorkSame
  <2>6. QED
    BY <2>2, <2>3, <2>5 DEF Untouched
<1>6. CASE HandleError(l) \/ HandleReadError(l) \/ HandleReadMessage(l)
  <2>1. /\ UNCHANGED <<queue, batch, pos, connections_>>
        /\ \E v \in {clearError(conn[x]), readMessage(conn[x])} : conn' = [conn EXCEPT ![x] = v]
    BY <1>2, <1>6 DEF HandleError, HandleReadError, HandleReadMessage, Callback, handleError
  <2>2. \A v \in {clearError(conn[x]), readMessage(conn[x])} : Kept(conn[x], v)
    BY <1>4, CalmSteps, CalmKept
  <2>3. PICK v : conn' = [conn EXCEPT ![x] = v] /\ Kept(conn[x], v)
    BY <2>1, <2>2
  <2>4. Kept(conn[c], conn'[c])
    BY <1>1, <2>3, KeptChange
  <2>5. QED
    BY <1>1, <2>1, <2>4, WorkUnchanged DEF Untouched
<1>7. CASE HandleWrite(l)
  <2>1. /\ UNCHANGED <<batch, pos, connections_>> /\ queueNames(l, x, writeQueues(conn[x]))
        /\ conn' = [conn EXCEPT ![x] = handleWrite(conn[x])]
    BY <1>2, <1>7 DEF HandleWrite, Callback
  <2>2. Kept(conn[x], handleWrite(conn[x]))
    BY <1>4, WriteKept
  <2>3. Kept(conn[c], conn'[c])
    BY <1>1, <2>1, <2>2, KeptChange
  <2>4. PICK names \in Seq(SharedFns) :
            names = writeQueues(conn[x]) /\ \A i \in DOMAIN names : names[i] \notin LifeFns
    BY QueuedNames, NamesQueued DEF LifeFns
  <2>5. WorkSame(c)
    BY <1>1, <1>4, <2>1, <2>4, WorkNamed
  <2>6. QED
    BY <2>1, <2>3, <2>5 DEF Untouched
<1>8. ASSUME NEW len \in SendLens, MessageSends(l, len) PROVE Untouched(c)
  <2>1. /\ UNCHANGED <<batch, pos, connections_>> /\ queueNames(l, x, sendQueues(conn[x], len))
        /\ conn' = [conn EXCEPT ![x] = sendInLoop(conn[x], len)]
        /\ conn[x].state_ = "kConnected"
    BY <1>2, <1>8 DEF MessageSends, loopVars, serverVars
  <2>2. len \in Nat
    BY SendLensAssumption
  <2>3. Kept(conn[x], sendInLoop(conn[x], len))
    BY <1>4, <2>1, <2>2, SendKept
  <2>4. Kept(conn[c], conn'[c])
    BY <1>1, <2>1, <2>3, KeptChange
  <2>5. PICK names \in Seq(SharedFns) :
            names = sendQueues(conn[x], len) /\ \A i \in DOMAIN names : names[i] \notin LifeFns
    BY QueuedNames, NamesQueued DEF LifeFns
  <2>6. WorkSame(c)
    BY <1>1, <1>4, <2>1, <2>5, WorkNamed
  <2>7. QED
    BY <2>1, <2>4, <2>6 DEF Untouched
<1>9. CASE MessageShutsDown(l)
  <2>1. PICK k1 : k1 = [conn[x] EXCEPT !.state_ = "kDisconnecting"]
    OBVIOUS
  <2>2. /\ UNCHANGED <<queue, batch, pos, connections_>>
        /\ conn' = [conn EXCEPT ![x] = shutdownInLoop(k1)]
        /\ conn[x].state_ = "kConnected"
    BY <1>2, <1>9, <2>1 DEF MessageShutsDown, loopVars, serverVars
  <2>3. Kept(conn[x], shutdownInLoop(k1))
    BY <1>4, <2>1, <2>2, ShutdownKept
  <2>4. Kept(conn[c], conn'[c])
    BY <1>1, <2>2, <2>3, KeptChange
  <2>5. QED
    BY <1>1, <2>2, <2>4, WorkUnchanged DEF Untouched
<1>10. QED
  BY <1>5, <1>6, <1>7, <1>8, <1>9 DEF Message

LEMMA OtherRun ==
    ASSUME Types, NEW l \in Loops, NEW c \in Conns,
           \/ RunConnectEstablished(l) \/ RunRemoveConnection(l) \/ RunConnectDestroyed(l)
           \/ RunUserCallback(l),
           ~RunsFor(l, c)
    PROVE  Untouched(c)
<1>1. TypeOK /\ conn \in [Conns -> ConnectionType]
  BY DEF Types, TypeOK
<1>2. CASE RunUserCallback(l)
  <2>1. PICK g : Running(l, g) /\ g \notin LifeFns
    BY <1>2 DEF RunUserCallback, LifeFns
  <2>2. UNCHANGED <<conn, queue, connections_>>
    BY <1>2 DEF RunUserCallback
  <2>3. \A fn \in LifeFns : QueuesOther(fn, c) /\ RunsOther(fn, c)
    BY <1>1, <2>1, <2>2, RunningOther DEF QueuesOther
  <2>4. WorkSame(c)
    BY <1>1, <2>3, WorkStep DEF WorkSame
  <2>5. QED
    BY <1>1, <2>2, <2>4, SameKept DEF Untouched
<1>3. CASE RunConnectEstablished(l) \/ RunRemoveConnection(l) \/ RunConnectDestroyed(l)
  <2>1. PICK g, x : Running(l, g) /\ x = Target(l) /\ x # c
    BY <1>3 DEF RunConnectEstablished, RunRemoveConnection, RunConnectDestroyed, RunsFor
  <2>2. x \in Conns
    BY <1>1, <2>1, RunningFunctor
  <2>3. Kept(conn[c], conn'[c])
    <3>1. conn' = conn \/ \E v : conn' = [conn EXCEPT ![x] = v]
      BY <1>3, <2>1 DEF RunConnectEstablished, RunRemoveConnection, RunConnectDestroyed
    <3>2. QED
      BY <1>1, <2>1, <3>1, SameKept
  <2>4. \A fn \in LifeFns : RunsOther(fn, c)
    BY <1>1, <2>1, RunningOther
  <2>5. removeConnectionInLoop(x) \/ UNCHANGED <<queue, connections_>>
    BY <1>3, <2>1 DEF RunConnectEstablished, RunRemoveConnection, RunConnectDestroyed
  <2>6. c \in connections_' <=> c \in connections_
    BY <1>1, <2>1, <2>2, <2>5, RemoveOther
  <2>7. \A fn \in LifeFns : QueuesOther(fn, c)
    BY <1>1, <2>1, <2>2, <2>5, RemoveOther DEF QueuesOther
  <2>8. WorkSame(c)
    BY <1>1, <2>4, <2>7, WorkStep DEF WorkSame
  <2>9. QED
    BY <2>3, <2>6, <2>8 DEF Untouched
<1>4. QED
  BY <1>2, <1>3

LEMMA OneTouched ==
    ASSUME Types, Placed, Tidy, users = {}, [Next]_vars, NEW c \in Conns
    PROVE  Touched(c) \/ Untouched(c)
<1>1. TypeOK
  BY DEF Types
<1>2. CASE UNCHANGED <<conn, queue, batch, pos, connections_>>
  BY <1>1, <1>2, SameKept, WorkUnchanged DEF Untouched
<1>3. CASE UNCHANGED vars
  BY <1>2, <1>3 DEF vars, loopVars, serverVars
<1>4. ASSUME NEW d \in Conns, Client(d) PROVE Untouched(c)
  <2>1. UNCHANGED <<queue, batch, pos, connections_>>
    BY <1>4 DEF Client, ClientConnects, ClientSends, ClientReads, ClientCloses, ClientResets,
                loopVars, serverVars
  <2>2. Kept(conn[c], conn'[c])
    BY <1>1, <1>4, CalmClient, CalmKept
  <2>3. QED
    BY <1>1, <2>1, <2>2, WorkUnchanged DEF Untouched
<1>5. ASSUME Accept PROVE Touched(c) \/ Untouched(c)
  BY <1>5, OtherAccept DEF Touched
<1>6. ASSUME NEW l \in Loops, LoopStep(l) \/ Message(l) PROVE Touched(c) \/ Untouched(c)
  <2>1. ASSUME BeginPending(l) \/ EndPending(l) PROVE Untouched(c)
    <3>1. UNCHANGED <<conn, connections_>>
      BY <2>1 DEF BeginPending, EndPending, serverVars
    <3>2. WorkSame(c)
      BY <1>1, <2>1, WorkPending DEF Tidy
    <3>3. QED
      BY <1>1, <3>1, <3>2, SameKept DEF Untouched
  <2>2. CASE \/ Poll(l) \/ EventHandled(l) \/ MessageReturns(l)
             \/ \E a \in active[l] : HandleEvent(l, a[1], a[2])
    BY <1>2, <2>2 DEF Poll, EventHandled, MessageReturns, HandleEvent, serverVars
  <2>3. CASE \/ HandleClose(l) \/ HandleReadEnd(l) \/ HandleError(l) \/ HandleReadError(l)
             \/ HandleReadMessage(l) \/ HandleWrite(l) \/ Message(l)
    BY <2>3, OtherEvent DEF Touched
  <2>4. CASE \/ RunConnectEstablished(l) \/ RunRemoveConnection(l) \/ RunConnectDestroyed(l)
             \/ RunUserCallback(l)
    BY <2>4, OtherRun DEF Touched
  <2>5. ~RunSendInLoop(l) /\ ~RunShutdownInLoop(l)
    BY RunsShared
  <2>6. QED
    BY <1>6, <2>1, <2>2, <2>3, <2>4, <2>5 DEF LoopStep
<1>7. QED
  BY <1>3, <1>4, <1>5, <1>6 DEF Next

-----------------------------------------------------------------------------
(* Every connection goes from stage to stage.                              *)

LEMMA IdleAtMostOne ==
    ASSUME NEW l, NEW fn, NEW c, Nothing(l, fn, c)
    PROVE  AtMostOne(l, fn, c)
BY NoneIsAtMostOne DEF Nothing, AtMostOne

LEMMA SameWorkIs ==
    ASSUME NEW l, NEW fn, NEW c, SameWork(l, fn, c)
    PROVE  /\ Nothing(l, fn, c)' <=> Nothing(l, fn, c)
           /\ AtMostOne(l, fn, c) => AtMostOne(l, fn, c)'
BY DEF SameWork, WorkKept, Nothing, AtMostOne

\* Before a connection is up there is no functor of it but the first one.
LEMMA NothingYet ==
    ASSUME Types, Placed, NEW c \in Conns, NEW l \in Loops, NEW fn,
           \/ conn[c].up = 0 /\ fn # "connectEstablished"
           \/ ~Constructed(c)
    PROVE  Nothing(l, fn, c)
<1>1. ASSUME NEW f, Good(l, f), Matches(f, fn, c) PROVE FALSE
  <2>1. f.fn = fn /\ f.conn = c
    BY <1>1 DEF Matches
  <2>2. Constructed(c) /\ (fn = "connectEstablished" \/ conn[c].up > 0)
    BY <1>1, <2>1 DEF Good
  <2>3. QED
    BY <2>2
<1>2. /\ \A i \in DOMAIN queue[l] : Good(l, queue[l][i])
      /\ \A i \in DOMAIN batch[l] : Good(l, batch[l][i])
  BY DEF Placed, FunctorsPlaced
<1>3. QED
  BY <1>1, <1>2 DEF Nothing, NoWork

LEMMA StageUntouched ==
    ASSUME Types, Placed, [Next]_vars, NEW c \in Conns, Stage(c), Refuses(conn[c]),
           Untouched(c), ~HandleAccept(c)
    PROVE  Stage(c)' /\ Refuses(conn[c])'
<1>1. /\ Kept(conn[c], conn'[c])
      /\ c \in connections_' <=> c \in connections_
  BY DEF Untouched
<1>2. ioLoop'[c] = ioLoop[c] /\ ioLoop[c] \in Loops /\ Base \in Loops
  BY IoLoopKept DEF Types, TypeOK, Loops
<1>3. ASSUME NEW l \in Loops, NEW fn \in LifeFns
      PROVE  /\ Nothing(l, fn, c)' <=> Nothing(l, fn, c)
             /\ AtMostOne(l, fn, c) => AtMostOne(l, fn, c)'
  BY SameWorkIs DEF Untouched, WorkSame
<1>4. PICK e : e = ioLoop[c] /\ e \in Loops
  BY <1>2
<1>5. /\ Nothing(e, "connectEstablished", c)' <=> Nothing(e, "connectEstablished", c)
      /\ AtMostOne(e, "connectEstablished", c) => AtMostOne(e, "connectEstablished", c)'
  BY <1>3, <1>4 DEF LifeFns
<1>6. /\ Nothing(Base, "removeConnectionInLoop", c)' <=> Nothing(Base, "removeConnectionInLoop", c)
      /\ AtMostOne(Base, "removeConnectionInLoop", c) =>
             AtMostOne(Base, "removeConnectionInLoop", c)'
  BY <1>2, <1>3 DEF LifeFns
<1>7. /\ Nothing(e, "connectDestroyed", c)' <=> Nothing(e, "connectDestroyed", c)
      /\ AtMostOne(e, "connectDestroyed", c) => AtMostOne(e, "connectDestroyed", c)'
  BY <1>3, <1>4 DEF LifeFns
<1>8. ioLoop'[c] = e
  BY <1>2, <1>4
<1>9. CASE Early(c)
  <2>1. Early(c)'
    BY <1>1, <1>4, <1>5, <1>8, <1>9 DEF Early, Kept
  <2>2. QED
    BY <1>1, <2>1 DEF Stage, Kept
<1>10. CASE Up(c)
  <2>1. Up(c)'
    BY <1>1, <1>4, <1>5, <1>6, <1>7, <1>8, <1>10 DEF Up, Kept
  <2>2. QED
    BY <1>1, <2>1 DEF Stage, Kept
<1>11. CASE Down(c)
  <2>1. Quiet(c)'
    BY <1>11, QuietNext DEF Down, Closed
  <2>2. Listed(c) => Listed(c)'
    BY <1>1, <1>4, <1>6, <1>7, <1>8 DEF Listed
  <2>3. Closed(conn[c])
    BY <1>11 DEF Down
  <2>4. Removed(c) => Removed(c)'
    BY <1>1, <1>4, <1>6, <1>7, <1>8, <2>3 DEF Removed, Kept
  <2>5. Down(c)'
    BY <1>1, <1>4, <1>5, <1>8, <1>11, <2>1, <2>2, <2>4 DEF Down, Kept
  <2>6. QED
    BY <1>1, <2>5 DEF Stage, Kept
<1>12. QED
  BY <1>9, <1>10, <1>11 DEF Stage

LEMMA StageAccept ==
    ASSUME Types, Placed, NEW c \in Conns, HandleAccept(c)
    PROVE  /\ Stage(c)' /\ Refuses(conn[c])' /\ conn[c].up = 0 /\ conn[c].down = 0
           /\ getNextLoop = Base => Up(c)'
           /\ getNextLoop # Base => conn'[c].up = 0 /\ conn'[c].down = 0
<1>1. TypeOK /\ conn \in [Conns -> ConnectionType]
  BY DEF Types, TypeOK
<1>2. ~Constructed(c) /\ conn[c].up \in Nat
  BY SoundConn, ConnFields DEF HandleAccept, Placed, ConnPlaced
<1>3. conn[c].up = 0 /\ conn[c].down = 0 /\ ~conn[c].shutWr
  BY <1>2 DEF Placed, ConnPlaced
<1>4. PICK k, k1 : k = conn[c] /\ k1 = [k EXCEPT !.state_ = "kConnecting"]
  OBVIOUS
<1>5. ConnInv(k) /\ k \in ConnectionType
  BY <1>4, SoundConn
<1>6. ConnInv(k1) /\ k1.up = 0 /\ k1.down = 0 /\ ~k1.shutWr
  BY <1>3, <1>4, <1>5, ConstructInv DEF ConnectionType
<1>7. ioLoop'[c] = getNextLoop /\ getNextLoop \in Loops /\ c \in connections_'
      /\ UNCHANGED <<batch, pos>> /\ Base \in Loops
  BY <1>1, NextLoop DEF HandleAccept, newConnection, TypeOK, Loops
<1>8. \A l \in Loops : \A fn : Nothing(l, fn, c)
  BY <1>2, NothingYet
<1>9. CASE getNextLoop = Base
  <2>1. conn'[c] = connectEstablished(k1) /\ queue' = queue
    BY <1>1, <1>4, <1>9 DEF HandleAccept, newConnection
  <2>2. /\ conn'[c].up = 1 /\ conn'[c].down = 0 /\ Open(conn'[c]) /\ Refuses(conn'[c])
    BY <1>6, <2>1, EstablishedOpens
  <2>3. \A l \in Loops : \A fn : Nothing(l, fn, c)'
    BY <1>7, <1>8, <2>1 DEF Nothing
  <2>4. Up(c)'
    BY <1>7, <2>2, <2>3 DEF Up
  <2>5. QED
    BY <1>3, <1>9, <2>2, <2>4 DEF Stage
<1>10. CASE getNextLoop # Base
  <2>1. /\ conn'[c] = k1
        /\ queue' = [queue EXCEPT ![getNextLoop] = Append(@, Functor("connectEstablished", c))]
    BY <1>1, <1>4, <1>10 DEF HandleAccept, newConnection
  <2>2. PICK f \in Functors : f = Functor("connectEstablished", c)
                              /\ f.fn = "connectEstablished" /\ f.conn = c
    BY LifeFunctor DEF LifeFns
  <2>3. PICK e \in Loops : e = getNextLoop
    BY <1>7
  <2>4. /\ RunsOther("connectEstablished", c) /\ Matches(f, "connectEstablished", c)
        /\ Nothing(e, "connectEstablished", c) /\ queue' = [queue EXCEPT ![e] = Append(@, f)]
    BY <1>7, <1>8, <2>1, <2>2, <2>3 DEF RunsOther, Matches
  <2>5. AtMostOne(e, "connectEstablished", c)'
    BY <1>1, <2>4, WorkGained
  <2>6. Early(c)' /\ Refuses(conn'[c])
    BY <1>6, <1>7, <2>1, <2>3, <2>5 DEF Early, Refuses
  <2>7. QED
    BY <1>3, <1>6, <1>10, <2>1, <2>6 DEF Stage
<1>11. QED
  BY <1>9, <1>10

LEMMA StageEstablished ==
    ASSUME Types, Placed, [Next]_vars, NEW c \in Conns, Stage(c), NEW l \in Loops,
           RunConnectEstablished(l), Target(l) = c
    PROVE  Stage(c)' /\ Refuses(conn[c])' /\ conn[c].up = 0 /\ Up(c)'
<1>1. TypeOK /\ conn \in [Conns -> ConnectionType] /\ Base \in Loops
  BY DEF Types, TypeOK, Loops
<1>2. /\ Running(l, "connectEstablished") /\ UNCHANGED <<queue, connections_>>
      /\ conn'[c] = connectEstablished(conn[c])
  BY <1>1 DEF RunConnectEstablished
<1>3. ioLoop[c] = l /\ Constructed(c) /\ ConnInv(conn[c])
  BY <1>2, HeldAlive
<1>4. AtMostOne(l, "connectEstablished", c)
  BY <1>3, IdleAtMostOne DEF Stage, Early, Up, Down
<1>5. QueuesOther("connectEstablished", c)
  BY <1>2 DEF QueuesOther
<1>6. Nothing(l, "connectEstablished", c)' /\ ~Nothing(l, "connectEstablished", c)
  BY <1>1, <1>2, <1>4, <1>5, WorkDone
<1>7. conn[c].up = 0
  BY <1>3, <1>6 DEF Stage, Early, Up, Down
<1>8. conn[c].down = 0 /\ ~conn[c].shutWr /\ c \in connections_
  BY <1>3, <1>7 DEF Placed, ConnPlaced
<1>9. conn'[c].up = 1 /\ conn'[c].down = 0 /\ Open(conn'[c]) /\ Refuses(conn'[c])
  BY <1>2, <1>3, <1>7, <1>8, EstablishedOpens
<1>10. ASSUME NEW m \in Loops, NEW fn, fn # "connectEstablished" PROVE Nothing(m, fn, c)'
  <2>1. Nothing(m, fn, c)
    BY <1>7, <1>10, NothingYet
  <2>2. QueuesOther(fn, c) /\ RunsOther(fn, c)
    BY <1>1, <1>2, <1>10, RunningOther DEF QueuesOther
  <2>3. SameWork(m, fn, c)
    BY <1>1, <2>2, WorkStep
  <2>4. QED
    BY <2>1, <2>3, SameWorkIs
<1>11. ioLoop'[c] = l
  BY <1>2, <1>3 DEF Running
<1>12. Up(c)'
  BY <1>1, <1>2, <1>6, <1>8, <1>9, <1>10, <1>11 DEF Up
<1>13. QED
  BY <1>7, <1>9, <1>12 DEF Stage

LEMMA StageCloses ==
    ASSUME Types, Placed, Tidy, [Next]_vars, NEW c \in Conns, Stage(c), NEW l \in Loops,
           Closes(l, c)
    PROVE  Stage(c)' /\ Refuses(conn[c])' /\ Up(c) /\ Down(c)'
<1>1. TypeOK /\ conn \in [Conns -> ConnectionType] /\ Base \in Loops
  BY DEF Types, TypeOK, Loops
<1>2. /\ phase[l] = "event" /\ Handles(l) /\ cur[l] = c /\ phase' = phase /\ cur' = cur
      /\ active' = active /\ todo[l] # << >> /\ Head(todo[l]) \in Ends
      /\ todo' = [todo EXCEPT ![l] = Tail(@)]
      /\ UNCHANGED <<batch, pos, ioLoop>>
      /\ removeConnection(l, c) /\ conn'[c] = handleClose(conn[c])
  BY <1>1 DEF Closes, HandleClose, HandleReadEnd, Callback, Handles, Ends
<1>3. ioLoop[c] = l /\ ConnInv(conn[c]) /\ conn[c].up > 0
  BY <1>2, HeldAlive DEF Alive
<1>4. PICK s \in Seq({"close", "error", "read", "write"}) : s = todo[l]
  BY <1>1 DEF TypeOK
<1>5. TidyHands(l) /\ OneEnd(s)
  BY <1>4 DEF Tidy, TidyHands
<1>6. ~NoEnd(s) /\ NoEnd(Tail(s))
  BY <1>2, <1>4, <1>5, TailEnds
<1>7. Up(c)
  <2>1. ~Early(c)
    BY <1>3 DEF Early
  <2>2. ~Down(c)
    BY <1>2, <1>4, <1>6 DEF Down, Quiet
  <2>3. QED
    BY <2>1, <2>2 DEF Stage
<1>8. conn'[c].up = 1 /\ conn'[c].down = 1 /\ Closed(conn'[c]) /\ Refuses(conn'[c])
  BY <1>2, <1>3, <1>7, CloseCloses DEF Up
<1>9. Quiet(c)'
  <2>1. SUFFICES ASSUME NEW m \in Loops
                 PROVE  /\ \A a \in active[m] : a[1] # c
                        /\ Handles(m) /\ cur[m] = c => phase[m] = "event" /\ NoEnd(todo'[m])
    BY <1>2 DEF Quiet, Handles
  <2>2. CASE m = l
    <3>1. \A a \in active[m] : a[1] # c
      BY <1>2, <1>5, <2>2 DEF TidyHands
    <3>2. todo'[m] = Tail(s)
      BY <1>1, <1>2, <1>4, <2>2 DEF TypeOK
    <3>3. QED
      BY <1>2, <1>6, <2>2, <3>1, <3>2
  <2>3. CASE m # l
    <3>1. c # Acceptor
      BY AcceptorAssumption
    <3>2. \A a \in active[m] : a[1] # c
      BY <1>3, <2>3, <3>1 DEF Placed, ActivePlaced
    <3>3. ~(Handles(m) /\ cur[m] = c)
      BY <1>3, <2>3 DEF Placed, CurPlaced
    <3>4. QED
      BY <3>2, <3>3
  <2>4. QED
    BY <2>2, <2>3
<1>10. /\ Nothing(l, "connectEstablished", c) /\ Nothing(Base, "removeConnectionInLoop", c)
       /\ Nothing(l, "connectDestroyed", c) /\ c \in connections_
  BY <1>3, <1>7 DEF Up
<1>11. ASSUME NEW g \in LifeFns, NEW x \in Loops, Nothing(x, g, c),
              queue' = [queue EXCEPT ![x] = Append(@, Functor(g, c))]
       PROVE  /\ AtMostOne(x, g, c)' /\ ~Nothing(x, g, c)'
              /\ \A m \in Loops : \A fn : fn # g => (Nothing(m, fn, c)' <=> Nothing(m, fn, c))
  <2>1. PICK f \in Functors : f = Functor(g, c) /\ f.fn = g /\ f.conn = c
    BY LifeFunctor
  <2>2. RunsOther(g, c) /\ Matches(f, g, c)
    BY <1>2, <2>1 DEF RunsOther, Matches
  <2>3. queue' = [queue EXCEPT ![x] = Append(@, f)]
    BY <1>11, <2>1
  <2>4. AtMostOne(x, g, c)' /\ ~Nothing(x, g, c)'
    BY <1>1, <1>11, <2>2, <2>3, WorkGained
  <2>5. ASSUME NEW m \in Loops, NEW fn, fn # g PROVE Nothing(m, fn, c)' <=> Nothing(m, fn, c)
    <3>1. ~Matches(f, fn, c)
      BY <2>1, <2>5 DEF Matches
    <3>2. QueuesOther(fn, c) /\ RunsOther(fn, c)
      BY <1>2, <2>3, <3>1 DEF QueuesOther, RunsOther
    <3>3. SameWork(m, fn, c)
      BY <1>1, <3>2, WorkStep
    <3>4. QED
      BY <3>3, SameWorkIs
  <2>6. QED
    BY <2>4, <2>5
<1>12. ioLoop'[c] = l
  BY <1>2, <1>3
<1>13. Nothing(l, "connectEstablished", c)' /\ (Listed(c)' \/ Removed(c)')
  <2>1. CASE l = Base
    <3>1. /\ queue' = [queue EXCEPT ![l] = Append(@, Functor("connectDestroyed", c))]
          /\ connections_' = connections_ \ {c}
      BY <1>2, <1>3, <2>1 DEF removeConnection, removeConnectionInLoop
    <3>2. /\ AtMostOne(l, "connectDestroyed", c)' /\ ~Nothing(l, "connectDestroyed", c)'
          /\ Nothing(l, "connectEstablished", c)' /\ Nothing(Base, "removeConnectionInLoop", c)'
      BY <1>1, <1>10, <1>11, <3>1 DEF LifeFns
    <3>3. Removed(c)'
      BY <1>12, <3>1, <3>2 DEF Removed
    <3>4. QED
      BY <3>2, <3>3
  <2>2. CASE l # Base
    <3>1. /\ queue' = [queue EXCEPT ![Base] = Append(@, Functor("removeConnectionInLoop", c))]
          /\ connections_' = connections_
      BY <1>2, <2>2 DEF removeConnection
    <3>2. /\ AtMostOne(Base, "removeConnectionInLoop", c)'
          /\ Nothing(l, "connectEstablished", c)' /\ Nothing(l, "connectDestroyed", c)'
      BY <1>1, <1>10, <1>11, <3>1 DEF LifeFns
    <3>3. Listed(c)'
      BY <1>10, <1>12, <3>1, <3>2 DEF Listed
    <3>4. QED
      BY <3>2, <3>3
  <2>3. QED
    BY <2>1, <2>2
<1>14. Down(c)'
  BY <1>8, <1>9, <1>12, <1>13 DEF Down
<1>15. QED
  BY <1>7, <1>8, <1>14 DEF Stage

LEMMA StageRemoves ==
    ASSUME Types, Placed, [Next]_vars, NEW c \in Conns, Stage(c), Refuses(conn[c]), NEW l \in Loops,
           RunRemoveConnection(l), Target(l) = c
    PROVE  Stage(c)' /\ Refuses(conn[c])'
<1>1. TypeOK /\ Base \in Loops
  BY DEF Types, Loops
<1>2. Running(l, "removeConnectionInLoop") /\ removeConnectionInLoop(c) /\ conn' = conn
  BY DEF RunRemoveConnection
<1>3. l = Base /\ conn[c].up > 0
  BY <1>2, HeldAlive DEF Alive
<1>4. PICK e \in Loops : e = ioLoop[c]
  BY <1>1 DEF TypeOK
<1>5. PICK f \in Functors : f = Functor("connectDestroyed", c)
                            /\ f.fn = "connectDestroyed" /\ f.conn = c
  BY LifeFunctor DEF LifeFns
<1>6. /\ queue' = [queue EXCEPT ![e] = Append(@, f)] /\ connections_' = connections_ \ {c}
      /\ ioLoop'[c] = e
  BY <1>2, <1>4, <1>5 DEF removeConnectionInLoop, Running
<1>7. \A fn : fn # "connectDestroyed" => QueuesOther(fn, c)
  BY <1>5, <1>6 DEF QueuesOther, Matches
<1>8. AtMostOne(Base, "removeConnectionInLoop", c)
  BY <1>3, IdleAtMostOne DEF Stage, Early, Up, Down, Listed, Removed
<1>9. /\ Nothing(Base, "removeConnectionInLoop", c)'
      /\ ~Nothing(Base, "removeConnectionInLoop", c)
  <2>1. QueuesOther("removeConnectionInLoop", c)
    BY <1>7
  <2>2. QED
    BY <1>1, <1>2, <1>3, <1>8, <2>1, WorkDone
<1>10. Down(c) /\ Listed(c)
  BY <1>3, <1>9 DEF Stage, Early, Up, Down, Removed
<1>11. Nothing(e, "connectDestroyed", c) /\ Nothing(e, "connectEstablished", c)
  BY <1>4, <1>10 DEF Down, Listed
<1>12. AtMostOne(e, "connectDestroyed", c)' /\ ~Nothing(e, "connectDestroyed", c)'
  <2>1. RunsOther("connectDestroyed", c) /\ Matches(f, "connectDestroyed", c)
    BY <1>1, <1>2, <1>5, RunningOther DEF Matches
  <2>2. QED
    BY <1>1, <1>6, <1>11, <2>1, WorkGained
<1>13. Nothing(e, "connectEstablished", c)'
  <2>1. QueuesOther("connectEstablished", c) /\ RunsOther("connectEstablished", c)
    BY <1>1, <1>2, <1>7, RunningOther
  <2>2. SameWork(e, "connectEstablished", c)
    BY <1>1, <2>1, WorkStep
  <2>3. QED
    BY <1>11, <2>2, SameWorkIs
<1>14. Quiet(c)'
  BY <1>10, QuietNext DEF Down, Closed
<1>15. Removed(c)'
  BY <1>6, <1>9, <1>12 DEF Removed
<1>16. Down(c)'
  BY <1>2, <1>6, <1>10, <1>13, <1>14, <1>15 DEF Down
<1>17. QED
  BY <1>2, <1>16 DEF Stage

LEMMA StageDestroys ==
    ASSUME Types, Placed, [Next]_vars, NEW c \in Conns, Stage(c), NEW l \in Loops,
           RunConnectDestroyed(l), Target(l) = c
    PROVE  /\ Stage(c)' /\ Refuses(conn[c])'
           /\ conn'[c].up = conn[c].up /\ conn'[c].down = conn[c].down
           /\ conn'[c].sent = conn[c].sent
<1>1. TypeOK /\ conn \in [Conns -> ConnectionType] /\ Base \in Loops
  BY DEF Types, TypeOK, Loops
<1>2. /\ Running(l, "connectDestroyed") /\ UNCHANGED <<queue, connections_>>
      /\ conn'[c] = connectDestroyed(conn[c])
  BY <1>1 DEF RunConnectDestroyed
<1>3. ioLoop[c] = l /\ ConnInv(conn[c]) /\ conn[c].up > 0
  BY <1>2, HeldAlive DEF Alive
<1>4. \A fn : QueuesOther(fn, c)
  BY <1>2 DEF QueuesOther
<1>5. AtMostOne(l, "connectDestroyed", c)
  BY <1>3, IdleAtMostOne DEF Stage, Early, Up, Down, Listed, Removed
<1>6. Nothing(l, "connectDestroyed", c)' /\ ~Nothing(l, "connectDestroyed", c)
  BY <1>1, <1>2, <1>4, <1>5, WorkDone
<1>7. Down(c) /\ Removed(c)
  BY <1>3, <1>6 DEF Stage, Early, Up, Down, Listed
<1>8. /\ conn'[c].up = conn[c].up /\ conn'[c].down = conn[c].down
      /\ Closed(conn'[c]) /\ Refuses(conn'[c])
      /\ conn'[c].channel_.index_ = "kNew" /\ conn'[c].sent = conn[c].sent
  BY <1>2, <1>3, <1>7, DestroyedRemoves DEF Down
<1>9. ASSUME NEW m \in Loops, NEW fn, fn # "connectDestroyed", Nothing(m, fn, c)
      PROVE  Nothing(m, fn, c)'
  <2>1. RunsOther(fn, c)
    BY <1>1, <1>2, <1>9, RunningOther
  <2>2. SameWork(m, fn, c)
    BY <1>1, <1>4, <2>1, WorkStep
  <2>3. QED
    BY <1>9, <2>2, SameWorkIs
<1>10. /\ Nothing(l, "connectEstablished", c) /\ Nothing(Base, "removeConnectionInLoop", c)
       /\ c \notin connections_
  BY <1>3, <1>7 DEF Down, Removed
<1>11. Nothing(l, "connectEstablished", c)' /\ Nothing(Base, "removeConnectionInLoop", c)'
  BY <1>1, <1>9, <1>10
<1>12. Quiet(c)'
  BY <1>7, QuietNext DEF Down, Closed
<1>13. ioLoop'[c] = l
  BY <1>2, <1>3 DEF Running
<1>14. Removed(c)'
  BY <1>2, <1>6, <1>8, <1>10, <1>11, <1>13 DEF Removed
<1>15. Down(c)'
  BY <1>7, <1>8, <1>11, <1>12, <1>13, <1>14 DEF Down
<1>16. QED
  BY <1>8, <1>15 DEF Stage

LEMMA StagedNext ==
    ASSUME Types, Placed, Tidy, Staged, users = {}, [Next]_vars
    PROVE  Staged'
<1>1. SUFFICES ASSUME NEW c \in Conns PROVE Stage(c)' /\ Refuses(conn[c])'
  BY DEF Staged
<1>2. Stage(c) /\ Refuses(conn[c])
  BY DEF Staged
<1>3. CASE HandleAccept(c)
  BY <1>3, StageAccept
<1>4. CASE Untouched(c) /\ ~HandleAccept(c)
  BY <1>2, <1>4, StageUntouched
<1>5. ASSUME NEW l \in Loops, Closes(l, c) PROVE Stage(c)' /\ Refuses(conn[c])'
  BY <1>2, <1>5, StageCloses
<1>6. ASSUME NEW l \in Loops, RunsFor(l, c) PROVE Stage(c)' /\ Refuses(conn[c])'
  BY <1>2, <1>6, StageEstablished, StageRemoves, StageDestroys DEF RunsFor
<1>7. QED
  BY <1>3, <1>4, <1>5, <1>6, OneTouched DEF Touched

Life == users = {} => Tidy /\ Staged

LEMMA LifeInit ==
    ASSUME Init
    PROVE  Life
<1>1. ASSUME NEW l \in Loops PROVE TidyHands(l) /\ TidyWork(l)
  <2>1. /\ active[l] = {} /\ phase[l] = "poll" /\ todo[l] = << >>
        /\ queue[l] = << >> /\ batch[l] = << >>
    BY DEF Init
  <2>2. QED
    BY <2>1 DEF TidyHands, TidyWork, Handles, OneEnd, Shared
<1>2. ASSUME NEW c \in Conns PROVE Stage(c) /\ Refuses(conn[c])
  <2>1. conn[c] = Unborn /\ queue[ioLoop[c]] = << >> /\ batch[ioLoop[c]] = << >>
    BY DEF Init, Loops
  <2>2. Early(c) /\ Refuses(conn[c])
    BY <2>1 DEF Early, AtMostOne, OneWork, Unborn, Refuses
  <2>3. QED
    BY <2>2 DEF Stage
<1>3. QED
  BY <1>1, <1>2 DEF Life, Tidy, Staged

LEMMA LifeAlways == Spec => [](Types /\ Placed /\ Life)
<1>1. Init => Life
  BY LifeInit
<1>2. Types /\ Placed /\ Life /\ [Next]_vars => Life'
  BY TidyNext, StagedNext, UserStep DEF Life, Types
<1>3. QED
  BY <1>1, <1>2, PlacedAlways, PTL DEF Spec

-----------------------------------------------------------------------------
(* What nothing refers to any more.                                        *)

\* A functor that has to run keeps its connection.
LEMMA WorkKeeps ==
    ASSUME NEW l \in Loops, NEW fn \in SharedFns, NEW c, ~Nothing(l, fn, c)
    PROVE  Keeps(queue[l], c) \/ Keeps(batch[l], c)
BY DEF Nothing, NoWork, Matches, Keeps

LEMMA DestroyedIs ==
    ASSUME Types, Placed, Life, NEW c \in Conns, Destroyed(c)
    PROVE  users = {} /\ Down(c) /\ conn[c].channel_.index_ = "kNew"
<1>1. Constructed(c) /\ ~Referenced(c)
  BY DEF Destroyed
<1>2. c \notin connections_ /\ ~UserHolds(c)
  BY <1>1 DEF Referenced
<1>3. conn[c].up > 0
  <2>1. conn[c].up \in Nat
    BY SoundConn, ConnFields
  <2>2. conn[c].up # 0
    BY <1>1, <1>2 DEF Placed, ConnPlaced
  <2>3. QED
    BY <2>1, <2>2
<1>4. users = {}
  BY <1>2, <1>3 DEF UserHolds
<1>5. Down(c) /\ Removed(c)
  BY <1>2, <1>3, <1>4 DEF Life, Staged, Stage, Early, Up, Down, Listed
<1>6. Nothing(ioLoop[c], "connectDestroyed", c)
  <2>1. ioLoop[c] \in Loops
    BY DEF Types, TypeOK
  <2>2. QED
    BY <1>1, <2>1, WorkKeeps DEF Referenced, SharedFns
<1>7. QED
  BY <1>4, <1>5, <1>6 DEF Removed

(***************************************************************************)
(* For any number of loops, connections and user threads: when the last    *)
(* TcpConnectionPtr goes, neither the poller nor the kernel knows the      *)
(* channel and no loop has it in activeChannels_.  A connection that its   *)
(* users keep is never destroyed; one that only its server keeps has been  *)
(* closed, taken out of connections_ and through connectDestroyed, which   *)
(* is queued behind every event of the channel (TcpServer.cpp:117-125,     *)
(* TcpConnection.cpp:241-250).                                             *)
(***************************************************************************)
THEOREM NoChannelDangles == Spec => []NoDanglingChannel
<1>1. ASSUME Types, Placed, Life PROVE NoDanglingChannel
  <2>1. SUFFICES ASSUME NEW c \in Conns, Destroyed(c)
                 PROVE  /\ ~conn[c].channel_.inMap /\ ~conn[c].channel_.registered
                        /\ \A l \in Loops : \A a \in active[l] : a[1] # c
    BY DEF NoDanglingChannel
  <2>2. Down(c) /\ conn[c].channel_.index_ = "kNew"
    BY <1>1, <2>1, DestroyedIs
  <2>3. InStep(conn[c].channel_)
    BY <1>1, SoundConn DEF ConnInv
  <2>4. QED
    BY <2>2, <2>3 DEF InStep, Down, Quiet
<1>2. QED
  BY <1>1, LifeAlways, PTL

(***************************************************************************)
(* For any number of loops, connections and user threads: while no other   *)
(* thread is given a connection, nothing is passed to write() after        *)
(* SHUT_WR: the state_ that send() tests left kConnected before it         *)
(* (TcpConnection.cpp:61-63, 142-149).                                     *)
(***************************************************************************)
THEOREM NothingIsSentAfterFin == Spec => NothingSentAfterFin
<1>1. ASSUME Types, Placed, Life, [Next]_vars, users = {}, NEW c \in Conns, conn[c].shutWr
      PROVE  conn'[c].sent = conn[c].sent
  <2>1. Tidy /\ Stage(c) /\ Refuses(conn[c])
    BY <1>1 DEF Life, Staged
  <2>2. conn[c].up > 0
    <3>1. conn[c].up \in Nat
      BY <1>1, SoundConn, ConnFields
    <3>2. QED
      BY <1>1, <3>1 DEF Placed, ConnPlaced
  <2>3. ~HandleAccept(c)
    BY <1>1, <2>2 DEF HandleAccept, Placed, ConnPlaced
  <2>4. CASE Untouched(c)
    BY <1>1, <2>1, <2>4 DEF Untouched, Kept
  <2>5. ASSUME NEW l \in Loops, Closes(l, c) PROVE conn'[c].sent = conn[c].sent
    <3>1. conn'[c] = handleClose(conn[c])
      BY <1>1, <2>5 DEF Closes, HandleClose, HandleReadEnd, Types, TypeOK
    <3>2. QED
      BY <1>1, <3>1, CloseFields, SoundConn
  <2>6. ASSUME NEW l \in Loops, RunsFor(l, c) PROVE conn'[c].sent = conn[c].sent
    <3>1. ~RunConnectEstablished(l)
      BY <1>1, <2>1, <2>2, <2>6, StageEstablished DEF RunsFor
    <3>2. CASE RunRemoveConnection(l)
      BY <3>2 DEF RunRemoveConnection
    <3>3. CASE RunConnectDestroyed(l)
      BY <1>1, <2>1, <2>6, <3>3, StageDestroys DEF RunsFor
    <3>4. QED
      BY <2>6, <3>1, <3>2, <3>3 DEF RunsFor
  <2>7. QED
    BY <1>1, <2>1, <2>3, <2>4, <2>5, <2>6, OneTouched DEF Touched
<1>2. Types /\ Placed /\ Life /\ [Next]_vars =>
          [\A c \in Conns :
              users = {} /\ conn[c].shutWr => conn'[c].sent = conn[c].sent]_vars
  BY <1>1
<1>3. QED
  BY <1>2, LifeAlways, PTL DEF Spec, NothingSentAfterFin

-----------------------------------------------------------------------------
(* The references to a connection, step by step.                           *)

\* What the loops keep in their functors.
Bound(c) == \E l \in Loops : Keeps(queue[l], c) \/ Keeps(batch[l], c)

LEMMA KeepsAppend ==
    ASSUME TypeOK, NEW x \in Loops, NEW f \in Functors, NEW c,
           queue' = [queue EXCEPT ![x] = Append(@, f)], NEW l \in Loops
    PROVE  /\ Keeps(queue'[l], c) => Keeps(queue[l], c) \/ f.conn = c
           /\ Keeps(queue[l], c) => Keeps(queue'[l], c)
<1>1. PICK q \in Seq(Functors) : q = queue[l]
  BY DEF TypeOK
<1>2. queue'[l] = IF l = x THEN Append(q, f) ELSE q
  BY <1>1 DEF TypeOK
<1>3. Keeps(Append(q, f), c) => Keeps(q, c) \/ f.conn = c
  BY QueueElement DEF Keeps
<1>4. Keeps(q, c) => Keeps(Append(q, f), c)
  <2>1. \A i \in DOMAIN q : i \in DOMAIN Append(q, f) /\ Append(q, f)[i] = q[i]
    OBVIOUS
  <2>2. QED
    BY <2>1 DEF Keeps
<1>5. QED
  BY <1>1, <1>2, <1>3, <1>4

LEMMA KeepsNamed ==
    ASSUME TypeOK, NEW x \in Loops, NEW d \in Conns, NEW names \in Seq(SharedFns),
           queueNames(x, d, names), NEW c, NEW l \in Loops, Keeps(queue'[l], c)
    PROVE  Keeps(queue[l], c) \/ c = d
<1>1. PICK q \in Seq(Functors) : q = queue[l]
  BY DEF TypeOK
<1>2. PICK s \in Seq(Functors) : s = [j \in DOMAIN names |-> Functor(names[j], d)]
  BY QueueNamesType
<1>3. \A j \in DOMAIN s : s[j].conn = d
  BY <1>2 DEF Functor
<1>4. queue'[l] = IF l = x THEN q \o s ELSE q
  BY <1>1, <1>2 DEF TypeOK, queueNames
<1>5. Keeps(q \o s, c) => Keeps(q, c) \/ c = d
  BY <1>3, ConcatElement DEF Keeps
<1>6. QED
  BY <1>1, <1>4, <1>5

LEMMA KeepsRemove ==
    ASSUME TypeOK, NEW x, NEW d \in Conns, removeConnection(x, d) \/ removeConnectionInLoop(d),
           NEW c, NEW l \in Loops
    PROVE  /\ Keeps(queue'[l], c) => Keeps(queue[l], c) \/ c = d
           /\ Keeps(queue[l], c) => Keeps(queue'[l], c)
<1>1. Base \in Loops /\ ioLoop[d] \in Loops
  BY DEF Loops, TypeOK
<1>2. PICK y \in Loops, g \in LifeFns : queue' = [queue EXCEPT ![y] = Append(@, Functor(g, d))]
  BY <1>1 DEF removeConnection, removeConnectionInLoop, LifeFns
<1>3. PICK f \in Functors : f = Functor(g, d) /\ f.conn = d
  BY LifeFunctor
<1>4. queue' = [queue EXCEPT ![y] = Append(@, f)]
  BY <1>2, <1>3
<1>5. QED
  BY <1>3, <1>4, KeepsAppend

\* The functor that runs keeps its connection to the end of the vector.
LEMMA RunningKeeps ==
    ASSUME TypeOK, NEW l \in Loops, NEW fn \in SharedFns, Running(l, fn)
    PROVE  Keeps(batch[l], Target(l)) /\ Keeps(batch'[l], Target(l))
<1>1. pos[l] \in DOMAIN batch[l] /\ batch[l][pos[l]].fn = fn /\ batch' = batch
  BY RunningFunctor DEF Running
<1>2. QED
  BY <1>1 DEF Keeps, Target

\* A functor is queued by someone who has the connection.
LEMMA BoundStep ==
    ASSUME Types, Placed, Tidy, users = {}, [Next]_vars, NEW c \in Conns, Bound(c)'
    PROVE  Referenced(c) \/ HandleAccept(c)
<1>1. TypeOK
  BY DEF Types
<1>2. PICK l \in Loops : Keeps(queue'[l], c) \/ Keeps(batch'[l], c)
  BY DEF Bound
<1>3. ASSUME NEW m \in Loops, Keeps(queue[m], c) \/ Keeps(batch[m], c) PROVE Referenced(c)
  BY <1>3 DEF Referenced
<1>4. CASE UNCHANGED <<queue, batch>>
  BY <1>2, <1>3, <1>4
<1>5. CASE UNCHANGED vars
  BY <1>4, <1>5 DEF vars, loopVars
<1>6. CASE \E d \in Conns : Client(d)
  BY <1>4, <1>6 DEF Client, ClientConnects, ClientSends, ClientReads, ClientCloses, ClientResets,
                    loopVars
<1>7. CASE Accept
  <2>1. ASSUME NEW d \in Conns, HandleAccept(d), getNextLoop # Base
        PROVE  Referenced(c) \/ HandleAccept(c)
    <3>1. PICK f \in Functors : f = Functor("connectEstablished", d) /\ f.conn = d
      BY LifeFunctor DEF LifeFns
    <3>2. queue' = [queue EXCEPT ![getNextLoop] = Append(@, f)] /\ batch' = batch
      BY <2>1, <3>1 DEF HandleAccept, newConnection
    <3>3. getNextLoop \in Loops
      BY <1>1, NextLoop
    <3>4. Keeps(queue[l], c) \/ Keeps(batch[l], c) \/ c = d
      BY <1>1, <1>2, <3>1, <3>2, <3>3, KeepsAppend
    <3>5. QED
      BY <1>3, <2>1, <3>4
  <2>2. QED
    BY <1>4, <1>7, <2>1 DEF Accept, HandleAccept, HandleAcceptFails, newConnection
<1>8. ASSUME NEW m \in Loops, LoopStep(m) \/ Message(m) PROVE Referenced(c)
  <2>1. CASE BeginPending(m) \/ EndPending(m)
    <3>1. queue \in [Loops -> Seq(Functors)] /\ batch \in [Loops -> Seq(Functors)]
      BY <1>1 DEF TypeOK
    <3>2. queue'[l] \in {queue[l], << >>} /\ batch'[l] \in {batch[l], queue[l], << >>}
      BY <2>1, <3>1 DEF BeginPending, EndPending
    <3>3. ~Keeps(<< >>, c)
      BY DEF Keeps
    <3>4. QED
      BY <1>2, <1>3, <3>2, <3>3
  <2>2. CASE HandleClose(m) \/ HandleReadEnd(m)
    <3>1. Handles(m) /\ removeConnection(m, cur[m]) /\ batch' = batch
      BY <2>2 DEF HandleClose, HandleReadEnd, Callback, Handles
    <3>2. cur[m] \in Conns
      BY <3>1, HeldAlive
    <3>3. Keeps(queue[l], c) \/ Keeps(batch[l], c) \/ cur[m] = c
      BY <1>1, <1>2, <3>1, <3>2, KeepsRemove
    <3>4. QED
      BY <1>3, <3>1, <3>3 DEF Handles, Guarded, Referenced
  <2>3. CASE HandleWrite(m) \/ \E len \in SendLens : MessageSends(m, len)
    <3>1. PICK names \in Seq(SharedFns) :
              Handles(m) /\ queueNames(m, cur[m], names) /\ batch' = batch
      BY <2>3, QueuedNames DEF HandleWrite, MessageSends, Callback, Handles, loopVars
    <3>2. cur[m] \in Conns
      BY <3>1, HeldAlive
    <3>3. Keeps(queue[l], c) \/ Keeps(batch[l], c) \/ cur[m] = c
      BY <1>1, <1>2, <3>1, <3>2, KeepsNamed
    <3>4. QED
      BY <1>3, <3>1, <3>3 DEF Handles, Guarded, Referenced
  <2>4. CASE RunRemoveConnection(m)
    <3>1. /\ Running(m, "removeConnectionInLoop") /\ removeConnectionInLoop(Target(m))
          /\ batch' = batch
      BY <2>4 DEF RunRemoveConnection, Running
    <3>2. Target(m) \in Conns
      BY <1>1, <3>1, RunningFunctor
    <3>3. Keeps(batch[m], Target(m))
      BY <1>1, <3>1, RunningKeeps DEF SharedFns
    <3>4. Keeps(queue[l], c) \/ Keeps(batch[l], c) \/ Target(m) = c
      BY <1>1, <1>2, <3>1, <3>2, KeepsRemove
    <3>5. QED
      BY <1>3, <3>3, <3>4
  <2>5. CASE \/ Poll(m) \/ EventHandled(m) \/ MessageReturns(m) \/ MessageShutsDown(m)
             \/ \E a \in active[m] : HandleEvent(m, a[1], a[2])
    <3>1. UNCHANGED <<queue, batch>>
      BY <2>5 DEF Poll, EventHandled, MessageReturns, MessageShutsDown, HandleEvent, loopVars
    <3>2. QED
      BY <1>2, <1>3, <3>1
  <2>6. CASE \/ HandleError(m) \/ HandleReadMessage(m) \/ HandleReadError(m)
             \/ RunConnectEstablished(m) \/ RunConnectDestroyed(m) \/ RunUserCallback(m)
    <3>1. UNCHANGED <<queue, batch>>
      BY <2>6 DEF HandleError, HandleReadMessage, HandleReadError, RunConnectEstablished,
            RunConnectDestroyed, RunUserCallback, Callback, Running
    <3>2. QED
      BY <1>2, <1>3, <3>1
  <2>7. ~RunSendInLoop(m) /\ ~RunShutdownInLoop(m)
    BY RunsShared
  <2>8. QED
    BY <1>8, <2>1, <2>2, <2>3, <2>4, <2>5, <2>6, <2>7 DEF LoopStep, Message
<1>9. QED
  BY <1>5, <1>6, <1>7, <1>8 DEF Next

\* A connection that is destroyed is never met again.
LEMMA StaysDestroyed ==
    ASSUME Types, Placed, Life, [Next]_vars, NEW c \in Conns, Destroyed(c)
    PROVE  Destroyed(c)'
<1>1. users = {} /\ Quiet(c) /\ Tidy /\ Constructed(c) /\ ~Referenced(c)
  BY DestroyedIs DEF Down, Life, Destroyed
<1>2. Constructed(c)'
  BY <1>1, StepStable DEF Stable
<1>3. ~HandleAccept(c)
  BY <1>1 DEF HandleAccept, Placed, ConnPlaced
<1>4. c \notin connections_'
  BY <1>1, <1>3, ServerSets DEF Referenced
<1>5. ~Bound(c)'
  BY <1>1, <1>3, BoundStep
<1>6. ASSUME NEW l \in Loops PROVE ~Guarded(l, c)'
  <2>1. CurStep(l) /\ ~Guarded(l, c) /\ \A a \in active[l] : a[1] # c
    BY <1>1, LoopHands DEF Referenced, Quiet
  <2>2. QED
    BY <2>1 DEF CurStep, Guarded, Handles
<1>7. ~UserHolds(c)'
  BY <1>1, UserStep DEF UserHolds, Types
<1>8. ~Referenced(c)'
  BY <1>4, <1>5, <1>6, <1>7 DEF Referenced, Bound
<1>9. QED
  BY <1>2, <1>8 DEF Destroyed

-----------------------------------------------------------------------------
(* The server implements ConnectionLifecycle.                              *)

LEMMA Mapped ==
    ASSUME users = {}
    PROVE  /\ timesUp = [x \in Conns |-> conn[x].up]
           /\ timesDown = [x \in Conns |-> conn[x].down]
           /\ destroyed = {x \in Conns : Destroyed(x)}
BY DEF timesUp, timesDown, destroyed

LEMMA MappedNext ==
    ASSUME users' = {}
    PROVE  /\ timesUp' = [x \in Conns |-> conn[x].up]'
           /\ timesDown' = [x \in Conns |-> conn[x].down]'
           /\ destroyed' = {x \in Conns : Destroyed(x)}'
BY DEF timesUp, timesDown, destroyed

ComesUpNow(c) ==
    \/ HandleAccept(c) /\ getNextLoop = Base
    \/ \E l \in Loops : RunConnectEstablished(l) /\ Target(l) = c

GoesDownNow(c) == \E l \in Loops : Closes(l, c)

\* Nothing is destroyed by a step that leaves the loops where they are, takes
\* no functor away and at most connection c out of connections_.
LEMMA OthersKept ==
    ASSUME NEW c, NEW d \in Conns, d # c, Constructed(d), Referenced(d), users = {},
           UNCHANGED <<phase, cur, batch>>, connections_ \ {c} \subseteq connections_',
           \A l \in Loops : Keeps(queue[l], d) => Keeps(queue'[l], d)
    PROVE  ~Destroyed(d)'
<1>1. Referenced(d)'
  BY DEF Referenced, Guarded, UserHolds
<1>2. QED
  BY <1>1 DEF Destroyed

LEMMA UpNow ==
    ASSUME Types, Placed, Life, users = {}, [Next]_vars, NEW c \in Conns, ComesUpNow(c)
    PROVE  /\ conn[c].up = 0 /\ conn[c].down = 0 /\ Up(c)'
           /\ \A d \in Conns : d # c => conn'[d] = conn[d]
           /\ UNCHANGED <<queue, batch, phase, cur>> /\ connections_ \subseteq connections_'
<1>1. TypeOK /\ conn \in [Conns -> ConnectionType] /\ Stage(c)
  BY DEF Types, TypeOK, Life, Staged
<1>2. CASE HandleAccept(c) /\ getNextLoop = Base
  <2>1. /\ UNCHANGED <<queue, batch, phase, cur>> /\ connections_ \subseteq connections_'
        /\ \E v : conn' = [conn EXCEPT ![c] = v]
    BY <1>2 DEF HandleAccept, newConnection
  <2>2. conn[c].up = 0 /\ conn[c].down = 0 /\ Up(c)'
    BY <1>2, StageAccept
  <2>3. QED
    BY <1>1, <2>1, <2>2
<1>3. ASSUME NEW l \in Loops, RunConnectEstablished(l), Target(l) = c
      PROVE  /\ conn[c].up = 0 /\ conn[c].down = 0 /\ Up(c)'
             /\ \A d \in Conns : d # c => conn'[d] = conn[d]
             /\ UNCHANGED <<queue, batch, phase, cur>> /\ connections_ \subseteq connections_'
  <2>1. /\ UNCHANGED <<queue, batch, phase, cur, connections_>>
        /\ \E v : conn' = [conn EXCEPT ![c] = v]
    BY <1>3 DEF RunConnectEstablished, Running
  <2>2. conn[c].up = 0 /\ Up(c)'
    BY <1>1, <1>3, StageEstablished
  <2>3. conn[c].down = 0
    BY <2>2 DEF Placed, ConnPlaced
  <2>4. QED
    BY <1>1, <2>1, <2>2, <2>3
<1>4. QED
  BY <1>2, <1>3 DEF ComesUpNow

LEMMA DownNow ==
    ASSUME Types, Placed, Life, users = {}, [Next]_vars, NEW c \in Conns, GoesDownNow(c)
    PROVE  /\ Up(c) /\ Down(c)' /\ ~Destroyed(c)'
           /\ \A d \in Conns : d # c => conn'[d] = conn[d]
           /\ UNCHANGED <<batch, phase, cur>> /\ connections_ \ {c} \subseteq connections_'
           /\ \A d \in Conns, m \in Loops : Keeps(queue[m], d) => Keeps(queue'[m], d)
<1>1. TypeOK /\ conn \in [Conns -> ConnectionType] /\ Stage(c) /\ Tidy
  BY DEF Types, TypeOK, Life, Staged
<1>2. PICK l \in Loops : Closes(l, c)
  BY DEF GoesDownNow
<1>3. Up(c) /\ Down(c)'
  BY <1>1, <1>2, StageCloses
<1>4. /\ phase[l] = "event" /\ cur[l] = c /\ UNCHANGED <<batch, phase, cur>>
      /\ removeConnection(l, c) /\ \E v : conn' = [conn EXCEPT ![c] = v]
  BY <1>2 DEF Closes, HandleClose, HandleReadEnd, Callback
<1>5. \A d \in Conns : d # c => conn'[d] = conn[d]
  BY <1>1, <1>4
<1>6. Guarded(l, c)'
  BY <1>4 DEF Guarded
<1>7. ~Destroyed(c)'
  BY <1>6 DEF Destroyed, Referenced
<1>8. connections_ \ {c} \subseteq connections_'
  BY <1>4 DEF removeConnection, removeConnectionInLoop
<1>9. \A d \in Conns, m \in Loops : Keeps(queue[m], d) => Keeps(queue'[m], d)
  BY <1>1, <1>4, KeepsRemove
<1>10. QED
  BY <1>3, <1>4, <1>5, <1>7, <1>8, <1>9

\* Every other step leaves the reports as they are.
LEMMA NoReport ==
    ASSUME Types, Placed, Life, users = {}, [Next]_vars, NEW c \in Conns,
           ~ComesUpNow(c), ~GoesDownNow(c)
    PROVE  conn'[c].up = conn[c].up /\ conn'[c].down = conn[c].down
<1>1. Tidy /\ Stage(c)
  BY DEF Life, Staged
<1>2. CASE HandleAccept(c)
  BY <1>2, StageAccept DEF ComesUpNow
<1>3. CASE Untouched(c)
  BY <1>3 DEF Untouched, Kept
<1>4. ASSUME NEW l \in Loops, RunsFor(l, c)
      PROVE  conn'[c].up = conn[c].up /\ conn'[c].down = conn[c].down
  <2>1. CASE RunRemoveConnection(l)
    BY <2>1 DEF RunRemoveConnection
  <2>2. CASE RunConnectDestroyed(l)
    BY <1>1, <1>4, <2>2, StageDestroys DEF RunsFor
  <2>3. QED
    BY <1>4, <2>1, <2>2 DEF RunsFor, ComesUpNow
<1>5. QED
  BY <1>1, <1>2, <1>3, <1>4, OneTouched DEF Touched, GoesDownNow

Whole == Types /\ Placed /\ Life

LEMMA WholeDestroyed == Whole => \A c \in Conns : Destroyed(c) => Down(c)
BY DestroyedIs DEF Whole

LEMMA WholeDestroyedNext == Whole' => \A c \in Conns : Destroyed(c)' => Down(c)'
<1>1. Whole' => (\A c \in Conns : Destroyed(c) => Down(c))'
  BY WholeDestroyed, PTL
<1>2. QED
  BY <1>1

LEMMA LifecycleUp ==
    ASSUME Whole, Whole', users = {}, [Next]_vars, NEW c \in Conns, ComesUpNow(c)
    PROVE  CL!ComesUp(c)
<1>1. /\ conn[c].up = 0 /\ conn[c].down = 0 /\ Up(c)'
      /\ \A d \in Conns : d # c => conn'[d] = conn[d]
      /\ UNCHANGED <<queue, batch, phase, cur>> /\ connections_ \subseteq connections_'
  BY UpNow DEF Whole
<1>2. conn'[c].up = 1 /\ conn'[c].down = 0
  BY <1>1 DEF Up
<1>3. ASSUME NEW d \in Conns PROVE Destroyed(d)' <=> Destroyed(d)
  <2>1. Destroyed(d) => Destroyed(d)'
    BY StaysDestroyed DEF Whole
  <2>2. CASE d = c
    <3>1. ~Destroyed(c)'
      BY <1>2, WholeDestroyedNext DEF Down
    <3>2. QED
      BY <2>1, <2>2, <3>1
  <2>3. CASE d # c
    <3>1. Constructed(d)' => Constructed(d)
      BY <1>1, <2>3 DEF Constructed
    <3>2. Constructed(d) /\ Referenced(d) => ~Destroyed(d)'
      BY <1>1, <2>3, OthersKept
    <3>3. QED
      BY <2>1, <3>1, <3>2 DEF Destroyed
  <2>4. QED
    BY <2>2, <2>3
<1>4. [x \in Conns |-> conn[x].up]' = [[x \in Conns |-> conn[x].up] EXCEPT ![c] = 1]
  BY <1>1, <1>2
<1>5. [x \in Conns |-> conn[x].down]' = [x \in Conns |-> conn[x].down]
  BY <1>1, <1>2
<1>6. {x \in Conns : Destroyed(x)}' = {x \in Conns : Destroyed(x)}
  BY <1>3
<1>7. users' = {}
  BY UserStep DEF Whole, Types
<1>8. QED
  BY <1>1, <1>4, <1>5, <1>6, <1>7, Mapped, MappedNext DEF CL!ComesUp

LEMMA LifecycleDown ==
    ASSUME Whole, users = {}, [Next]_vars, NEW c \in Conns, GoesDownNow(c)
    PROVE  CL!GoesDown(c)
<1>1. /\ Up(c) /\ Down(c)' /\ ~Destroyed(c)'
      /\ \A d \in Conns : d # c => conn'[d] = conn[d]
      /\ UNCHANGED <<batch, phase, cur>> /\ connections_ \ {c} \subseteq connections_'
      /\ \A d \in Conns, m \in Loops : Keeps(queue[m], d) => Keeps(queue'[m], d)
  BY DownNow DEF Whole
<1>2. conn[c].up = 1 /\ conn[c].down = 0 /\ conn'[c].up = 1 /\ conn'[c].down = 1
  BY <1>1 DEF Up, Down
<1>3. ASSUME NEW d \in Conns PROVE Destroyed(d)' <=> Destroyed(d)
  <2>1. Destroyed(d) => Destroyed(d)'
    BY StaysDestroyed DEF Whole
  <2>2. CASE d = c
    BY <1>1, <2>1, <2>2
  <2>3. CASE d # c
    <3>1. Constructed(d)' => Constructed(d)
      BY <1>1, <2>3 DEF Constructed
    <3>2. Constructed(d) /\ Referenced(d) => ~Destroyed(d)'
      BY <1>1, <2>3, OthersKept
    <3>3. QED
      BY <2>1, <3>1, <3>2 DEF Destroyed
  <2>4. QED
    BY <2>2, <2>3
<1>4. [x \in Conns |-> conn[x].down]' = [[x \in Conns |-> conn[x].down] EXCEPT ![c] = 1]
  BY <1>1, <1>2
<1>5. [x \in Conns |-> conn[x].up]' = [x \in Conns |-> conn[x].up]
  BY <1>1, <1>2
<1>6. {x \in Conns : Destroyed(x)}' = {x \in Conns : Destroyed(x)}
  BY <1>3
<1>7. users' = {}
  BY UserStep DEF Whole, Types
<1>8. QED
  BY <1>2, <1>4, <1>5, <1>6, <1>7, Mapped, MappedNext DEF CL!GoesDown

\* A step that reports nothing may destroy what is down.
LEMMA LifecycleGo ==
    ASSUME Whole, Whole', users = {}, [Next]_vars,
           \A c \in Conns : ~ComesUpNow(c) /\ ~GoesDownNow(c)
    PROVE  \E C \in SUBSET Conns : CL!Go(C)
<1> DEFINE C == {x \in Conns : Destroyed(x)' /\ ~Destroyed(x)}
<1>1. \A x \in Conns : conn'[x].up = conn[x].up /\ conn'[x].down = conn[x].down
  BY NoReport DEF Whole
<1>2. [x \in Conns |-> conn[x].up]' = [x \in Conns |-> conn[x].up]
  BY <1>1
<1>3. [x \in Conns |-> conn[x].down]' = [x \in Conns |-> conn[x].down]
  BY <1>1
<1>4. \A x \in Conns : Destroyed(x) => Destroyed(x)'
  BY StaysDestroyed DEF Whole
<1>5. {x \in Conns : Destroyed(x)}' = {x \in Conns : Destroyed(x)} \cup C
  BY <1>4
<1>6. ASSUME NEW x \in C
      PROVE  x \notin {y \in Conns : Destroyed(y)} /\ [y \in Conns |-> conn[y].down][x] = 1
  <2>1. x \in Conns /\ Destroyed(x)' /\ ~Destroyed(x)
    OBVIOUS
  <2>2. conn'[x].down = 1
    BY <2>1, WholeDestroyedNext DEF Down
  <2>3. QED
    BY <1>1, <2>1, <2>2
<1>7. users' = {}
  BY UserStep DEF Whole, Types
<1>8. CL!Go(C)
  BY <1>2, <1>3, <1>5, <1>6, <1>7, Mapped, MappedNext DEF CL!Go
<1>9. QED
  BY <1>8

(***************************************************************************)
(* For any number of loops, connections and user threads: while no other   *)
(* thread is given a connection, the connection callback reports every     *)
(* connection up once, then down once, and what is destroyed was reported  *)
(* down (TcpServer.cpp:81-125, TcpConnection.cpp:163-182, 241-250).        *)
(***************************************************************************)
THEOREM ImplementsLifecycle == Spec => ReportsUpAndDown
<1>1. ASSUME Init PROVE CL!Init
  <2>1. \A c \in Conns : conn[c].up = 0 /\ conn[c].down = 0 /\ conn[c].state_ = "unborn"
    BY <1>1 DEF Init, Unborn
  <2>2. \A c \in Conns : ~Destroyed(c)
    BY <2>1 DEF Destroyed, Constructed
  <2>3. QED
    BY <2>1, <2>2 DEF CL!Init, timesUp, timesDown, destroyed
<1>2. Whole /\ Whole' /\ [Next]_vars => [CL!Next]_(CL!vars)
  <2>1. SUFFICES ASSUME Whole, Whole', [Next]_vars PROVE [CL!Next]_(CL!vars)
    OBVIOUS
  <2>2. CASE users = {}
    BY <2>1, <2>2, LifecycleUp, LifecycleDown, LifecycleGo DEF CL!Next
  <2>3. CASE users # {}
    <3>1. users' # {}
      BY <2>1, <2>3, UserStep DEF Whole, Types
    <3>2. timesUp' = timesUp /\ timesDown' = timesDown /\ destroyed' = destroyed
      BY <2>3, <3>1 DEF timesUp, timesDown, destroyed
    <3>3. QED
      BY <3>2 DEF CL!vars
  <2>4. QED
    BY <2>2, <2>3
<1>3. Spec => []Whole
  BY LifeAlways DEF Whole
<1>4. QED
  BY <1>1, <1>2, <1>3, PTL DEF Spec, ReportsUpAndDown, CL!Spec

=============================================================================
