---------------------- MODULE SqlConnectionPool_proofs ----------------------
(***************************************************************************)
(* The pool keeps its connections, for every number of threads and of      *)
(* connections.  Conservation is inductive together with the types; the    *)
(* bound on m_FreeConn in TypeOK follows from it, because connList lists   *)
(* no connection twice.                                                    *)
(***************************************************************************)
EXTENDS SqlConnectionPool, FiniteSetTheorems, TLAPS

\* TypeOK without the bound on m_FreeConn.
Types ==
    /\ connList \in Seq(Mysqls)
    /\ m_FreeConn \in Int
    /\ m_CurConn \in Int
    /\ waiting \in SUBSET Threads
    /\ notified \in SUBSET Threads
    /\ pc \in [Threads -> Pcs]
    /\ op \in [Threads -> Ops]
    /\ name \in [Threads -> Names]
    /\ sqlconn \in [Threads -> Mysqls \cup {nullptr}]
    /\ fails \in [Threads -> BOOLEAN]
    /\ userdata \in [Names -> Nat]
    /\ closed \in SUBSET Mysqls
    /\ requests \in [Threads -> 0..MaxRequests]

\* What thread t may have done to pc and op after a step that ends there.
\* After Continue a thread holds no place where a connection is held.
LEMMA ContinuePc ==
    ASSUME Types, NEW t \in Threads, Continue(t)
    PROVE  /\ pc' \in [Threads -> Pcs]
           /\ op' \in [Threads -> Ops]
           /\ pc'[t] \in {"size", "idle"}
           /\ \A u \in Threads : u # t => pc'[u] = pc[u]
  BY DEF Types, Continue, Pcs, Ops

\* The same of the continuation of ReleaseConnection.
LEMMA AfterReleasePc ==
    ASSUME Types, NEW t \in Threads, AfterRelease(t)
    PROVE  /\ pc' \in [Threads -> Pcs]
           /\ op' \in [Threads -> Ops]
           /\ pc'[t] \in {"size", "idle"}
           /\ \A u \in Threads : u # t => pc'[u] = pc[u]
  <1>1. CASE op[t] = "precheck" /\ fails[t]
    BY <1>1 DEF Types, AfterRelease, Pcs
  <1>2. CASE ~(op[t] = "precheck" /\ fails[t])
    BY <1>2, ContinuePc DEF AfterRelease
  <1> QED
    BY <1>1, <1>2

\* Taking the front connection, which a positive m_FreeConn guarantees,
\* moves one connection from connList to the thread.
LEMMA TakeInv ==
    ASSUME Types, Conservation, NEW t \in Threads, Take(t), m_FreeConn > 0,
           sqlconn[t] = nullptr, closed' = closed
    PROVE  /\ connList' \in Seq(Mysqls)
           /\ m_FreeConn' \in Int /\ m_CurConn' \in Int
           /\ pc' \in [Threads -> Pcs]
           /\ sqlconn' \in [Threads -> Mysqls \cup {nullptr}]
           /\ Conservation'
  <1> DEFINE h == Head(connList)
  <1>1. /\ Len(connList) \in Nat /\ Len(connList) > 0
        /\ h = connList[1] /\ h \in Mysqls
        /\ connList' \in Seq(Mysqls) /\ Len(connList') = Len(connList) - 1
        /\ \A i \in 1..(Len(connList) - 1) : connList'[i] = connList[i + 1]
    BY DEF Types, Conservation, Take
  <1>2. /\ DOMAIN connList = 1..Len(connList)
        /\ DOMAIN connList' = 1..(Len(connList) - 1)
    BY <1>1 DEF Types
  <1>3. /\ m_FreeConn' \in Int /\ m_CurConn' \in Int
        /\ m_FreeConn' = Len(connList')
    BY <1>1 DEF Types, Conservation, Take
  <1>4. /\ pc' \in [Threads -> Pcs]
        /\ sqlconn' \in [Threads -> Mysqls \cup {nullptr}]
        /\ sqlconn'[t] = h /\ pc'[t] = "query"
        /\ \A u \in Threads \ {t} : sqlconn'[u] = sqlconn[u] /\ pc'[u] = pc[u]
    BY <1>1 DEF Types, Take, Pcs
  <1>5. \A i, j \in DOMAIN connList' : connList'[i] = connList'[j] => i = j
    <2> SUFFICES ASSUME NEW i \in 1..(Len(connList) - 1), NEW j \in 1..(Len(connList) - 1),
                        connList'[i] = connList'[j]
                 PROVE  i = j
      BY <1>2
    <2>1. /\ i + 1 \in DOMAIN connList /\ j + 1 \in DOMAIN connList
          /\ connList[i + 1] = connList[j + 1]
      BY <1>1, <1>2
    <2>2. i + 1 = j + 1
      BY <2>1 DEF Conservation
    <2> QED BY <2>2
  <1>6. Free(h) /\ h # nullptr
    BY <1>1, <1>2, NullAssumption DEF Free
  <1>7. \A m \in Mysqls : Free(m)' <=> Free(m) /\ m # h
    <2> TAKE m \in Mysqls
    <2>1. ASSUME Free(m)' PROVE Free(m) /\ m # h
      <3>1. PICK i \in 1..(Len(connList) - 1) : connList'[i] = m
        BY <2>1, <1>2 DEF Free
      <3>2. connList[i + 1] = m /\ i + 1 \in DOMAIN connList /\ 1 \in DOMAIN connList /\ i + 1 # 1
        BY <3>1, <1>1, <1>2
      <3> QED BY <3>2, <1>1 DEF Free, Conservation
    <2>2. ASSUME Free(m), m # h PROVE Free(m)'
      <3>1. PICK i \in 1..Len(connList) : connList[i] = m
        BY <2>2, <1>2 DEF Free
      <3>2. i - 1 \in DOMAIN connList' /\ connList'[i - 1] = m
        BY <3>1, <2>2, <1>1, <1>2
      <3> QED BY <3>2 DEF Free
    <2> QED BY <2>1, <2>2
  <1>8. \A m \in Mysqls : Held(m)' <=> Held(m) \/ m = h
    BY <1>4, NullAssumption DEF Held
  <1>9. \A u, v \in Threads : sqlconn'[u] = sqlconn'[v] /\ sqlconn'[u] # nullptr => u = v
    <2>1. \A u \in Threads : sqlconn[u] # h
      BY <1>6, <1>1 DEF Conservation, Held
    <2> QED BY <2>1, <1>4 DEF Conservation
  <1>10. \A m \in Mysqls : Free(m)' \/ Held(m)' \/ m \in closed'
    BY <1>7, <1>8 DEF Conservation
  <1>11. \A m \in Mysqls : ~(Free(m)' /\ Held(m)') /\ (m \in closed' => ~Free(m)' /\ ~Held(m)')
    BY <1>6, <1>7, <1>8 DEF Conservation
  <1>12. \A u \in Threads : sqlconn'[u] # nullptr <=> pc'[u] \in {"query", "release"}
    BY <1>4, <1>6 DEF Conservation
  <1> QED
    BY <1>1, <1>3, <1>4, <1>5, <1>9, <1>10, <1>11, <1>12 DEF Conservation

\* Giving a connection back moves it to the end of connList.
LEMMA ReleaseInv ==
    ASSUME Types, Conservation, NEW t \in Threads, Release(t)
    PROVE  Types' /\ Conservation'
  <1> DEFINE c == sqlconn[t]
  <1>1. c # nullptr /\ c \in Mysqls
    BY DEF Types, Conservation, Release
  <1>2. /\ Len(connList) \in Nat
        /\ connList' \in Seq(Mysqls) /\ Len(connList') = Len(connList) + 1
        /\ DOMAIN connList = 1..Len(connList)
        /\ DOMAIN connList' = 1..(Len(connList) + 1)
        /\ \A i \in 1..Len(connList) : connList'[i] = connList[i]
        /\ connList'[Len(connList) + 1] = c
    BY <1>1 DEF Types, Release
  <1>3. /\ pc' \in [Threads -> Pcs]
        /\ sqlconn' \in [Threads -> Mysqls \cup {nullptr}]
        /\ sqlconn'[t] = nullptr /\ pc'[t] = "notify"
        /\ \A u \in Threads \ {t} : sqlconn'[u] = sqlconn[u] /\ pc'[u] = pc[u]
    BY DEF Types, Release, Pcs
  <1>4. Types'
    BY <1>2, <1>3 DEF Types, Release, cvVars
  <1>5. m_FreeConn' = Len(connList') /\ closed' = closed
    BY <1>2 DEF Conservation, Release
  <1>6. Held(c) /\ ~Free(c)
    BY <1>1 DEF Held, Conservation
  <1>7. \A i, j \in DOMAIN connList' : connList'[i] = connList'[j] => i = j
    <2>1. \A i \in 1..Len(connList) : connList[i] # c
      BY <1>2, <1>6 DEF Free
    <2> QED BY <2>1, <1>2 DEF Conservation
  <1>8. \A m \in Mysqls : Free(m)' <=> Free(m) \/ m = c
    <2> TAKE m \in Mysqls
    <2>1. ASSUME Free(m)' PROVE Free(m) \/ m = c
      BY <2>1, <1>2 DEF Free
    <2>2. ASSUME Free(m) PROVE Free(m)'
      <3>1. PICK i \in 1..Len(connList) : connList[i] = m
        BY <2>2, <1>2 DEF Free
      <3>2. i \in DOMAIN connList' /\ connList'[i] = m
        BY <3>1, <1>2
      <3> QED BY <3>2 DEF Free
    <2>3. ASSUME m = c PROVE Free(m)'
      <3>1. Len(connList) + 1 \in DOMAIN connList'
        BY <1>2
      <3> QED BY <2>3, <3>1, <1>2 DEF Free
    <2> QED BY <2>1, <2>2, <2>3
  <1>9. \A m \in Mysqls : Held(m)' <=> Held(m) /\ m # c
    <2> TAKE m \in Mysqls
    <2>1. m # nullptr
      BY NullAssumption
    <2>2. ASSUME Held(m)' PROVE Held(m) /\ m # c
      <3>1. PICK u \in Threads : sqlconn'[u] = m
        BY <2>2 DEF Held
      <3>2. u # t /\ sqlconn[u] = m
        BY <3>1, <2>1, <1>3
      <3> QED BY <3>2, <2>1 DEF Held, Conservation
    <2>3. ASSUME Held(m), m # c PROVE Held(m)'
      BY <2>3, <1>3 DEF Held
    <2> QED BY <2>2, <2>3
  <1>10. \A u, v \in Threads : sqlconn'[u] = sqlconn'[v] /\ sqlconn'[u] # nullptr => u = v
    BY <1>3 DEF Conservation
  <1>11. \A m \in Mysqls : Free(m)' \/ Held(m)' \/ m \in closed'
    BY <1>5, <1>8, <1>9 DEF Conservation
  <1>12. \A m \in Mysqls : ~(Free(m)' /\ Held(m)') /\ (m \in closed' => ~Free(m)' /\ ~Held(m)')
    BY <1>5, <1>6, <1>8, <1>9 DEF Conservation
  <1>13. \A u \in Threads : sqlconn'[u] # nullptr <=> pc'[u] \in {"query", "release"}
    BY <1>3 DEF Conservation
  <1> QED
    BY <1>4, <1>5, <1>7, <1>10, <1>11, <1>12, <1>13 DEF Conservation

\* A step that leaves the pool and the connections held alone.
LEMMA QuietInv ==
    ASSUME Conservation, UNCHANGED <<connList, m_FreeConn, sqlconn, closed>>,
           \A u \in Threads : sqlconn[u] # nullptr <=> pc'[u] \in {"query", "release"}
    PROVE  Conservation'
  BY DEF Conservation, Free, Held

\* DestroyPool closes exactly the free connections.
LEMMA DestroyInv ==
    ASSUME Types, Conservation, DestroyPool
    PROVE  Types' /\ Conservation'
  <1>1. /\ connList' = << >> /\ Len(connList') = 0 /\ DOMAIN connList' = {}
        /\ connList' \in Seq(Mysqls)
    BY DEF DestroyPool
  <1>2. \A m \in Mysqls : m \in closed' <=> m \in closed \/ Free(m)
    BY DEF DestroyPool, Free
  <1>3. closed' \in SUBSET Mysqls
    BY DEF Types, DestroyPool
  <1>4. Types'
    BY <1>1, <1>3 DEF Types, DestroyPool, cvVars
  <1>5. \A m \in Mysqls : ~Free(m)' /\ (Held(m)' <=> Held(m))
    BY <1>1 DEF Free, Held, DestroyPool
  <1> QED
    BY <1>1, <1>2, <1>4, <1>5 DEF Conservation, DestroyPool

\* The steps of GetConnection.
LEMMA GetConnectionInv ==
    ASSUME Types, Conservation, NEW t \in Threads,
           TestSize(t) \/ Lock(t) \/ WakeAndTest(t) \/ Timeout(t)
    PROVE  Types' /\ Conservation'
  <1>1. sqlconn[t] = nullptr
    BY DEF Types, Conservation, TestSize, Lock, WakeAndTest, Timeout
  <1>2. ASSUME Take(t), m_FreeConn > 0, closed' = closed,
               op' = op, name' = name, fails' = fails, userdata' = userdata,
               requests' = requests, waiting' \in SUBSET Threads, notified' \in SUBSET Threads
        PROVE  Types' /\ Conservation'
    BY <1>1, <1>2, TakeInv DEF Types
  <1>3. ASSUME NoConnection(t), UNCHANGED <<poolVars, sqlconn, closed, name, userdata, requests>>,
               waiting' \in SUBSET Threads, notified' \in SUBSET Threads
        PROVE  Types' /\ Conservation'
    <2>1. /\ pc' \in [Threads -> Pcs] /\ op' \in [Threads -> Ops]
          /\ pc'[t] \in {"size", "idle"}
          /\ \A u \in Threads : u # t => pc'[u] = pc[u]
      BY <1>3, ContinuePc DEF NoConnection
    <2>2. fails' \in [Threads -> BOOLEAN]
      BY <1>3 DEF NoConnection, Types
    <2>3. Types'
      BY <1>3, <2>1, <2>2 DEF Types, poolVars
    <2>4. \A u \in Threads : sqlconn[u] # nullptr <=> pc'[u] \in {"query", "release"}
      BY <1>1, <2>1 DEF Conservation
    <2> QED BY <1>3, <2>3, <2>4, QuietInv DEF poolVars
  <1>4. ASSUME pc' \in [Threads -> Pcs], pc'[t] \in {"lock", "wait"},
               \A u \in Threads : u # t => pc'[u] = pc[u],
               UNCHANGED <<poolVars, sqlconn, closed, op, name, fails, userdata, requests>>,
               waiting' \in SUBSET Threads, notified' \in SUBSET Threads
        PROVE  Types' /\ Conservation'
    <2>1. Types'
      BY <1>4 DEF Types, poolVars
    <2>2. \A u \in Threads : sqlconn[u] # nullptr <=> pc'[u] \in {"query", "release"}
      BY <1>1, <1>4 DEF Conservation
    <2> QED BY <1>4, <2>1, <2>2, QuietInv DEF poolVars
  <1>5. CASE TestSize(t)
    <2>1. CASE connList = << >>
      BY <1>5, <2>1, <1>3 DEF TestSize, Types, cvVars
    <2>2. CASE connList # << >>
      BY <1>5, <2>2, <1>4 DEF TestSize, Types, cvVars, Pcs
    <2> QED BY <2>1, <2>2
  <1>6. CASE Lock(t)
    <2>1. CASE m_FreeConn > 0
      BY <1>6, <2>1, <1>2 DEF Lock, Types
    <2>2. CASE ~(m_FreeConn > 0)
      BY <1>6, <2>2, <1>4 DEF Lock, Types, Pcs
    <2> QED BY <2>1, <2>2
  <1>7. CASE WakeAndTest(t)
    <2>1. CASE m_FreeConn > 0
      BY <1>7, <2>1, <1>2 DEF WakeAndTest, Types
    <2>2. CASE ~(m_FreeConn > 0)
      BY <1>7, <2>2, <1>4 DEF WakeAndTest, Types, Pcs
    <2> QED BY <2>1, <2>2
  <1>8. CASE Timeout(t)
    <2>1. CASE m_FreeConn > 0
      BY <1>8, <2>1, <1>2 DEF Timeout, Types
    <2>2. CASE ~(m_FreeConn > 0)
      BY <1>8, <2>2, <1>3 DEF Timeout, Types
    <2> QED BY <2>1, <2>2
  <1> QED
    BY <1>5, <1>6, <1>7, <1>8

\* The steps around GetConnection and ReleaseConnection.
LEMMA RequestInv ==
    ASSUME Types, Conservation, NEW t \in Threads,
           \/ \E o \in {"login", "precheck"}, n \in Names : Begin(t, o, n)
           \/ QueryFails(t) \/ Select(t) \/ Insert(t) \/ Notify(t)
    PROVE  Types' /\ Conservation'
  <1>1. CASE \E o \in {"login", "precheck"}, n \in Names : Begin(t, o, n)
    <2>1. PICK o \in {"login", "precheck"}, n \in Names : Begin(t, o, n)
      BY <1>1
    <2>2. requests' \in [Threads -> 0..MaxRequests]
      BY <2>1, MaxRequestsAssumption DEF Begin, Types
    <2>3. Types'
      BY <2>1, <2>2 DEF Begin, Types, Pcs, Ops, poolVars, cvVars
    <2> QED BY <2>1, <2>3, QuietInv DEF Begin, Types, Conservation, poolVars
  <1>2. CASE QueryFails(t)
    <2>1. Types'
      BY <1>2 DEF QueryFails, Types, Pcs, poolVars, cvVars
    <2> QED BY <1>2, <2>1, QuietInv DEF QueryFails, Types, Conservation, poolVars
  <1>3. CASE Select(t)
    <2>1. fails' \in [Threads -> BOOLEAN]
      BY <1>3 DEF Select, Types
    <2>2. Types'
      BY <1>3, <2>1 DEF Select, Types, Pcs, poolVars, cvVars
    <2> QED BY <1>3, <2>2, QuietInv DEF Select, Types, Conservation, poolVars
  <1>4. CASE Insert(t)
    <2>1. Types'
      BY <1>4 DEF Insert, Types, Pcs, poolVars, cvVars
    <2> QED BY <1>4, <2>1, QuietInv DEF Insert, Types, Conservation, poolVars
  <1>5. CASE Notify(t)
    <2>1. /\ pc' \in [Threads -> Pcs] /\ op' \in [Threads -> Ops]
          /\ pc'[t] \in {"size", "idle"}
          /\ \A u \in Threads : u # t => pc'[u] = pc[u]
      BY <1>5, AfterReleasePc DEF Notify
    <2>2. waiting' \in SUBSET Threads /\ notified' \in SUBSET Threads
      BY <1>5 DEF Notify, Types, cvVars
    <2>3. Types'
      BY <1>5, <2>1, <2>2 DEF Notify, Types, poolVars
    <2>4. \A u \in Threads : sqlconn[u] # nullptr <=> pc'[u] \in {"query", "release"}
      BY <1>5, <2>1 DEF Notify, Conservation
    <2> QED BY <1>5, <2>3, <2>4, QuietInv DEF Notify, poolVars
  <1> QED
    BY <1>1, <1>2, <1>3, <1>4, <1>5

\* After init() every connection is free.
LEMMA InitInv ==
    ASSUME Init
    PROVE  Types /\ Conservation
  <1>1. Cardinality(Mysqls) \in Nat
    BY MysqlsAssumption, FS_CardinalityType
  <1>2. /\ connList \in Seq(Mysqls) /\ Len(connList) = Cardinality(Mysqls)
        /\ \A i, j \in DOMAIN connList : connList[i] = connList[j] => i = j
        /\ \A m \in Mysqls : Free(m)
    BY <1>1 DEF Init, Listings, Free
  <1>3. \A m \in Mysqls : ~Held(m)
    BY NullAssumption DEF Init, Held
  <1>4. Types
    BY <1>1, <1>2, MaxRequestsAssumption DEF Init, Types, Pcs, Ops
  <1> QED
    BY <1>2, <1>3, <1>4 DEF Init, Conservation

\* Types and Conservation together are inductive.
LEMMA NextInv ==
    Types /\ Conservation /\ [Next]_vars => (Types /\ Conservation)'
  <1> SUFFICES ASSUME Types, Conservation, [Next]_vars
               PROVE  Types' /\ Conservation'
    OBVIOUS
  <1>1. CASE UNCHANGED vars
    BY <1>1 DEF vars, poolVars, cvVars, Types, Conservation, Free, Held
  <1>2. CASE DestroyPool
    BY <1>2, DestroyInv
  <1>3. ASSUME NEW t \in Threads,
               (\E o \in {"login", "precheck"}, n \in Names : Begin(t, o, n)) \/ Step(t)
        PROVE  Types' /\ Conservation'
    BY <1>3, GetConnectionInv, ReleaseInv, RequestInv DEF Step
  <1> QED
    BY <1>1, <1>2, <1>3 DEF Next

(***************************************************************************)
(* The pool never loses or shares a connection, for any number of threads  *)
(* and connections, and whatever fails (SqlConnectionPool.cpp:72-130).     *)
(***************************************************************************)
THEOREM PoolConserves ==
    Spec => []Conservation
  <1>1. Init => Types /\ Conservation
    BY InitInv
  <1> QED
    BY <1>1, NextInv, PTL DEF Spec

(***************************************************************************)
(* Every variable keeps its type; in particular m_FreeConn stays between 0 *)
(* and the number of connections.                                          *)
(***************************************************************************)
THEOREM PoolTypes ==
    Spec => []TypeOK
  <1>1. Init => Types /\ Conservation
    BY InitInv
  <1>3. Types /\ Conservation => TypeOK
    <2> SUFFICES ASSUME Types, Conservation
                 PROVE  m_FreeConn \in 0..Cardinality(Mysqls)
      BY DEF Types, TypeOK
    <2> DEFINE n == Len(connList)
    <2>1. n \in Nat /\ connList \in [1..n -> Mysqls] /\ DOMAIN connList = 1..n
      BY DEF Types
    <2>2. connList \in Injection(1..n, Mysqls)
      BY <2>1 DEF Injection, IsInjective, Conservation
    <2>3. Cardinality(1..n) <= Cardinality(Mysqls)
      BY <2>2, MysqlsAssumption, FS_Injection
    <2>4. Cardinality(1..n) = n
      BY <2>1, FS_Interval
    <2>5. Cardinality(Mysqls) \in Nat
      BY MysqlsAssumption, FS_CardinalityType
    <2> QED
      BY <2>1, <2>3, <2>4, <2>5 DEF Conservation
  <1> QED
    BY <1>1, <1>3, NextInv, PTL DEF Spec

-----------------------------------------------------------------------------
(* Nobody sleeps on a free connection.                                     *)

Notifying == {t \in Threads : pc[t] = "notify"}

\* While threads sleep, every free connection has a notification of its own:
\* one still to be made, or one that has woken a thread which will look.
WaitInv ==
    /\ IsFiniteSet(notified) /\ IsFiniteSet(Notifying)
    /\ waiting \cap notified = {}
    /\ \A t \in waiting \cup notified : pc[t] = "wait"
    /\ waiting # {} => m_FreeConn <= Cardinality(notified) + Cardinality(Notifying)

\* A step that neither begins nor ends a notification, wakes or sleeps.
LEMMA QuietWait ==
    ASSUME Types, WaitInv, UNCHANGED cvVars, m_FreeConn' = m_FreeConn,
           NEW t \in Threads, t \notin waiting \cup notified,
           pc[t] # "notify", pc'[t] # "notify",
           \A u \in Threads \ {t} : pc'[u] = pc[u]
    PROVE  WaitInv'
  <1>1. Notifying' = Notifying
    BY DEF Notifying
  <1>2. UNCHANGED <<waiting, notified>>
    BY DEF cvVars
  <1>3. \A u \in waiting \cup notified : pc'[u] = "wait"
    BY DEF WaitInv, Types
  <1> QED
    BY <1>1, <1>2, <1>3 DEF WaitInv

\* A thread leaves wait_for, or enters the pool without sleeping.
LEMMA LeavesWait ==
    ASSUME Types, WaitInv, NEW t \in Threads, pc[t] \in {"lock", "wait"},
           waiting' = waiting \ {t}, notified' = notified \ {t},
           pc'[t] # "notify", \A u \in Threads \ {t} : pc'[u] = pc[u],
           IF m_FreeConn > 0 THEN m_FreeConn' = m_FreeConn - 1 ELSE m_FreeConn' = m_FreeConn
    PROVE  WaitInv'
  <1>1. Notifying' = Notifying
    BY DEF Notifying
  <1>2. /\ IsFiniteSet(notified')
        /\ Cardinality(notified') = IF t \in notified THEN Cardinality(notified) - 1
                                    ELSE Cardinality(notified)
    BY FS_RemoveElement DEF WaitInv
  <1>3. Cardinality(notified') \in Nat /\ Cardinality(notified) \in Nat /\ Cardinality(Notifying) \in Nat
    BY <1>2, FS_CardinalityType DEF WaitInv
  <1>4. \A u \in waiting' \cup notified' : pc'[u] = "wait"
    BY DEF WaitInv, Types
  <1>5. m_FreeConn \in Int
    BY DEF Types
  <1>6. waiting' # {} => m_FreeConn' <= Cardinality(notified') + Cardinality(Notifying)
    BY <1>2, <1>3, <1>5 DEF WaitInv
  <1> QED
    BY <1>1, <1>2, <1>4, <1>6 DEF WaitInv

\* A thread that finds nothing goes to sleep, or back to it.
LEMMA GoesToWait ==
    ASSUME Types, WaitInv, NEW t \in Threads, pc[t] \in {"lock", "wait"}, ~(m_FreeConn > 0),
           waiting' = waiting \cup {t}, notified' = notified \ {t}, m_FreeConn' = m_FreeConn,
           pc'[t] = "wait", \A u \in Threads \ {t} : pc'[u] = pc[u]
    PROVE  WaitInv'
  <1>1. Notifying' = Notifying
    BY DEF Notifying
  <1>2. IsFiniteSet(notified')
    BY FS_RemoveElement DEF WaitInv
  <1>3. Cardinality(notified') \in Nat /\ Cardinality(Notifying) \in Nat
    BY <1>2, FS_CardinalityType DEF WaitInv
  <1>4. \A u \in waiting' \cup notified' : pc'[u] = "wait"
    BY DEF WaitInv, Types
  <1> QED
    BY <1>1, <1>2, <1>3, <1>4 DEF WaitInv, Types

LEMMA ReleaseWait ==
    ASSUME Types, WaitInv, NEW t \in Threads, Release(t)
    PROVE  WaitInv'
  <1>1. Notifying' = Notifying \cup {t} /\ t \notin Notifying
    BY DEF Notifying, Release, Types
  <1>2. /\ IsFiniteSet(Notifying') /\ Cardinality(Notifying') = Cardinality(Notifying) + 1
        /\ Cardinality(Notifying) \in Nat /\ Cardinality(notified) \in Nat
    BY <1>1, FS_AddElement, FS_CardinalityType DEF WaitInv
  <1>3. UNCHANGED <<waiting, notified>> /\ m_FreeConn' = m_FreeConn + 1 /\ m_FreeConn \in Int
    BY DEF Release, cvVars, Types
  <1>4. \A u \in waiting \cup notified : pc'[u] = "wait"
    BY DEF WaitInv, Types, Release
  <1>5. waiting # {} => m_FreeConn' <= Cardinality(notified) + Cardinality(Notifying')
    BY <1>2, <1>3 DEF WaitInv
  <1> QED
    BY <1>2, <1>3, <1>4, <1>5 DEF WaitInv

LEMMA NotifyWait ==
    ASSUME Types, WaitInv, NEW t \in Threads, Notify(t)
    PROVE  WaitInv'
  <1>1. /\ pc[t] = "notify" /\ pc'[t] \in {"size", "idle"} /\ m_FreeConn' = m_FreeConn
        /\ \A u \in Threads \ {t} : pc'[u] = pc[u]
    BY AfterReleasePc DEF Notify, poolVars
  <1>2. Notifying' = Notifying \ {t} /\ t \in Notifying
    BY <1>1 DEF Notifying
  <1>3. /\ IsFiniteSet(Notifying') /\ Cardinality(Notifying') = Cardinality(Notifying) - 1
        /\ Cardinality(Notifying) \in Nat /\ Cardinality(notified) \in Nat
    BY <1>2, FS_RemoveElement, FS_CardinalityType DEF WaitInv
  <1>4. \A u \in waiting \cup notified : pc'[u] = "wait"
    BY <1>1 DEF WaitInv, Types
  <1>5. CASE waiting = {}
    <2>1. UNCHANGED <<waiting, notified>>
      BY <1>5 DEF Notify, cvVars
    <2> QED
      BY <1>3, <1>4, <1>5, <2>1 DEF WaitInv
  <1>6. CASE waiting # {}
    <2>1. PICK w \in waiting : waiting' = waiting \ {w} /\ notified' = notified \cup {w}
      BY <1>6 DEF Notify
    <2>2. w \notin notified
      BY <2>1 DEF WaitInv
    <2>3. IsFiniteSet(notified') /\ Cardinality(notified') = Cardinality(notified) + 1
      BY <2>1, <2>2, FS_AddElement DEF WaitInv
    <2>4. m_FreeConn' <= Cardinality(notified') + Cardinality(Notifying')
      BY <1>1, <1>3, <1>6, <2>3 DEF WaitInv, Types
    <2> QED
      BY <1>3, <1>4, <2>1, <2>2, <2>3, <2>4 DEF WaitInv
  <1> QED
    BY <1>5, <1>6

LEMMA InitWait == Init => WaitInv
  <1> SUFFICES ASSUME Init PROVE WaitInv
    OBVIOUS
  <1>1. Notifying = {}
    BY DEF Init, Notifying
  <1> QED
    BY <1>1, FS_EmptySet DEF Init, WaitInv

\* Every step keeps the balance.
LEMMA NextWait == Types /\ Conservation /\ WaitInv /\ [Next]_vars => WaitInv'
  <1> SUFFICES ASSUME Types, Conservation, WaitInv, [Next]_vars PROVE WaitInv'
    OBVIOUS
  <1>1. CASE UNCHANGED vars
    BY <1>1 DEF vars, poolVars, cvVars, WaitInv, Notifying
  <1>2. CASE DestroyPool
    <2>1. UNCHANGED <<waiting, notified, pc>> /\ m_FreeConn' = 0
      BY <1>2 DEF DestroyPool, cvVars
    <2>2. Cardinality(notified) \in Nat /\ Cardinality(Notifying) \in Nat
      BY FS_CardinalityType DEF WaitInv
    <2>3. Notifying' = Notifying
      BY <2>1 DEF Notifying
    <2> QED
      BY <2>1, <2>2, <2>3 DEF WaitInv
  <1>3. ASSUME NEW t \in Threads,
               \/ \E o \in {"login", "precheck"}, n \in Names : Begin(t, o, n)
               \/ TestSize(t) \/ QueryFails(t) \/ Select(t) \/ Insert(t)
        PROVE  WaitInv'
    <2>1. pc[t] \in {"idle", "size", "query"} /\ UNCHANGED cvVars /\ m_FreeConn' = m_FreeConn
      BY <1>3 DEF Begin, TestSize, QueryFails, Select, Insert, poolVars
    <2>2. pc'[t] # "notify" /\ \A u \in Threads \ {t} : pc'[u] = pc[u]
      <3>1. CASE TestSize(t) /\ connList = << >>
        BY <3>1, ContinuePc DEF TestSize, NoConnection
      <3>2. CASE ~(TestSize(t) /\ connList = << >>)
        BY <1>3, <3>2 DEF Begin, TestSize, QueryFails, Select, Insert, Types
      <3> QED
        BY <3>1, <3>2
    <2>3. t \notin waiting \cup notified
      BY <2>1 DEF WaitInv
    <2> QED
      BY <2>1, <2>2, <2>3, QuietWait
  <1>4. ASSUME NEW t \in Threads, Lock(t) \/ WakeAndTest(t) \/ Timeout(t)
        PROVE  WaitInv'
    <2>1. pc[t] \in {"lock", "wait"} /\ (pc[t] = "lock" => t \notin waiting \cup notified)
      BY <1>4 DEF Lock, WakeAndTest, Timeout, WaitInv
    <2>2. CASE m_FreeConn > 0
      <3>1. Take(t)
        BY <1>4, <2>2 DEF Lock, WakeAndTest, Timeout
      <3>2. pc'[t] # "notify" /\ (\A u \in Threads \ {t} : pc'[u] = pc[u]) /\ m_FreeConn' = m_FreeConn - 1
        BY <3>1 DEF Take, Types
      <3>3. waiting' = waiting \ {t} /\ notified' = notified \ {t}
        BY <1>4, <2>1, <2>2 DEF Lock, WakeAndTest, Timeout, WaitInv
      <3> QED
        BY <2>1, <2>2, <3>2, <3>3, LeavesWait
    <2>3. CASE ~(m_FreeConn > 0) /\ ~Timeout(t)
      <3>1. /\ waiting' = waiting \cup {t} /\ notified' = notified \ {t} /\ m_FreeConn' = m_FreeConn
            /\ pc'[t] = "wait" /\ \A u \in Threads \ {t} : pc'[u] = pc[u]
        BY <1>4, <2>1, <2>3 DEF Lock, WakeAndTest, poolVars, Types
      <3> QED
        BY <2>1, <2>3, <3>1, GoesToWait
    <2>4. CASE ~(m_FreeConn > 0) /\ Timeout(t)
      <3>1. NoConnection(t) /\ waiting' = waiting \ {t} /\ notified' = notified \ {t} /\ m_FreeConn' = m_FreeConn
        BY <2>4 DEF Timeout, poolVars
      <3>2. pc'[t] # "notify" /\ \A u \in Threads \ {t} : pc'[u] = pc[u]
        BY <3>1, ContinuePc DEF NoConnection
      <3> QED
        BY <2>1, <2>4, <3>1, <3>2, LeavesWait
    <2> QED
      BY <2>2, <2>3, <2>4
  <1> QED
    BY <1>1, <1>2, <1>3, <1>4, ReleaseWait, NotifyWait DEF Next, Step

(***************************************************************************)
(* No thread sleeps in GetConnection on a free connection without a        *)
(* notification under way, for any number of threads: notify_one, though   *)
(* it comes after the unlock and may find nobody, is never one too few     *)
(* (SqlConnectionPool.cpp:72-107).                                         *)
(***************************************************************************)
THEOREM NobodySleepsOnFree ==
    Spec => []NoSleepOnFree
  <1>1. Init => Types /\ Conservation /\ WaitInv
    BY InitInv, InitWait
  <1>2. Types /\ WaitInv => NoSleepOnFree
    <2> SUFFICES ASSUME Types, WaitInv, m_FreeConn > 0, waiting # {}, notified = {}
                 PROVE  \E t \in Threads : pc[t] = "notify"
      BY DEF NoSleepOnFree
    <2>1. Cardinality(notified) = 0 /\ Cardinality(Notifying) \in Nat /\ m_FreeConn \in Int
      BY FS_EmptySet, FS_CardinalityType DEF WaitInv, Types
    <2>2. Cardinality(Notifying) # 0
      BY <2>1 DEF WaitInv
    <2>3. Notifying # {}
      BY <2>2, FS_EmptySet
    <2> QED
      BY <2>3 DEF Notifying
  <1> QED
    BY <1>1, <1>2, NextInv, NextWait, PTL DEF Spec

=============================================================================
