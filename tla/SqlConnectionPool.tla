------------------------- MODULE SqlConnectionPool --------------------------
(***************************************************************************)
(* The SqlConnectionPool singleton of mymuduo/sql and the two operations   *)
(* of SqlOperation that use it, getQueryRes (a login) and insertNewUser (a *)
(* registration), run by the threads of the event loops.                   *)
(*                                                                         *)
(* A step is one critical section on mtx, the read of connList.size()      *)
(* outside of it, one notify_one, or one query of the database.  The       *)
(* database is external: a table of user names whose queries may fail.     *)
(* The repository has no schema, so a second row of a name may be refused. *)
(***************************************************************************)
EXTENDS Integers, Sequences, FiniteSets

CONSTANTS
    Threads,        \* threads that serve requests
    Mysqls,         \* the MYSQL* that init() opened
    nullptr,
    Names,          \* user names
    MaxRequests     \* bound: requests each thread serves

ASSUME NullAssumption == nullptr \notin Mysqls
ASSUME MysqlsAssumption == IsFiniteSet(Mysqls)
ASSUME MaxRequestsAssumption == MaxRequests \in Nat

VARIABLES
    connList, m_FreeConn, m_CurConn,
    waiting,        \* threads asleep in cv.wait_for
    notified,       \* threads woken from it that have not run yet
    pc, op, name,   \* what each thread does, for which request
    sqlconn,        \* the connection it holds
    fails,          \* result of its request: insertNewUser returned false
    userdata,       \* rows of each name in the table
    closed,         \* connections DestroyPool has closed
    requests        \* requests each thread has begun

poolVars == <<connList, m_FreeConn, m_CurConn>>
cvVars == <<waiting, notified>>
vars == <<poolVars, cvVars, pc, op, name, sqlconn, fails, userdata, closed, requests>>

\* getQueryRes of a login or of insertNewUser, and insertNewUser's second half.
Ops == {"login", "precheck", "insert"}

Pcs == {"idle", "size", "lock", "wait", "query", "release", "notify"}

TypeOK ==
    /\ connList \in Seq(Mysqls)
    /\ m_FreeConn \in 0..Cardinality(Mysqls)
    /\ m_CurConn \in Int
    /\ waiting \in SUBSET Threads
    /\ notified \in SUBSET Threads
    /\ pc \in [Threads -> Pcs]
    /\ op \in [Threads -> Ops]
    /\ name \in [Threads -> Names]
    /\ sqlconn \in [Threads -> Mysqls \cup {nullptr}]
    /\ fails \in [Threads -> BOOLEAN]
    /\ userdata \in [Names -> Nat]
    /\ closed \in SUBSET Mysqls
    /\ requests \in [Threads -> 0..MaxRequests]

\* What init() pushes: every connection once.
Listings ==
    {s \in [1..Cardinality(Mysqls) -> Mysqls] :
        /\ \A i, j \in DOMAIN s : s[i] = s[j] => i = j
        /\ \A m \in Mysqls : \E i \in DOMAIN s : s[i] = m}

\* After init(); no thread has used the pool.
Init ==
    /\ connList \in Listings
    /\ m_FreeConn = Cardinality(Mysqls)
    /\ m_CurConn = 0
    /\ waiting = {} /\ notified = {}
    /\ pc = [t \in Threads |-> "idle"]
    /\ op = [t \in Threads |-> "login"]
    /\ name \in [Threads -> Names]
    /\ sqlconn = [t \in Threads |-> nullptr]
    /\ fails = [t \in Threads |-> FALSE]
    /\ userdata = [n \in Names |-> 0]
    /\ closed = {}
    /\ requests = [t \in Threads |-> 0]

-----------------------------------------------------------------------------
(* A request arrives: getQueryRes is entered from a login, or from         *)
(* insertNewUser.                                                          *)

Begin(t, o, n) ==
    /\ pc[t] = "idle" /\ requests[t] < MaxRequests
    /\ pc' = [pc EXCEPT ![t] = "size"]
    /\ op' = [op EXCEPT ![t] = o]
    /\ name' = [name EXCEPT ![t] = n]
    /\ fails' = [fails EXCEPT ![t] = FALSE]
    /\ requests' = [requests EXCEPT ![t] = @ + 1]
    /\ UNCHANGED <<poolVars, cvVars, sqlconn, userdata, closed>>

\* getQueryRes returns to insertNewUser with no row, or the request ends.
Continue(t) ==
    IF op[t] = "precheck"
    THEN pc' = [pc EXCEPT ![t] = "size"] /\ op' = [op EXCEPT ![t] = "insert"]
    ELSE pc' = [pc EXCEPT ![t] = "idle"] /\ UNCHANGED op

-----------------------------------------------------------------------------
(* GetConnection.                                                          *)

\* GetConnection returns nullptr: getQueryRes returns no row, and
\* insertNewUser returns false.
NoConnection(t) ==
    /\ Continue(t)
    /\ fails' = [fails EXCEPT ![t] = op[t] = "insert"]

TestSize(t) ==
    /\ pc[t] = "size"
    /\ IF connList = << >>
       THEN NoConnection(t)
       ELSE pc' = [pc EXCEPT ![t] = "lock"] /\ UNCHANGED <<op, fails>>
    /\ UNCHANGED <<poolVars, cvVars, name, sqlconn, userdata, closed, requests>>

\* Mutant: the counter of free connections is not kept.
TakeUncounted(t) ==
    /\ sqlconn' = [sqlconn EXCEPT ![t] = Head(connList)]
    /\ connList' = Tail(connList)
    /\ m_CurConn' = m_CurConn + 1
    /\ pc' = [pc EXCEPT ![t] = "query"]
    /\ UNCHANGED m_FreeConn

Take(t) ==
    /\ sqlconn' = [sqlconn EXCEPT ![t] = Head(connList)]
    /\ connList' = Tail(connList)
    /\ m_FreeConn' = m_FreeConn - 1
    /\ m_CurConn' = m_CurConn + 1
    /\ pc' = [pc EXCEPT ![t] = "query"]

\* wait_for tests its predicate before it sleeps, when it is notified (or
\* woken without cause), and when the 3 s are over.
Lock(t) ==
    /\ pc[t] = "lock"
    /\ IF m_FreeConn > 0
       THEN Take(t) /\ UNCHANGED waiting
       ELSE /\ waiting' = waiting \cup {t}
            /\ pc' = [pc EXCEPT ![t] = "wait"]
            /\ UNCHANGED <<poolVars, sqlconn>>
    /\ UNCHANGED <<notified, op, name, fails, userdata, closed, requests>>

WakeAndTest(t) ==
    /\ pc[t] = "wait" /\ t \in notified
    /\ notified' = notified \ {t}
    /\ IF m_FreeConn > 0
       THEN Take(t) /\ UNCHANGED waiting
       ELSE waiting' = waiting \cup {t} /\ UNCHANGED <<poolVars, sqlconn, pc>>
    /\ UNCHANGED <<op, name, fails, userdata, closed, requests>>

\* Mutant: cv.wait instead of cv.wait_for.
TimeoutNever(t) == pc[t] = "wait" /\ FALSE /\ UNCHANGED vars

Timeout(t) ==
    /\ pc[t] = "wait"
    /\ waiting' = waiting \ {t}
    /\ notified' = notified \ {t}
    /\ IF m_FreeConn > 0
       THEN Take(t) /\ UNCHANGED <<op, fails>>
       ELSE NoConnection(t) /\ UNCHANGED <<poolVars, sqlconn>>
    /\ UNCHANGED <<name, userdata, closed, requests>>

-----------------------------------------------------------------------------
(* The query of getQueryRes and the INSERT of insertNewUser; both release  *)
(* the connection on every path.                                           *)

\* Mutant: the path of a failed query does not release the connection.
QueryFailsLeaks(t) ==
    /\ pc[t] = "query"
    /\ Continue(t)
    /\ sqlconn' = [sqlconn EXCEPT ![t] = nullptr]
    /\ fails' = [fails EXCEPT ![t] = op[t] = "insert"]
    /\ UNCHANGED <<poolVars, cvVars, name, userdata, closed, requests>>

\* mysql_real_query fails: no row, or no INSERT (a duplicate one, too).
QueryFails(t) ==
    /\ pc[t] = "query"
    /\ pc' = [pc EXCEPT ![t] = "release"]
    /\ fails' = [fails EXCEPT ![t] = op[t] = "insert"]
    /\ UNCHANGED <<poolVars, cvVars, op, name, sqlconn, userdata, closed, requests>>

\* A name that has a row ends a registration, which returns false.
Select(t) ==
    /\ pc[t] = "query" /\ op[t] # "insert"
    /\ pc' = [pc EXCEPT ![t] = "release"]
    /\ fails' = [fails EXCEPT ![t] = op[t] = "precheck" /\ userdata[name[t]] > 0]
    /\ UNCHANGED <<poolVars, cvVars, op, name, sqlconn, userdata, closed, requests>>

Insert(t) ==
    /\ pc[t] = "query" /\ op[t] = "insert"
    /\ pc' = [pc EXCEPT ![t] = "release"]
    /\ userdata' = [userdata EXCEPT ![name[t]] = @ + 1]
    /\ UNCHANGED <<poolVars, cvVars, op, name, sqlconn, fails, closed, requests>>

-----------------------------------------------------------------------------
(* ReleaseConnection: the list under mtx, then notify_one.                 *)

Release(t) ==
    /\ pc[t] = "release"
    /\ connList' = Append(connList, sqlconn[t])
    /\ m_FreeConn' = m_FreeConn + 1
    /\ m_CurConn' = m_CurConn - 1
    /\ sqlconn' = [sqlconn EXCEPT ![t] = nullptr]
    /\ pc' = [pc EXCEPT ![t] = "notify"]
    /\ UNCHANGED <<cvVars, op, name, fails, userdata, closed, requests>>

\* The request goes on after notify_one.
AfterRelease(t) ==
    IF op[t] = "precheck" /\ fails[t]
    THEN pc' = [pc EXCEPT ![t] = "idle"] /\ UNCHANGED op
    ELSE Continue(t)

\* Mutant: nobody is notified.
NotifyNobody(t) ==
    /\ pc[t] = "notify"
    /\ AfterRelease(t)
    /\ UNCHANGED <<poolVars, cvVars, name, sqlconn, fails, userdata, closed, requests>>

Notify(t) ==
    /\ pc[t] = "notify"
    /\ AfterRelease(t)
    /\ IF waiting = {}
       THEN UNCHANGED cvVars
       ELSE \E w \in waiting : /\ waiting' = waiting \ {w}
                               /\ notified' = notified \cup {w}
    /\ UNCHANGED <<poolVars, name, sqlconn, fails, userdata, closed, requests>>

\* DestroyPool, when the process ends.
DestroyPool ==
    /\ connList # << >>
    /\ closed' = closed \cup {connList[i] : i \in DOMAIN connList}
    /\ connList' = << >>
    /\ m_FreeConn' = 0
    /\ m_CurConn' = 0
    /\ UNCHANGED <<cvVars, pc, op, name, sqlconn, fails, userdata, requests>>

-----------------------------------------------------------------------------

\* A thread goes on with its request.
Step(t) ==
    \/ TestSize(t) \/ Lock(t) \/ WakeAndTest(t) \/ Timeout(t)
    \/ QueryFails(t) \/ Select(t) \/ Insert(t) \/ Release(t) \/ Notify(t)

Next ==
    \/ \E t \in Threads :
          \/ \E o \in {"login", "precheck"}, n \in Names : Begin(t, o, n)
          \/ Step(t)
    \/ DestroyPool

Spec == Init /\ [][Next]_vars

\* Every thread keeps running, and wait_for ends after its 3 s.
FairSpec == Spec /\ \A t \in Threads : WF_vars(Step(t))

-----------------------------------------------------------------------------
(* Properties.                                                             *)

Free(m) == \E i \in DOMAIN connList : connList[i] = m

Held(m) == \E t \in Threads : sqlconn[t] = m

(***************************************************************************)
(* Connections are neither lost nor shared: each is closed, or free, or    *)
(* held, and is in connList once or held by one thread; the predicate of   *)
(* wait_for, m_FreeConn > 0, means that connList has a front               *)
(* (SqlConnectionPool.cpp:81-83); and every path of getQueryRes and        *)
(* insertNewUser gives its connection back.                                *)
(***************************************************************************)
Conservation ==
    /\ m_FreeConn = Len(connList)
    /\ \A i, j \in DOMAIN connList : connList[i] = connList[j] => i = j
    /\ \A t, u \in Threads : sqlconn[t] = sqlconn[u] /\ sqlconn[t] # nullptr => t = u
    /\ \A m \in Mysqls : Free(m) \/ Held(m) \/ m \in closed
    /\ \A m \in Mysqls : ~(Free(m) /\ Held(m)) /\ (m \in closed => ~Free(m) /\ ~Held(m))
    /\ \A t \in Threads : sqlconn[t] # nullptr <=> pc[t] \in {"query", "release"}

(***************************************************************************)
(* No thread sleeps in GetConnection on a free connection: one that was    *)
(* given back has a notification under way, or a woken thread that will    *)
(* look (SqlConnectionPool.cpp:100-107 against :81).                       *)
(***************************************************************************)
NoSleepOnFree ==
    m_FreeConn > 0 /\ waiting # {} =>
        notified # {} \/ \E t \in Threads : pc[t] = "notify"

(***************************************************************************)
(* Every login and registration ends, with its connection given back, even *)
(* when the pool is exhausted or a query fails.                            *)
(***************************************************************************)
RequestsEnd == \A t \in Threads : pc[t] # "idle" ~> (pc[t] = "idle" /\ sqlconn[t] = nullptr)

=============================================================================
