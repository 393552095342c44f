-------------------------- MODULE TimerQueue_proofs -------------------------
(***************************************************************************)
(* Proofs about TimerQueue, for any addresses, clocks, times and threads   *)
(* that call it.                                                           *)
(***************************************************************************)
EXTENDS TimerQueue, WellFoundedInduction, TLAPS

-----------------------------------------------------------------------------
(* Numbers.                                                                *)

\* A set of natural numbers has a least one.
LEMMA LeastOfNaturals ==
    ASSUME NEW T \in SUBSET Nat, T # {}
    PROVE  \E x \in T : \A y \in T : x <= y
<1> DEFINE R == OpToRel(<, Nat)
<1>1. IsWellFoundedOn(R, Nat)
  BY NatLessThanWellFounded
<1>2. \A x, y \in Nat : y < x => <<y, x>> \in R
  BY DEF OpToRel
<1> HIDE DEF R
<1>3. PICK x \in T : \A y \in T : <<y, x>> \notin R
  BY <1>1, WFMin
<1>4. \A y \in T : ~(y < x)
  BY <1>2, <1>3
<1>5. QED
  BY <1>4

\* A set of entries of timers_ whose expirations have a lower bound has a
\* first one, which reset() finds.
LEMMA FirstTimer ==
    ASSUME NEW Q \in SUBSET (Int \X Addrs), Q # {},
           NEW m \in Int, \A e \in Q : m <= e[1]
    PROVE  LET first == CHOOSE e \in Q : \A f \in Q : e[1] <= f[1]
           IN  first \in Q /\ \A f \in Q : first[1] <= f[1]
<1> DEFINE T == {e[1] - m : e \in Q}
<1>1. T \in SUBSET Nat /\ T # {}
  OBVIOUS
<1> HIDE DEF T
<1>2. PICK x \in T : \A y \in T : x <= y
  BY <1>1, LeastOfNaturals
<1>3. PICK e \in Q : x = e[1] - m
  BY <1>2 DEF T
<1>4. ASSUME NEW f \in Q PROVE e[1] <= f[1]
  <2>1. f[1] - m \in T
    BY DEF T
  <2>2. e[1] - m <= f[1] - m /\ e[1] \in Int /\ f[1] \in Int
    BY <1>2, <1>3, <2>1
  <2>3. QED
    BY <2>2
<1>5. QED
  BY <1>4

\* The most that the clock may lag.
LEMMA LargestLag == MaxLag \in Lags /\ \A l \in Lags : l <= MaxLag
<1> DEFINE T == {Start - l : l \in Lags}
<1>1. T \in SUBSET Nat /\ T # {}
  BY ClockAssumption
<1> HIDE DEF T
<1>2. PICK x \in T : \A y \in T : x <= y
  BY <1>1, LeastOfNaturals
<1>3. PICK k \in Lags : x = Start - k
  BY <1>2 DEF T
<1>4. ASSUME NEW l \in Lags PROVE l <= k
  <2>1. Start - l \in T
    BY DEF T
  <2>2. Start - k <= Start - l
    BY <1>2, <1>3, <2>1
  <2>3. QED
    BY <2>2, ClockAssumption
<1>5. QED
  BY <1>4 DEF MaxLag

\* Dividing brings numbers closer.
LEMMA DivContracts ==
    ASSUME NEW x \in Nat, NEW y \in Nat, x <= y, NEW K \in Nat \ {0}
    PROVE  /\ x \div K \in Nat /\ y \div K \in Nat
           /\ x \div K <= y \div K
           /\ y \div K - x \div K <= y - x
<1> DEFINE p == x \div K
           q == y \div K
           r == x % K
           s == y % K
<1>1. /\ p \in Int /\ q \in Int /\ r \in 0..K-1 /\ s \in 0..K-1
      /\ x = K * p + r /\ y = K * q + s
  OBVIOUS
<1> HIDE DEF p, q, r, s
<1>2. p >= 0 /\ q >= 0
  BY <1>1
<1>3. p <= q
  BY <1>1
<1>4. q - p <= y - x
  BY <1>1, <1>3
<1>5. QED
  BY <1>1, <1>2, <1>3, <1>4 DEF p, q

-----------------------------------------------------------------------------
(* The types.                                                              *)

\* The expirations in the queue have a lower bound.
Bounded == \E m \in Int : \A e \in timers_ : m <= e[1]

\* The clocks: time(NULL) is not before 1970, nor is the now of handleRead().
ClockInv == ticks >= Start /\ now_ >= 0

LEMMA ClockType ==
    ASSUME TypeOK, ClockInv
    PROVE  /\ ticks \in Nat /\ lag \in Nat /\ lag <= ticks /\ lag <= MaxLag /\ MaxLag \in Nat
           /\ now \in Nat
<1>1. ticks \in Nat /\ lag \in Nat /\ lag <= ticks /\ lag <= MaxLag /\ MaxLag \in Nat
  BY ClockAssumption, LargestLag DEF TypeOK, ClockInv
<1>2. ticks - lag \in Nat /\ kMicroSecondsPerSecond \in Nat \ {0}
  BY <1>1, ClockAssumption
<1>3. (ticks - lag) \div kMicroSecondsPerSecond \in Nat
  BY <1>2, DivContracts
<1>4. QED
  BY <1>1, <1>3 DEF now

\* What the timerfd is set to.
LEMMA ResetTimerfdType ==
    ASSUME TypeOK, ClockInv, NEW when \in Int
    PROVE  /\ howMuchTimeFromNow(when) \in Nat \ {0}
           /\ resetTimerfd(when) = ticks + howMuchTimeFromNow(when)
           /\ resetTimerfd(when) \in Nat
BY ClockType, ClockAssumption DEF howMuchTimeFromNow, resetTimerfd

LEMMA NextTimerfdType ==
    ASSUME TypeOK, ClockInv, NEW Q \in SUBSET (Int \X Addrs),
           NEW m \in Int, \A e \in Q : m <= e[1]
    PROVE  nextTimerfd(Q) \in Nat \cup {Disarmed}
<1>1. CASE Q = {}
  BY <1>1 DEF nextTimerfd, TypeOK
<1>2. CASE Q # {}
  <2> DEFINE first == CHOOSE e \in Q : \A f \in Q : e[1] <= f[1]
  <2>1. first \in Q /\ first[1] \in Int
    BY <1>2, FirstTimer
  <2>2. nextTimerfd(Q) = IF valid(first[1]) THEN resetTimerfd(first[1]) ELSE timerfd
    BY <1>2 DEF nextTimerfd
  <2> HIDE DEF first
  <2>3. QED
    BY <2>1, <2>2, ResetTimerfdType DEF TypeOK
<1>3. QED
  BY <1>1, <1>2

\* Timers made and deleted are of their type.
LEMMA NoTimerType == NoTimer \in Timer
BY BoundsAssumption DEF NoTimer, Timer

LEMMA DeleteType ==
    ASSUME TypeOK, NEW A
    PROVE  delete(A) \in [Addrs -> Timer]
BY NoTimerType DEF delete, TypeOK

LEMMA AddInLoopType ==
    ASSUME TypeOK, ClockInv, Bounded, NEW id \in TimerIds, NEW when \in Int,
           addTimerInLoop(id, when)
    PROVE  /\ timers_' \in SUBSET (Int \X Addrs)
           /\ activeTimers_' \in SUBSET TimerIds
           /\ timerfd' \in Nat \cup {Disarmed}
           /\ Bounded'
<1>1. id[1] \in Addrs
  BY DEF TimerIds
<1>2. PICK m \in Int : \A e \in timers_ : m <= e[1]
  BY DEF Bounded
<1> DEFINE n == IF m <= when THEN m ELSE when
<1>3. n \in Int /\ \A e \in timers_' : n <= e[1]
  <2>1. n \in Int /\ n <= m /\ n <= when
    OBVIOUS
  <2>2. timers_' = timers_ \cup {<<when, id[1]>>} /\ \A e \in timers_ : e[1] \in Int
    BY DEF addTimerInLoop, TypeOK
  <2>3. ASSUME NEW e \in timers_ PROVE n <= e[1]
    BY <1>2, <2>1, <2>2
  <2>4. QED
    BY <2>1, <2>2, <2>3
<1>4. Bounded'
  BY <1>3 DEF Bounded
<1>5. resetTimerfd(when) \in Nat
  BY ResetTimerfdType
<1>6. timers_' \in SUBSET (Int \X Addrs) /\ activeTimers_' \in SUBSET TimerIds
  BY <1>1 DEF addTimerInLoop, TypeOK
<1>7. timerfd' \in Nat \cup {Disarmed}
  BY <1>5 DEF addTimerInLoop, TypeOK
<1>8. QED
  BY <1>4, <1>6, <1>7

LEMMA CancelInLoopType ==
    ASSUME TypeOK, Bounded, NEW id \in TimerIds, cancelInLoop(id)
    PROVE  /\ timers_' \in SUBSET (Int \X Addrs)
           /\ activeTimers_' \in SUBSET TimerIds
           /\ timer' \in [Addrs -> Timer]
           /\ cancelingTimers_' \in SUBSET TimerIds
           /\ cancelled' \in SUBSET TimerIds
           /\ Bounded'
<1>1. timer' \in [Addrs -> Timer]
  BY DeleteType DEF cancelInLoop, TypeOK
<1>2. timers_' \subseteq timers_
  BY DEF cancelInLoop
<1>3. QED
  BY <1>1, <1>2 DEF cancelInLoop, TypeOK, Bounded

\* A Timer that is not deleted has one of the sequences given out.
SeqInv == \A a \in Addrs : timer[a] = NoTimer \/ sequence(a) \in 1..numCreated

Types == TypeOK /\ ClockInv /\ Bounded /\ SeqInv

LEMMA InitTypes == Init => Types
<1> SUFFICES ASSUME Init PROVE Types
  OBVIOUS
<1>1. timer \in [Addrs -> Timer]
  BY NoTimerType DEF Init
<1>2. TypeOK
  BY <1>1, ClockAssumption, BoundsAssumption DEF Init, TypeOK, Disarmed
<1>3. QED
  BY <1>2, ClockAssumption DEF Init, Types, ClockInv, Bounded, SeqInv

\* addTimer() with the arguments that runAt(), runAfter() and runEvery() give.
LEMMA AddIsAddTimer ==
    ASSUME Types, NEW a \in Addrs, NEW inLoop \in BOOLEAN, Add(a, inLoop)
    PROVE  \E when \in Int, interval \in Nat : addTimer(a, when, interval, inLoop)
<1>1. now \in Nat /\ kMicroSecondsPerSecond \in Nat
  BY ClockType, ClockAssumption DEF Types
<1>2. \A d \in Nat : addTime(now, d) \in Int
  BY <1>1 DEF addTime
<1>3. QED
  BY <1>2, InputsAssumption DEF Add, runAt, runAfter, runEvery

\* The Timer that addTimer() makes.
LEMMA NewTimer ==
    ASSUME Types, NEW a \in Addrs, NEW when \in Int, NEW interval \in Nat,
           NEW inLoop \in BOOLEAN, addTimer(a, when, interval, inLoop)
    PROVE  /\ numCreated' = numCreated + 1 /\ numCreated' \in 1..MaxTimers
           /\ <<a, numCreated + 1>> \in TimerIds
           /\ timer' \in [Addrs -> Timer]
           /\ \A b \in Addrs : b # a => timer'[b] = timer[b]
           /\ expiration(a)' = when /\ sequence(a)' = numCreated + 1
           /\ timer[a] = NoTimer /\ timer'[a] # NoTimer
           /\ phase # "destroyed"
           /\ SeqInv'
<1> DEFINE t == [expiration_ |-> when, interval_ |-> interval, sequence_ |-> numCreated + 1]
<1>1. /\ numCreated' = numCreated + 1 /\ numCreated' \in 1..MaxTimers
      /\ numCreated \in Nat
      /\ <<a, numCreated + 1>> \in TimerIds /\ t \in Timer
      /\ timer[a] = NoTimer /\ phase # "destroyed"
  BY BoundsAssumption
  DEF addTimer, incrementAndGet, Types, TypeOK, TimerIds, Timer, live
<1>2. timer' = [timer EXCEPT ![a] = t]
  BY DEF addTimer, incrementAndGet
<1>3. t.expiration_ = when /\ t.sequence_ = numCreated + 1 /\ t # NoTimer
  BY <1>1 DEF NoTimer
<1> HIDE DEF t
<1>4. timer' \in [Addrs -> Timer] /\ timer'[a] = t /\ \A b \in Addrs : b # a => timer'[b] = timer[b]
  BY <1>1, <1>2 DEF Types, TypeOK
<1>5. SeqInv'
  <2> SUFFICES ASSUME NEW b \in Addrs
               PROVE  timer'[b] = NoTimer \/ timer'[b].sequence_ \in 1..(numCreated + 1)
    BY <1>1 DEF SeqInv, sequence
  <2>1. CASE b = a
    BY <2>1, <1>1, <1>3, <1>4
  <2>2. CASE b # a
    BY <2>2, <1>1, <1>4 DEF Types, SeqInv, sequence
  <2>3. QED
    BY <2>1, <2>2
<1>6. QED
  BY <1>1, <1>3, <1>4, <1>5 DEF expiration, sequence

LEMMA AddTypes ==
    ASSUME Types, NEW a \in Addrs, NEW when \in Int, NEW interval \in Nat,
           NEW inLoop \in BOOLEAN, addTimer(a, when, interval, inLoop)
    PROVE  Types'
<1> DEFINE id == <<a, numCreated + 1>>
<1>1. /\ numCreated' \in 0..MaxTimers /\ id \in TimerIds
      /\ timer' \in [Addrs -> Timer] /\ SeqInv'
  BY NewTimer
<1>4. CASE inLoop
  <2>1. /\ addTimerInLoop(id, when) /\ ids' = ids \cup {id} /\ UNCHANGED <<pending, returning>>
        /\ UNCHANGED <<clockVars, handleVars, cancelingTimers_, cancelled>>
    BY <1>4 DEF addTimer, incrementAndGet
  <2> HIDE DEF id
  <2>2. QED
    BY <1>1, <2>1, AddInLoopType DEF Types, TypeOK, ClockInv, clockVars, handleVars
<1>5. CASE ~inLoop
  <2>1. /\ pending' = Append(pending, <<"add", id>>) /\ returning' = returning \cup {id}
        /\ UNCHANGED <<timers_, activeTimers_, timerfd, ids>>
        /\ UNCHANGED <<clockVars, handleVars, cancelingTimers_, cancelled>>
    BY <1>5 DEF addTimer, incrementAndGet, Queues
  <2> HIDE DEF id
  <2>2. <<"add", id>> \in {"add", "cancel"} \X TimerIds
    BY <1>1
  <2>3. pending' \in Seq({"add", "cancel"} \X TimerIds)
    BY <2>1, <2>2 DEF Types, TypeOK
  <2>4. QED
    BY <1>1, <2>1, <2>3 DEF Types, TypeOK, ClockInv, clockVars, handleVars, Bounded
<1>6. QED
  BY <1>4, <1>5

\* The Timers after a cancelInLoop().
LEMMA CancelTimer ==
    ASSUME Types, NEW id \in TimerIds, cancelInLoop(id), numCreated' = numCreated
    PROVE  SeqInv' /\ \A a \in Addrs : timer'[a] = timer[a] \/ timer'[a] = NoTimer
<1>1. \A a \in Addrs : timer'[a] = timer[a] \/ timer'[a] = NoTimer
  BY DEF cancelInLoop, delete
<1>2. QED
  BY <1>1 DEF Types, SeqInv, sequence

LEMMA CancelTypes ==
    ASSUME Types, NEW id \in TimerIds, NEW inLoop \in BOOLEAN, cancel(id, inLoop)
    PROVE  Types'
<1>1. CASE inLoop
  <2>1. /\ cancelInLoop(id) /\ UNCHANGED pending
        /\ UNCHANGED <<clockVars, handleVars, numCreated, returning, ids, timerfd>>
    BY <1>1 DEF cancel
  <2>2. SeqInv'
    BY <2>1, CancelTimer
  <2>3. QED
    BY <2>1, <2>2, CancelInLoopType DEF Types, TypeOK, ClockInv, clockVars, handleVars
<1>2. CASE ~inLoop
  <2>1. <<"cancel", id>> \in {"add", "cancel"} \X TimerIds
    OBVIOUS
  <2>2. pending' = Append(pending, <<"cancel", id>>)
    BY <1>2 DEF cancel, Queues
  <2>3. pending' \in Seq({"add", "cancel"} \X TimerIds)
    BY <2>1, <2>2 DEF Types, TypeOK
  <2>4. QED
    BY <1>2, <2>3 
    DEF cancel, Types, TypeOK, ClockInv, clockVars, handleVars, Bounded, SeqInv, sequence
<1>3. QED
  BY <1>1, <1>2

\* The sequence that addTimer() reads is one that was given out.
LEMMA ReturnedId ==
    ASSUME Types, NEW id \in TimerIds, AddTimerReturns(id)
    PROVE  \E seq \in 1..numCreated :
              <<id[1], seq>> \in TimerIds /\ ids' = ids \cup {<<id[1], seq>>}
<1>1. PICK seq \in IF id[1] \in live THEN {sequence(id[1])} ELSE 1..numCreated :
          ids' = ids \cup {<<id[1], seq>>}
  BY DEF AddTimerReturns
<1>2. id[1] \in Addrs /\ numCreated \in 0..MaxTimers
  BY DEF TimerIds, Types, TypeOK
<1>3. id[1] \in live => sequence(id[1]) \in 1..numCreated
  BY <1>2 DEF Types, SeqInv, live
<1>4. seq \in 1..numCreated
  BY <1>1, <1>3
<1>5. <<id[1], seq>> \in TimerIds
  BY <1>2, <1>4, BoundsAssumption DEF TimerIds
<1>6. QED
  BY <1>1, <1>4, <1>5

LEMMA ReturnTypes ==
    ASSUME Types, NEW id \in TimerIds, AddTimerReturns(id)
    PROVE  Types'
<1>1. ids' \in SUBSET TimerIds
  <2>1. PICK seq \in 1..numCreated :
            <<id[1], seq>> \in TimerIds /\ ids' = ids \cup {<<id[1], seq>>}
    BY ReturnedId
  <2>2. QED
    BY <2>1 DEF Types, TypeOK
<1>2. QED
  BY <1>1 
  DEF AddTimerReturns, Types, TypeOK, ClockInv, Bounded, SeqInv, sequence, clockVars, handleVars

\* What doPendingFunctors() finds at the front of the queue.
LEMMA HeadOfPending ==
    ASSUME Types, pending # << >>
    PROVE  /\ Head(pending) = pending[1] /\ 1 \in DOMAIN pending
           /\ Head(pending) \in {"add", "cancel"} \X TimerIds
           /\ Head(pending)[2] \in TimerIds
           /\ Tail(pending) \in Seq({"add", "cancel"} \X TimerIds)
           /\ Len(Tail(pending)) = Len(pending) - 1
           /\ \A i \in 1..(Len(pending) - 1) : Tail(pending)[i] = pending[i + 1]
BY DEF Types, TypeOK

LEMMA RunPendingTypes ==
    ASSUME Types, RunPending
    PROVE  Types'
<1> DEFINE id == Head(pending)[2]
<1>1. id \in TimerIds /\ id[1] \in Addrs /\ pending' \in Seq({"add", "cancel"} \X TimerIds)
  BY HeadOfPending DEF RunPending, TimerIds
<1>2. UNCHANGED <<clockVars, handleVars, numCreated, returning, ids>>
  BY DEF RunPending
<1>3. CASE /\ addTimerInLoop(id, expiration(id[1]))
           /\ UNCHANGED <<timer, cancelingTimers_, cancelled>>
  <2>1. expiration(id[1]) \in Int
    BY <1>1 DEF Types, TypeOK, Timer, expiration
  <2> HIDE DEF id
  <2>2. QED
    BY <1>1, <1>2, <1>3, <2>1, AddInLoopType
    DEF Types, TypeOK, ClockInv, clockVars, handleVars, SeqInv, sequence
<1>4. CASE cancelInLoop(id) /\ UNCHANGED timerfd
  <2> HIDE DEF id
  <2>1. SeqInv'
    BY <1>1, <1>2, <1>4, CancelTimer
  <2>2. QED
    BY <1>1, <1>2, <1>4, <2>1, CancelInLoopType
    DEF Types, TypeOK, ClockInv, clockVars, handleVars
<1>5. QED
  BY <1>3, <1>4 DEF RunPending

LEMMA HandleReadTypes ==
    ASSUME Types, HandleRead
    PROVE  Types'
<1>1. now \in Nat
  BY ClockType DEF Types
<1>2. timers_' \in SUBSET timers_ /\ activeTimers_' \in SUBSET activeTimers_
  BY DEF HandleRead, stillActive
<1>3. timerfd' \in Nat \cup {Disarmed} /\ expired' \in SUBSET Addrs /\ unrun' = expired'
  BY DEF HandleRead, getExpired, Types, TypeOK
<1>4. QED
  BY <1>1, <1>2, <1>3
  DEF HandleRead, Types, TypeOK, ClockInv, Bounded, SeqInv, sequence, timerVars, clockVars

\* The Timers that reset() restarts, and when they expire.
LEMMA RestartedTimer ==
    ASSUME Types, NEW a \in Restarted
    PROVE  /\ a \in expired /\ a \in Addrs
           /\ restart(a) \in Nat \ {0}
           /\ sequence(a) \in 1..MaxTimers /\ timer[a] # NoTimer
<1>1. a \in expired /\ a \in Addrs /\ timer[a] \in Timer /\ timer[a].interval_ > 0
  BY DEF Restarted, Types, TypeOK, repeat
<1>2. timer[a].interval_ \in Nat \ {0} /\ now_ \in Nat /\ kMicroSecondsPerSecond \in Nat \ {0}
  BY <1>1, ClockAssumption DEF Types, TypeOK, Timer, ClockInv
<1>3. restart(a) \in Nat \ {0}
  BY <1>2 DEF restart, addTime
<1>4. timer[a] # NoTimer
  BY <1>1 DEF NoTimer
<1>5. sequence(a) \in 1..MaxTimers
  BY <1>1, <1>4, BoundsAssumption DEF Types, SeqInv, TypeOK
<1>6. QED
  BY <1>1, <1>3, <1>4, <1>5

\* The Timers after reset().
LEMMA ResetTimer ==
    ASSUME Types, Reset
    PROVE  /\ timer' \in [Addrs -> Timer]
           /\ \A a \in Restarted : /\ timer'[a] # NoTimer
                                   /\ expiration(a)' = restart(a)
                                   /\ sequence(a)' = sequence(a)
           /\ \A a \in expired : a \notin Restarted => timer'[a] = NoTimer
           /\ \A a \in Addrs : a \notin expired => timer'[a] = timer[a]
           /\ SeqInv'
<1>1. timer' = [a \in Addrs |-> IF a \in Restarted
                                THEN [timer[a] EXCEPT !.expiration_ = restart(a)]
                                ELSE IF a \in expired THEN NoTimer ELSE timer[a]]
  BY DEF Reset, delete
<1>2. \A a \in Addrs : timer[a] \in Timer
  BY DEF Types, TypeOK
<1>3. ASSUME NEW a \in Restarted
      PROVE  /\ timer'[a] \in Timer /\ timer'[a] # NoTimer
             /\ timer'[a].expiration_ = restart(a)
             /\ timer'[a].sequence_ = timer[a].sequence_
  <2>1. a \in Addrs /\ restart(a) \in Int /\ timer[a].sequence_ \in 1..MaxTimers
    BY RestartedTimer DEF sequence
  <2>2. timer[a] \in Timer /\ timer'[a] = [timer[a] EXCEPT !.expiration_ = restart(a)]
    BY <1>1, <1>2, <2>1
  <2>3. QED
    BY <2>1, <2>2 DEF Timer, NoTimer
<1>4. \A a \in Restarted : a \in expired /\ a \in Addrs
  BY RestartedTimer
<1>5. \A a \in Addrs : a \notin Restarted => timer'[a] = IF a \in expired THEN NoTimer ELSE timer[a]
  BY <1>1
<1>6. timer' \in [Addrs -> Timer]
  <2>1. \A a \in Addrs : timer'[a] \in Timer
    BY <1>2, <1>3, <1>5, NoTimerType
  <2>2. DOMAIN timer' = Addrs /\ timer' = [a \in Addrs |-> timer'[a]]
    BY <1>1
  <2>3. QED
    BY <2>1, <2>2
<1>7. expired \subseteq Addrs /\ numCreated' = numCreated
  BY DEF Types, TypeOK, Reset
<1>8. SeqInv'
  <2> SUFFICES ASSUME NEW a \in Addrs
               PROVE  timer'[a] = NoTimer \/ timer'[a].sequence_ \in 1..numCreated
    BY <1>7 DEF SeqInv, sequence
  <2>1. CASE a \in Restarted
    <3>1. timer[a] # NoTimer
      BY <2>1, RestartedTimer
    <3>2. QED
      BY <2>1, <1>3, <3>1 DEF Types, SeqInv, sequence
  <2>2. CASE a \notin Restarted
    BY <2>2, <1>5 DEF Types, SeqInv, sequence
  <2>3. QED
    BY <2>1, <2>2
<1>9. QED
  BY <1>3, <1>4, <1>5, <1>6, <1>7, <1>8 DEF expiration, sequence

LEMMA ResetTypes ==
    ASSUME Types, Reset
    PROVE  Types'
<1>1. /\ timers_' = timers_ \cup {<<restart(a), a>> : a \in Restarted}
      /\ activeTimers_' = activeTimers_ \cup {<<a, sequence(a)>> : a \in Restarted}
      /\ timerfd' = nextTimerfd(timers_')
      /\ timers_ \in SUBSET (Int \X Addrs) /\ activeTimers_ \in SUBSET TimerIds
  BY DEF Reset, Types, TypeOK
<1>2. \A a \in Restarted : <<restart(a), a>> \in Int \X Addrs /\ <<a, sequence(a)>> \in TimerIds
  BY RestartedTimer DEF TimerIds
<1>3. timers_' \in SUBSET (Int \X Addrs) /\ activeTimers_' \in SUBSET TimerIds
  BY <1>1, <1>2
<1>4. PICK m \in Int : \A e \in timers_ : m <= e[1]
  BY DEF Types, Bounded
<1> DEFINE n == IF m <= 0 THEN m ELSE 0
<1>5. n \in Int /\ n <= m /\ n <= 0
  OBVIOUS
<1> HIDE DEF n
<1>6. ASSUME NEW e \in timers_' PROVE n <= e[1]
  <2>1. CASE e \in timers_
    <3>1. e[1] \in Int /\ m <= e[1]
      BY <1>1, <1>4, <2>1
    <3>2. QED
      BY <1>5, <3>1
  <2>2. CASE e \notin timers_
    <3>1. PICK a \in Restarted : e = <<restart(a), a>>
      BY <1>1, <2>2
    <3>2. restart(a) \in Nat
      BY RestartedTimer
    <3>3. QED
      BY <1>5, <3>1, <3>2
  <2>3. QED
    BY <2>1, <2>2
<1>7. Bounded'
  BY <1>5, <1>6 DEF Bounded
<1>8. timerfd' \in Nat \cup {Disarmed}
  BY <1>1, <1>3, <1>5, <1>6, NextTimerfdType DEF Types
<1>9. timer' \in [Addrs -> Timer] /\ SeqInv'
  BY ResetTimer
<1>10. /\ phase' = "loop" /\ expired' = {} /\ unrun' = {} /\ now_' = 0
       /\ UNCHANGED <<numCreated, returning, ids, ticks, lag, cancelingTimers_, pending,
                      cancelled>>
  BY DEF Reset, clockVars
<1>11. TypeOK'
  BY <1>3, <1>8, <1>9, <1>10 DEF Types, TypeOK
<1>12. QED
  BY <1>7, <1>9, <1>10, <1>11 DEF Types, ClockInv

LEMMA DestroyTypes ==
    ASSUME Types, Destroy
    PROVE  Types'
<1>1. timer' \in [Addrs -> Timer]
  BY DeleteType DEF Destroy, Types
<1>2. SeqInv'
  BY DEF Destroy, delete, Types, SeqInv, sequence
<1>3. QED
  BY <1>1, <1>2 DEF Destroy, Types, TypeOK, ClockInv, Bounded, clockVars

\* Every step keeps the types.
LEMMA NextTypes == Types /\ [Next]_vars => Types'
<1> SUFFICES ASSUME Types, [Next]_vars PROVE Types'
  OBVIOUS
<1> USE DEF Types, TypeOK, ClockInv, Bounded, SeqInv, sequence
<1>1. CASE Tick
  BY <1>1, ClockAssumption DEF Tick, timerVars, handleVars
<1>2. ASSUME NEW l \in Lags, SetTime(l) PROVE Types'
  BY <1>2 DEF SetTime, timerVars, handleVars
<1>3. CASE PollTimerfd
  BY <1>3 DEF PollTimerfd, timerVars, clockVars
<1>4. ASSUME NEW a \in Addrs, RunTimer(a) PROVE Types'
  BY <1>4 DEF RunTimer, timerVars, clockVars
<1>5. CASE UNCHANGED vars
  BY <1>5 DEF vars, timerVars, clockVars, handleVars
<1> USE DEF Types
<1> HIDE DEF Types, TypeOK, ClockInv, Bounded, SeqInv, sequence
<1>6. ASSUME NEW a \in Addrs, NEW inLoop \in BOOLEAN, Add(a, inLoop) PROVE Types'
  BY <1>6, AddIsAddTimer, AddTypes
<1>7. QED
  BY <1>1, <1>2, <1>3, <1>4, <1>5, <1>6, CancelTypes, ReturnTypes, RunPendingTypes,
     HandleReadTypes, ResetTypes, DestroyTypes
  DEF Next

-----------------------------------------------------------------------------
(* The functors that wait in the loop.                                     *)

\* No two functors that add a timer are for the same address.
Distinct ==
    \A i, j \in DOMAIN pending :
        pending[i][1] = "add" /\ pending[j][1] = "add" /\ pending[i][2][1] = pending[j][2][1]
            => i = j

\* Functors are about TimerIds that were given out.
PendingIds == \A i \in DOMAIN pending : pending[i][2][2] <= numCreated

LEMMA QueuedIs ==
    ASSUME NEW id
    PROVE  id \in Queued <=> \E i \in DOMAIN pending : pending[i][1] = "add" /\ pending[i][2] = id
BY DEF Queued

LEMMA QueuedIsNext ==
    ASSUME NEW id
    PROVE  id \in Queued' <=> \E i \in DOMAIN pending' : pending'[i][1] = "add" /\ pending'[i][2] = id
BY DEF Queued

LEMMA QueuedTypes ==
    ASSUME Types
    PROVE  Queued \subseteq TimerIds
<1>1. \A i \in DOMAIN pending : pending[i] \in {"add", "cancel"} \X TimerIds
  BY DEF Types, TypeOK
<1>2. \A i \in DOMAIN pending : pending[i][2] \in TimerIds
  BY <1>1
<1>3. QED
  BY <1>2 DEF Queued

\* What queueing a functor does.
LEMMA AppendPending ==
    ASSUME Types, NEW kind, NEW id, pending' = Append(pending, <<kind, id>>)
    PROVE  /\ DOMAIN pending' = 1..(Len(pending) + 1) /\ DOMAIN pending = 1..Len(pending)
           /\ Len(pending) \in Nat
           /\ \A i \in DOMAIN pending : pending'[i] = pending[i]
           /\ pending'[Len(pending) + 1][1] = kind /\ pending'[Len(pending) + 1][2] = id
<1> DEFINE f == <<kind, id>>
<1>1. f[1] = kind /\ f[2] = id /\ pending' = Append(pending, f)
  OBVIOUS
<1> HIDE DEF f
<1>2. pending \in Seq({"add", "cancel"} \X TimerIds)
  BY DEF Types, TypeOK
<1>3. QED
  BY <1>1, <1>2

LEMMA QueueAdd ==
    ASSUME Types, Distinct, NEW id \in TimerIds, pending' = Append(pending, <<"add", id>>),
           \A q \in Queued : q[1] # id[1]
    PROVE  Queued' = Queued \cup {id} /\ Distinct'
<1> DEFINE n == Len(pending) + 1
<1>1. /\ DOMAIN pending' = 1..n /\ DOMAIN pending = 1..(n - 1) /\ n \in Nat \ {0}
      /\ \A i \in DOMAIN pending : pending'[i] = pending[i]
      /\ pending'[n][1] = "add" /\ pending'[n][2] = id
  BY AppendPending
<1> HIDE DEF n
<1>2. \A i \in DOMAIN pending' : i \in DOMAIN pending \/ i = n
  BY <1>1
<1>3. n \in DOMAIN pending' /\ \A i \in DOMAIN pending : i \in DOMAIN pending'
  BY <1>1
<1>4. ASSUME NEW x PROVE x \in Queued' <=> x \in Queued \/ x = id
  BY <1>1, <1>2, <1>3, QueuedIs, QueuedIsNext
<1>5. Distinct'
  <2> SUFFICES ASSUME NEW i \in DOMAIN pending', NEW j \in DOMAIN pending',
                      pending'[i][1] = "add", pending'[j][1] = "add",
                      pending'[i][2][1] = pending'[j][2][1]
               PROVE  i = j
    BY DEF Distinct
  <2>1. \A k \in DOMAIN pending : pending[k][1] = "add" => pending[k][2][1] # id[1]
    BY QueuedIs
  <2>2. CASE i \in DOMAIN pending /\ j \in DOMAIN pending
    BY <1>1, <2>2 DEF Distinct
  <2>3. CASE ~(i \in DOMAIN pending /\ j \in DOMAIN pending)
    BY <1>1, <1>2, <2>1, <2>3
  <2>4. QED
    BY <2>2, <2>3
<1>6. QED
  BY <1>4, <1>5

LEMMA QueueCancel ==
    ASSUME Types, Distinct, NEW id \in TimerIds, pending' = Append(pending, <<"cancel", id>>)
    PROVE  Queued' = Queued /\ Distinct'
<1> DEFINE n == Len(pending) + 1
<1>1. /\ DOMAIN pending' = 1..n /\ DOMAIN pending = 1..(n - 1) /\ n \in Nat \ {0}
      /\ \A i \in DOMAIN pending : pending'[i] = pending[i]
      /\ pending'[n][1] = "cancel" /\ pending'[n][2] = id
  BY AppendPending
<1> HIDE DEF n
<1>2. \A i \in DOMAIN pending' : i \in DOMAIN pending \/ i = n
  BY <1>1
<1>3. \A i \in DOMAIN pending : i \in DOMAIN pending'
  BY <1>1
<1>4. ASSUME NEW x PROVE x \in Queued' <=> x \in Queued
  BY <1>1, <1>2, <1>3, QueuedIs, QueuedIsNext
<1>5. Distinct'
  BY <1>1, <1>2 DEF Distinct
<1>6. QED
  BY <1>4, <1>5

\* What running the first functor does.
LEMMA QueueTail ==
    ASSUME Types, Distinct, pending # << >>, pending' = Tail(pending)
    PROVE  /\ Distinct'
           /\ Head(pending)[1] = "add" =>
                /\ Head(pending)[2] \in Queued
                /\ Queued' = Queued \ {Head(pending)[2]}
           /\ Head(pending)[1] # "add" => Queued' = Queued
<1> DEFINE n == Len(pending)
<1>1. /\ DOMAIN pending = 1..n /\ n \in Nat \ {0} /\ DOMAIN pending' = 1..(n - 1)
      /\ \A i \in DOMAIN pending' : pending'[i] = pending[i + 1]
      /\ Head(pending) = pending[1]
  BY HeadOfPending DEF Types, TypeOK
<1> HIDE DEF n
<1>2. \A i \in DOMAIN pending' : i + 1 \in DOMAIN pending /\ i + 1 # 1
  BY <1>1
<1>3. \A i \in DOMAIN pending : i = 1 \/ (i - 1 \in DOMAIN pending' /\ pending'[i - 1] = pending[i])
  BY <1>1
<1> DEFINE Adds(i, x) == pending[i][1] = "add" /\ pending[i][2] = x
<1>4. ASSUME NEW x
      PROVE  x \in Queued' <=> \E i \in DOMAIN pending : i # 1 /\ Adds(i, x)
  <2>1. ASSUME x \in Queued' PROVE \E i \in DOMAIN pending : i # 1 /\ Adds(i, x)
    <3>1. PICK i \in DOMAIN pending' : pending'[i][1] = "add" /\ pending'[i][2] = x
      BY <2>1, QueuedIsNext
    <3>2. Adds(i + 1, x) /\ i + 1 \in DOMAIN pending /\ i + 1 # 1
      BY <1>1, <1>2, <3>1
    <3> HIDE DEF Adds
    <3>3. QED
      BY <3>2
  <2>2. ASSUME NEW i \in DOMAIN pending, i # 1, Adds(i, x) PROVE x \in Queued'
    <3>1. i - 1 \in DOMAIN pending' /\ pending'[i - 1] = pending[i]
      BY <1>3, <2>2
    <3>2. QED
      BY <2>2, <3>1, QueuedIsNext
  <2>3. QED
    BY <2>1, <2>2
<1>5. \A x : x \in Queued <=> \E i \in DOMAIN pending : Adds(i, x)
  BY QueuedIs
<1>6. Distinct'
  <2> SUFFICES ASSUME NEW i \in DOMAIN pending', NEW j \in DOMAIN pending',
                      pending'[i][1] = "add", pending'[j][1] = "add",
                      pending'[i][2][1] = pending'[j][2][1]
               PROVE  i = j
    BY DEF Distinct
  <2>1. i + 1 = j + 1
    BY <1>1, <1>2 DEF Distinct
  <2>2. QED
    BY <1>1, <2>1
<1>7. CASE Head(pending)[1] = "add"
  <2>1. Head(pending)[2] \in Queued
    BY <1>1, <1>7, QueuedIs
  <2>2. \A i \in DOMAIN pending : Adds(i, Head(pending)[2]) => i = 1
    BY <1>1, <1>7 DEF Distinct
  <2>3. ASSUME NEW x, NEW i \in DOMAIN pending, Adds(i, x), i = 1 PROVE x = Head(pending)[2]
    BY <1>1, <2>3
  <2> HIDE DEF Adds
  <2>4. ASSUME NEW x PROVE x \in Queued' <=> x \in Queued /\ x # Head(pending)[2]
    BY <1>4, <1>5, <2>2, <2>3
  <2>5. QED
    BY <1>6, <1>7, <2>1, <2>4
<1>8. CASE Head(pending)[1] # "add"
  <2>1. ASSUME NEW x, NEW i \in DOMAIN pending, Adds(i, x) PROVE i # 1
    BY <1>1, <1>8, <2>1
  <2> HIDE DEF Adds
  <2>2. ASSUME NEW x PROVE x \in Queued' <=> x \in Queued
    BY <1>4, <1>5, <2>1
  <2>3. QED
    BY <1>6, <1>8, <2>2
<1>9. QED
  BY <1>7, <1>8

-----------------------------------------------------------------------------
(* Who owns a Timer.                                                       *)

\* A Timer is in timers_, under its own expiration; one is in a functor.
Held(a) == <<expiration(a), a>> \in timers_
InQueue(a) == \E id \in Queued : id[1] = a

\* The Timers in functors are those they were made for.
QueueInv == Distinct /\ PendingIds /\ \A id \in Queued : sequence(id[1]) = id[2]

EntryInv == \A e \in timers_ : e[1] = expiration(e[2])

ActiveInv ==
    \A id \in TimerIds : id \in activeTimers_ <=> Held(id[1]) /\ sequence(id[1]) = id[2]

OwnerInv ==
    \A a \in Addrs :
        /\ Held(a) => a \in live /\ a \notin expired /\ ~InQueue(a)
        /\ a \in expired => a \in live /\ ~InQueue(a)
        /\ a \in live => Held(a) \/ a \in expired \/ InQueue(a)

\* handleRead()'s vector is empty outside handleRead().
PhaseInv == phase # "calling" => expired = {}

Own == QueueInv /\ EntryInv /\ ActiveInv /\ OwnerInv /\ PhaseInv

\* An entry of timers_ is the one of a Timer that it holds.
LEMMA EntryHeld ==
    ASSUME Types, EntryInv, NEW e \in timers_
    PROVE  e = <<e[1], e[2]>> /\ e[1] \in Int /\ e[2] \in Addrs /\ Held(e[2])
<1>1. e \in Int \X Addrs
  BY DEF Types, TypeOK
<1>2. QED
  BY <1>1 DEF EntryInv, Held

LEMMA InitOwn == Init => Own
<1> SUFFICES ASSUME Init PROVE Own
  OBVIOUS
<1>1. Queued = {} /\ DOMAIN pending = {}
  BY DEF Init, Queued
<1>2. live = {}
  BY DEF Init, live
<1>3. QED
  BY <1>1, <1>2
  DEF Init, Own, QueueInv, Distinct, PendingIds, EntryInv, ActiveInv, OwnerInv, PhaseInv, Held, InQueue

\* Steps that neither make, move nor delete a Timer.
LEMMA QuietOwn ==
    ASSUME Types, Own, expired' = expired,
           phase' # "calling" => expired = {},
           UNCHANGED <<timer, numCreated, timers_, activeTimers_, pending>>
    PROVE  Own'
<1>0. UNCHANGED <<Queued, live>>
  BY DEF Queued, live
<1>1. QueueInv'
  BY <1>0 DEF Own, QueueInv, Distinct, PendingIds, sequence
<1>2. EntryInv' /\ ActiveInv'
  BY DEF Own, EntryInv, ActiveInv, Held, expiration, sequence
<1>3. OwnerInv' /\ PhaseInv'
  BY <1>0 DEF Own, OwnerInv, PhaseInv, Held, InQueue, expiration
<1>4. QED
  BY <1>1, <1>2, <1>3 DEF Own

\* A Timer whose address is free is owned by nobody.
LEMMA FreeAddr ==
    ASSUME Types, Own, NEW a \in Addrs, a \notin live
    PROVE  /\ ~Held(a) /\ a \notin expired /\ ~InQueue(a)
           /\ \A e \in timers_ : e[2] # a
           /\ \A id \in Queued : id[1] # a
           /\ \A id \in activeTimers_ : id[1] # a
<1>1. ~Held(a) /\ a \notin expired
  BY DEF Own, OwnerInv
<1>2. ~InQueue(a)
  <2> SUFFICES ASSUME NEW id \in Queued, id[1] = a PROVE FALSE
    BY DEF InQueue
  <2>1. id \in TimerIds /\ sequence(a) = id[2] /\ id[2] \in 1..MaxTimers
    BY QueuedTypes DEF Own, QueueInv, TimerIds
  <2>2. sequence(a) = 0
    BY DEF live, sequence, NoTimer
  <2>3. QED
    BY <2>1, <2>2, BoundsAssumption
<1>3. \A e \in timers_ : e[2] # a
  BY <1>1, EntryHeld DEF Own
<1>4. \A id \in activeTimers_ : id[1] # a
  BY <1>1 DEF Own, ActiveInv, Types, TypeOK
<1>5. QED
  BY <1>1, <1>2, <1>3, <1>4 DEF InQueue

LEMMA AddOwn ==
    ASSUME Types, Own, NEW a \in Addrs, NEW when \in Int, NEW interval \in Nat,
           NEW inLoop \in BOOLEAN, addTimer(a, when, interval, inLoop)
    PROVE  Own'
<1> DEFINE id == <<a, numCreated + 1>>
<1>1. /\ numCreated' = numCreated + 1 /\ numCreated \in Nat /\ id \in TimerIds
      /\ id[1] = a /\ id[2] = numCreated + 1
      /\ \A b \in Addrs : b # a => timer'[b] = timer[b]
      /\ expiration(a)' = when /\ sequence(a)' = numCreated + 1
      /\ a \notin live /\ a \in live' /\ \A b \in Addrs : b # a => (b \in live' <=> b \in live)
      /\ phase # "destroyed"
  BY NewTimer DEF Types, TypeOK, live
<1>2. UNCHANGED <<phase, expired>>
  BY DEF addTimer, handleVars
<1>3. \A b \in Addrs : b # a => expiration(b)' = expiration(b) /\ sequence(b)' = sequence(b)
  BY <1>1 DEF expiration, sequence
<1>4. /\ ~Held(a) /\ a \notin expired /\ ~InQueue(a)
      /\ \A e \in timers_ : e[2] # a
      /\ \A i \in Queued : i[1] # a
      /\ \A i \in activeTimers_ : i[1] # a
  BY <1>1, FreeAddr
<1>5. CASE inLoop
  <2>1. addTimerInLoop(id, when) /\ pending' = pending
    BY <1>5 DEF addTimer, incrementAndGet
  <2>2. timers_' = timers_ \cup {<<when, a>>} /\ activeTimers_' = activeTimers_ \cup {id}
    BY <2>1 DEF addTimerInLoop
  <2> HIDE DEF id
  <2>3. Queued' = Queued
    BY <2>1 DEF Queued
  <2>4. \A i \in Queued : i \in TimerIds /\ i[1] \in Addrs /\ i[1] # a
    BY <1>4, QueuedTypes DEF TimerIds
  <2>5. QueueInv'
    <3>1. Distinct'
      BY <2>1 DEF Own, QueueInv, Distinct
    <3>2. PendingIds'
      <4>1. ASSUME NEW i \in DOMAIN pending PROVE pending[i][2][2] <= numCreated + 1
        <5>1. pending[i] \in {"add", "cancel"} \X TimerIds
          BY DEF Types, TypeOK
        <5>2. pending[i][2][2] \in Int /\ pending[i][2][2] <= numCreated
          BY <5>1 DEF TimerIds, Own, QueueInv, PendingIds
        <5>3. QED
          BY <1>1, <5>2
      <4>2. QED
        BY <1>1, <2>1, <4>1 DEF PendingIds
    <3>3. \A i \in Queued' : sequence(i[1])' = i[2]
      BY <1>3, <2>3, <2>4 DEF Own, QueueInv
    <3>4. QED
      BY <3>1, <3>2, <3>3 DEF QueueInv
  <2>6. Held(a)' /\ \A b \in Addrs : b # a => (Held(b)' <=> Held(b))
    BY <1>1, <1>3, <2>2 DEF Held
  <2>7. EntryInv'
    <3>1. \A e \in timers_ : e[2] \in Addrs
      BY EntryHeld DEF Own
    <3>2. QED
      BY <1>1, <1>3, <1>4, <2>2, <3>1 DEF Own, EntryInv
  <2>8. ActiveInv'
    <3> SUFFICES ASSUME NEW i \in TimerIds
                 PROVE  i \in activeTimers_' <=> Held(i[1])' /\ sequence(i[1])' = i[2]
      BY DEF ActiveInv
    <3>1. i[1] \in Addrs /\ i = <<i[1], i[2]>> /\ id = <<id[1], id[2]>>
      BY <1>1 DEF TimerIds
    <3>2. CASE i[1] = a
      BY <1>1, <1>4, <2>2, <2>6, <3>1, <3>2
    <3>3. CASE i[1] # a
      BY <1>1, <1>3, <2>2, <2>6, <3>1, <3>3 DEF Own, ActiveInv
    <3>4. QED
      BY <3>2, <3>3
  <2>9. OwnerInv'
    <3>1. \A b \in Addrs : InQueue(b)' <=> InQueue(b)
      BY <2>3 DEF InQueue
    <3>2. QED
      BY <1>1, <1>2, <1>4, <2>6, <3>1 DEF Own, OwnerInv
  <2>10. QED
    BY <1>2, <2>5, <2>7, <2>8, <2>9 DEF Own, PhaseInv
<1>6. CASE ~inLoop
  <2>1. pending' = Append(pending, <<"add", id>>) /\ UNCHANGED <<timers_, activeTimers_>>
    BY <1>6 DEF addTimer, incrementAndGet, Queues
  <2> HIDE DEF id
  <2>2. Queued' = Queued \cup {id} /\ Distinct'
    BY <1>1, <1>4, <2>1, QueueAdd DEF Own, QueueInv
  <2>3. \A i \in Queued : i \in TimerIds /\ i[1] \in Addrs /\ i[1] # a
    BY <1>4, QueuedTypes DEF TimerIds
  <2>4. PendingIds'
    <3> SUFFICES ASSUME NEW i \in DOMAIN pending' PROVE pending'[i][2][2] <= numCreated + 1
      BY <1>1 DEF PendingIds
    <3>1. CASE i \in DOMAIN pending
      <4>1. pending[i] \in {"add", "cancel"} \X TimerIds /\ pending'[i] = pending[i]
        BY <2>1, <3>1, AppendPending DEF Types, TypeOK
      <4>2. pending[i][2][2] \in Int /\ pending[i][2][2] <= numCreated
        BY <3>1, <4>1 DEF TimerIds, Own, QueueInv, PendingIds
      <4>3. QED
        BY <1>1, <4>1, <4>2
    <3>2. CASE i \notin DOMAIN pending
      <4>1. i = Len(pending) + 1 /\ pending'[i][2] = id
        BY <2>1, <3>2, AppendPending
      <4>2. QED
        BY <1>1, <4>1
    <3>3. QED
      BY <3>1, <3>2
  <2>5. QueueInv'
    BY <1>1, <1>3, <2>2, <2>3, <2>4 DEF Own, QueueInv
  <2>6. \A b \in Addrs : b # a => (Held(b)' <=> Held(b))
    BY <1>3, <2>1 DEF Held
  <2>7. ~Held(a)'
    BY <1>4, <2>1 DEF Held
  <2>8. EntryInv'
    <3>1. \A e \in timers_ : e[2] \in Addrs
      BY EntryHeld DEF Own
    <3>2. QED
      BY <1>3, <1>4, <2>1, <3>1 DEF Own, EntryInv
  <2>9. ActiveInv'
    <3> SUFFICES ASSUME NEW i \in TimerIds
                 PROVE  i \in activeTimers_ <=> Held(i[1])' /\ sequence(i[1])' = i[2]
      BY <2>1 DEF ActiveInv
    <3>1. i[1] \in Addrs
      BY DEF TimerIds
    <3>2. QED
      BY <1>3, <1>4, <2>6, <2>7, <3>1 DEF Own, ActiveInv
  <2>10. OwnerInv'
    <3>1. InQueue(a)' /\ \A b \in Addrs : b # a => (InQueue(b)' <=> InQueue(b))
      BY <1>1, <2>2 DEF InQueue
    <3>2. QED
      BY <1>1, <1>2, <1>4, <2>6, <2>7, <3>1 DEF Own, OwnerInv
  <2>11. QED
    BY <1>2, <2>5, <2>8, <2>9, <2>10 DEF Own, PhaseInv
<1>7. QED
  BY <1>5, <1>6

\* Deleting the Timer of an entry that is erased, and of no other.
LEMMA EraseOwn ==
    ASSUME Types, Own, NEW id \in activeTimers_,
           timers_' = timers_ \ {<<expiration(id[1]), id[1]>>},
           activeTimers_' = activeTimers_ \ {id},
           timer' = delete({id[1]}),
           Queued' = Queued, Distinct', PendingIds', UNCHANGED <<phase, expired>>
    PROVE  Own'
<1> DEFINE a == id[1]
<1>1. id \in TimerIds /\ a \in Addrs /\ Held(a) /\ sequence(a) = id[2]
  BY DEF Types, TypeOK, TimerIds, Own, ActiveInv
<1>2. timer'[a] = NoTimer /\ \A b \in Addrs : b # a => timer'[b] = timer[b]
  BY <1>1 DEF delete
<1>3. /\ a \notin live' /\ \A b \in Addrs : b # a => (b \in live' <=> b \in live)
      /\ \A b \in Addrs : b # a => expiration(b)' = expiration(b) /\ sequence(b)' = sequence(b)
  BY <1>2 DEF live, expiration, sequence
<1>4. a \notin expired /\ ~InQueue(a) /\ \A b \in Addrs : InQueue(b)' <=> InQueue(b)
  BY <1>1 DEF Own, OwnerInv, InQueue
<1>5. \A e \in timers_ : e[2] = a => e = <<expiration(a), a>>
  BY EntryHeld DEF Own, EntryInv
<1> HIDE DEF a
<1>6. \A e \in timers_' : e \in timers_ /\ e[2] \in Addrs /\ e[2] # a
  BY <1>5, EntryHeld DEF a, Own
<1>7. ~Held(a)' /\ \A b \in Addrs : b # a => (Held(b)' <=> Held(b))
  <2>1. ~Held(a)'
    BY <1>6 DEF Held
  <2>2. ASSUME NEW b \in Addrs, b # a PROVE Held(b)' <=> Held(b)
    <3>1. <<expiration(b), b>> # <<expiration(a), a>>
      BY <2>2
    <3>2. QED
      BY <1>3, <2>2, <3>1 DEF Held, a
  <2>3. QED
    BY <2>1, <2>2
<1>8. QueueInv'
  <2>1. \A i \in Queued : i[1] \in Addrs /\ i[1] # a
    BY <1>4, QueuedTypes DEF TimerIds, InQueue
  <2>2. QED
    BY <1>3, <2>1 DEF Own, QueueInv
<1>9. EntryInv'
  BY <1>3, <1>6 DEF Own, EntryInv
<1>10. ActiveInv'
  <2> SUFFICES ASSUME NEW i \in TimerIds
               PROVE  i \in activeTimers_' <=> Held(i[1])' /\ sequence(i[1])' = i[2]
    BY DEF ActiveInv
  <2>1. i[1] \in Addrs /\ i = <<i[1], i[2]>> /\ id = <<id[1], id[2]>>
    BY <1>1 DEF TimerIds
  <2>2. CASE i[1] = a
    BY <1>1, <1>7, <2>1, <2>2 DEF Own, ActiveInv, a
  <2>3. CASE i[1] # a
    BY <1>3, <1>7, <2>1, <2>3 DEF Own, ActiveInv, a
  <2>4. QED
    BY <2>2, <2>3
<1>11. OwnerInv' /\ PhaseInv'
  BY <1>3, <1>4, <1>7 DEF Own, OwnerInv, PhaseInv
<1>12. QED
  BY <1>8, <1>9, <1>10, <1>11 DEF Own

LEMMA CancelInLoopOwn ==
    ASSUME Types, Own, NEW id \in TimerIds, cancelInLoop(id),
           Queued' = Queued, Distinct', PendingIds', UNCHANGED <<phase, expired>>
    PROVE  Own'
<1>1. CASE id \in activeTimers_
  BY <1>1, EraseOwn DEF cancelInLoop
<1>2. CASE id \notin activeTimers_
  <2>1. UNCHANGED <<timers_, activeTimers_, timer>>
    BY <1>2 DEF cancelInLoop
  <2>2. QueueInv' /\ EntryInv' /\ ActiveInv'
    BY <2>1 DEF Own, QueueInv, EntryInv, ActiveInv, Held, expiration, sequence
  <2>3. OwnerInv' /\ PhaseInv'
    BY <2>1 DEF Own, OwnerInv, PhaseInv, Held, InQueue, expiration, live
  <2>4. QED
    BY <2>2, <2>3 DEF Own
<1>3. QED
  BY <1>1, <1>2

LEMMA CancelOwn ==
    ASSUME Types, Own, NEW id \in TimerIds, NEW inLoop \in BOOLEAN, cancel(id, inLoop),
           id[2] <= numCreated
    PROVE  Own'
<1>1. UNCHANGED <<phase, expired, numCreated>>
  BY DEF cancel, handleVars
<1>2. CASE inLoop
  <2>1. cancelInLoop(id) /\ pending' = pending
    BY <1>2 DEF cancel
  <2>2. Queued' = Queued /\ Distinct' /\ PendingIds'
    BY <1>1, <2>1 DEF Own, QueueInv, Queued, Distinct, PendingIds
  <2>3. QED
    BY <1>1, <2>1, <2>2, CancelInLoopOwn
<1>3. CASE ~inLoop
  <2>1. /\ pending' = Append(pending, <<"cancel", id>>)
        /\ UNCHANGED <<timers_, activeTimers_, timer>>
    BY <1>3 DEF cancel, Queues
  <2>2. Queued' = Queued /\ Distinct'
    BY <2>1, QueueCancel DEF Own, QueueInv
  <2>3. PendingIds'
    <3> SUFFICES ASSUME NEW i \in DOMAIN pending' PROVE pending'[i][2][2] <= numCreated
      BY <1>1 DEF PendingIds
    <3>1. CASE i \in DOMAIN pending
      BY <2>1, <3>1, AppendPending DEF Own, QueueInv, PendingIds
    <3>2. CASE i \notin DOMAIN pending
      <4>1. i = Len(pending) + 1 /\ pending'[i][2] = id
        BY <2>1, <3>2, AppendPending
      <4>2. QED
        BY <4>1
    <3>3. QED
      BY <3>1, <3>2
  <2>4. QueueInv' /\ EntryInv' /\ ActiveInv'
    BY <2>1, <2>2, <2>3 DEF Own, QueueInv, EntryInv, ActiveInv, Held, expiration, sequence
  <2>5. OwnerInv' /\ PhaseInv'
    BY <1>1, <2>1, <2>2 DEF Own, OwnerInv, PhaseInv, Held, InQueue, expiration, live
  <2>6. QED
    BY <2>4, <2>5 DEF Own
<1>4. QED
  BY <1>2, <1>3

LEMMA RunPendingOwn ==
    ASSUME Types, Own, RunPending
    PROVE  Own'
<1>0. PICK id \in TimerIds : id = Head(pending)[2]
  BY HeadOfPending DEF RunPending
<1> DEFINE a == id[1]
<1>1. /\ id \in TimerIds /\ a \in Addrs /\ pending # << >> /\ pending' = Tail(pending)
      /\ UNCHANGED <<phase, expired, numCreated>>
  BY DEF RunPending, TimerIds, handleVars
<1>2. /\ Distinct'
      /\ Head(pending)[1] = "add" => id \in Queued /\ Queued' = Queued \ {id}
      /\ Head(pending)[1] # "add" => Queued' = Queued
  BY <1>0, <1>1, QueueTail DEF Own, QueueInv
<1>3. PendingIds'
  <2>1. /\ Len(pending) \in Nat /\ DOMAIN pending' = 1..(Len(pending) - 1)
        /\ DOMAIN pending = 1..Len(pending)
        /\ \A i \in DOMAIN pending' : pending'[i] = pending[i + 1]
    BY <1>1, HeadOfPending DEF Types, TypeOK
  <2>2. \A i \in DOMAIN pending' : i + 1 \in DOMAIN pending
    BY <2>1
  <2>3. QED
    BY <1>1, <2>1, <2>2 DEF Own, QueueInv, PendingIds
<1>4. CASE Head(pending)[1] = "add" /\ addTimerInLoop(id, expiration(a)) /\ timer' = timer
  <2>1. /\ timers_' = timers_ \cup {<<expiration(a), a>>}
        /\ activeTimers_' = activeTimers_ \cup {id}
    BY <1>4 DEF addTimerInLoop
  <2>2. id \in Queued /\ Queued' = Queued \ {id} /\ sequence(a) = id[2] /\ InQueue(a)
    BY <1>2, <1>4 DEF Own, QueueInv, InQueue
  <2>3. \A i \in Queued : i[1] = a => i = id
    BY <2>2, QueuedTypes DEF Own, QueueInv, TimerIds
  <2>4. \A b : expiration(b)' = expiration(b) /\ sequence(b)' = sequence(b)
    BY <1>4 DEF expiration, sequence
  <2> HIDE DEF a
  <2>5. Held(a)' /\ \A b \in Addrs : b # a => (Held(b)' <=> Held(b))
    BY <2>1, <2>4 DEF Held
  <2>6. ~InQueue(a)' /\ \A b \in Addrs : b # a => (InQueue(b)' <=> InQueue(b))
    BY <2>2, <2>3 DEF InQueue, a
  <2>7. QueueInv'
    BY <1>2, <1>3, <2>2, <2>4 DEF Own, QueueInv
  <2>8. EntryInv'
    BY <2>1, <2>4 DEF Own, EntryInv
  <2>9. ~Held(a) /\ a \notin expired /\ a \in live
    <3>1. ~Held(a) /\ a \notin expired
      BY <1>1, <2>2 DEF Own, OwnerInv
    <3>2. sequence(a) \in 1..MaxTimers
      BY <1>1, <2>2 DEF TimerIds
    <3>3. timer[a] # NoTimer
      BY <3>2, BoundsAssumption DEF sequence, NoTimer
    <3>4. QED
      BY <1>1, <3>1, <3>3 DEF live
  <2>10. ActiveInv'
    <3> SUFFICES ASSUME NEW i \in TimerIds
                 PROVE  i \in activeTimers_' <=> Held(i[1])' /\ sequence(i[1])' = i[2]
      BY DEF ActiveInv
    <3>1. i[1] \in Addrs /\ i = <<i[1], i[2]>> /\ id = <<a, id[2]>>
      BY <1>1 DEF TimerIds, a
    <3>2. CASE i[1] = a
      BY <2>1, <2>2, <2>4, <2>5, <2>9, <3>1, <3>2 DEF Own, ActiveInv
    <3>3. CASE i[1] # a
      BY <2>1, <2>4, <2>5, <3>1, <3>3 DEF Own, ActiveInv, a
    <3>4. QED
      BY <3>2, <3>3
  <2>11. OwnerInv' /\ PhaseInv'
    <3>1. live' = live
      BY <1>4 DEF live
    <3>2. QED
      BY <1>1, <2>5, <2>6, <2>9, <3>1 DEF Own, OwnerInv, PhaseInv
  <2>12. QED
    BY <2>7, <2>8, <2>10, <2>11 DEF Own
<1>5. CASE Head(pending)[1] = "cancel" /\ cancelInLoop(id)
  BY <1>1, <1>2, <1>3, <1>5, CancelInLoopOwn
<1>6. QED
  BY <1>0, <1>4, <1>5 DEF RunPending

\* getExpired() moves Timers from timers_ to the vector.
LEMMA HandleReadOwn ==
    ASSUME Types, Own, HandleRead
    PROVE  Own'
<1>1. /\ timers_' = {e \in timers_ : e[2] \notin getExpired}
      /\ activeTimers_' = {i \in activeTimers_ : i[1] \notin getExpired}
      /\ expired' = getExpired /\ phase = "reported" /\ phase' = "calling"
      /\ UNCHANGED <<timer, numCreated, pending>>
  BY DEF HandleRead, stillActive, timerVars
<1>2. /\ Queued' = Queued /\ live' = live
      /\ \A b : expiration(b)' = expiration(b) /\ sequence(b)' = sequence(b)
  BY <1>1 DEF Queued, live, expiration, sequence
<1>3. expired = {} /\ getExpired \subseteq Addrs /\ \A b \in getExpired : Held(b)
  BY <1>1 DEF Own, PhaseInv, getExpired, Held
<1>4. \A b \in Addrs : (Held(b)' <=> Held(b) /\ b \notin expired') /\ (InQueue(b)' <=> InQueue(b))
  BY <1>1, <1>2 DEF Held, InQueue
<1>5. QueueInv'
  BY <1>1, <1>2 DEF Own, QueueInv, Distinct, PendingIds
<1>6. EntryInv'
  BY <1>1, <1>2 DEF Own, EntryInv
<1>7. ActiveInv'
  <2> SUFFICES ASSUME NEW i \in TimerIds
               PROVE  i \in activeTimers_' <=> Held(i[1])' /\ sequence(i[1])' = i[2]
    BY DEF ActiveInv
  <2>1. i[1] \in Addrs
    BY DEF TimerIds
  <2>2. QED
    BY <1>1, <1>2, <1>4, <2>1 DEF Own, ActiveInv
<1>8. OwnerInv' /\ PhaseInv'
  BY <1>1, <1>2, <1>3, <1>4 DEF Own, OwnerInv, PhaseInv
<1>9. QED
  BY <1>5, <1>6, <1>7, <1>8 DEF Own

\* reset() moves Timers back to timers_ or deletes them.
LEMMA ResetOwn ==
    ASSUME Types, Own, Reset
    PROVE  Own'
<1>1. /\ timers_' = timers_ \cup {<<restart(a), a>> : a \in Restarted}
      /\ activeTimers_' = activeTimers_ \cup {<<a, sequence(a)>> : a \in Restarted}
      /\ expired' = {} /\ phase = "calling" /\ phase' = "loop"
      /\ UNCHANGED <<numCreated, pending>>
  BY DEF Reset
<1>2. /\ \A a \in Restarted : /\ a \in live' /\ a \in expired /\ a \in Addrs
                              /\ expiration(a)' = restart(a) /\ sequence(a)' = sequence(a)
      /\ \A a \in expired : a \notin Restarted => a \notin live'
      /\ \A a \in Addrs : a \notin expired =>
            /\ a \in live' <=> a \in live
            /\ expiration(a)' = expiration(a) /\ sequence(a)' = sequence(a)
  BY ResetTimer, RestartedTimer DEF live, expiration, sequence
<1>3. Queued' = Queued /\ (\A b \in Addrs : InQueue(b)' <=> InQueue(b))
  BY <1>1 DEF Queued, InQueue
<1>4. \A b \in expired : b \in Addrs /\ ~Held(b) /\ ~InQueue(b) /\ \A e \in timers_ : e[2] # b
  BY EntryHeld DEF Own, OwnerInv, Types, TypeOK
<1>5. \A e \in timers_ : e[2] \in Addrs /\ e[2] \notin expired
  BY <1>4, EntryHeld DEF Own
<1>6. \A b \in Restarted : Held(b)'
  BY <1>1, <1>2 DEF Held
<1>7. ASSUME NEW b \in Addrs, b \notin Restarted PROVE Held(b)' <=> b \notin expired /\ Held(b)
  <2>1. ASSUME NEW x PROVE <<x, b>> \in timers_' <=> <<x, b>> \in timers_
    BY <1>1, <1>7
  <2>2. CASE b \in expired
    BY <1>4, <2>1, <2>2 DEF Held
  <2>3. CASE b \notin expired
    BY <1>2, <2>1, <2>3 DEF Held
  <2>4. QED
    BY <2>2, <2>3
<1>8. QueueInv'
  <2>1. \A i \in Queued : i[1] \in Addrs /\ i[1] \notin expired
    BY <1>4, QueuedTypes DEF TimerIds, InQueue
  <2>2. QED
    BY <1>1, <1>2, <1>3, <2>1 DEF Own, QueueInv, Distinct, PendingIds
<1>9. EntryInv'
  <2> SUFFICES ASSUME NEW e \in timers_' PROVE e[1] = expiration(e[2])'
    BY DEF EntryInv
  <2>1. CASE e \in timers_
    BY <1>2, <1>5, <2>1 DEF Own, EntryInv
  <2>2. CASE e \notin timers_
    <3>1. PICK a \in Restarted : e = <<restart(a), a>>
      BY <1>1, <2>2
    <3>2. QED
      BY <1>2, <3>1
  <2>3. QED
    BY <2>1, <2>2
<1>10. ActiveInv'
  <2> SUFFICES ASSUME NEW i \in TimerIds
               PROVE  i \in activeTimers_' <=> Held(i[1])' /\ sequence(i[1])' = i[2]
    BY DEF ActiveInv
  <2>1. i[1] \in Addrs /\ i = <<i[1], i[2]>>
    BY DEF TimerIds
  <2>2. CASE i[1] \in Restarted
    <3>1. i \notin activeTimers_
      BY <1>2, <1>4, <2>2 DEF Own, ActiveInv
    <3>2. i \in activeTimers_' <=> i[2] = sequence(i[1])
      BY <1>1, <2>1, <2>2, <3>1
    <3>3. QED
      BY <1>2, <1>6, <2>2, <3>2
  <2>3. CASE i[1] \notin Restarted
    <3>1. i \in activeTimers_' <=> i \in activeTimers_
      BY <1>1, <2>1, <2>3
    <3>2. QED
      BY <1>2, <1>4, <1>7, <2>1, <2>3, <3>1 DEF Own, ActiveInv
  <2>4. QED
    BY <2>2, <2>3
<1>11. OwnerInv' /\ PhaseInv'
  <2>1. PhaseInv'
    BY <1>1 DEF PhaseInv
  <2>2. ASSUME NEW b \in Addrs
        PROVE  /\ Held(b)' => b \in live' /\ ~InQueue(b)'
               /\ b \in live' => Held(b)' \/ InQueue(b)'
    <3>1. CASE b \in Restarted
      BY <1>2, <1>3, <1>4, <1>6, <3>1
    <3>2. CASE b \notin Restarted /\ b \in expired
      BY <1>2, <1>7, <3>2
    <3>3. CASE b \notin expired
      <4>1. b \notin Restarted
        BY <1>2, <3>3
      <4>2. QED
        BY <1>1, <1>2, <1>3, <1>7, <3>3, <4>1 DEF Own, OwnerInv
    <3>4. QED
      BY <3>1, <3>2, <3>3
  <2>3. QED
    BY <1>1, <2>1, <2>2 DEF OwnerInv
<1>12. QED
  BY <1>8, <1>9, <1>10, <1>11 DEF Own

LEMMA DestroyOwn ==
    ASSUME Types, Own, Destroy
    PROVE  Own'
<1>1. /\ timer' = delete({e[2] : e \in timers_}) /\ timers_' = {} /\ activeTimers_' = {}
      /\ phase = "loop" /\ phase' = "destroyed" /\ expired = {}
      /\ UNCHANGED <<numCreated, pending, expired>>
  BY DEF Destroy, Own, PhaseInv
<1>2. Queued' = Queued
  BY <1>1 DEF Queued
<1>3. QueueInv'
  <2>1. ASSUME NEW i \in Queued PROVE timer'[i[1]] = timer[i[1]]
    <3>1. i[1] \in Addrs /\ InQueue(i[1])
      BY QueuedTypes DEF TimerIds, InQueue
    <3>2. ~Held(i[1])
      BY <3>1 DEF Own, OwnerInv
    <3>3. \A e \in timers_ : e[2] # i[1]
      BY <3>2, EntryHeld DEF Own
    <3>4. QED
      BY <1>1, <3>1, <3>3 DEF delete
  <2>2. QED
    BY <1>1, <1>2, <2>1 DEF Own, QueueInv, Distinct, PendingIds, sequence
<1>4. OwnerInv'
  <2> SUFFICES ASSUME NEW a \in Addrs, a \in live' PROVE InQueue(a)'
    BY <1>1 DEF OwnerInv, Held
  <2>1. a \in live /\ \A e \in timers_ : e[2] # a
    BY <1>1 DEF live, delete
  <2>2. ~Held(a)
    BY <2>1 DEF Held
  <2>3. QED
    BY <1>1, <1>2, <2>1, <2>2 DEF Own, OwnerInv, InQueue
<1>5. QED
  BY <1>1, <1>3, <1>4 DEF Own, EntryInv, ActiveInv, PhaseInv, Held

-----------------------------------------------------------------------------
(* Cancelling.                                                             *)

\* TimerIds that callers have, or cancelled, were given out.
IdsInv == \A id \in ids \cup cancelled : id[2] <= numCreated

\* A timer that was cancelled is neither queued to be added nor held, and is
\* noted if it is in handleRead()'s vector.
CancelInv == IdsInv /\ CancelHolds /\ \A id \in cancelled : id \notin Queued

LEMMA InitCancel == Init => CancelInv
BY DEF Init, CancelInv, IdsInv, CancelHolds

LEMMA QuietCancel ==
    ASSUME CancelInv,
           UNCHANGED <<timer, numCreated, activeTimers_, pending, ids, expired, cancelingTimers_,
                       cancelled>>
    PROVE  CancelInv'
BY DEF CancelInv, IdsInv, CancelHolds, Queued, sequence

LEMMA AddCancel ==
    ASSUME Types, Own, CancelInv, NEW a \in Addrs, NEW when \in Int, NEW interval \in Nat,
           NEW inLoop \in BOOLEAN, addTimer(a, when, interval, inLoop)
    PROVE  CancelInv'
<1>0. PICK id \in TimerIds : id = <<a, numCreated + 1>>
  BY NewTimer
<1>1. /\ numCreated' = numCreated + 1 /\ numCreated \in Nat
      /\ id[1] = a /\ id[2] = numCreated + 1
      /\ \A b \in Addrs : b # a => timer'[b] = timer[b]
      /\ a \notin live /\ expired \subseteq Addrs
      /\ cancelled \subseteq TimerIds /\ ids \subseteq TimerIds
  BY <1>0, NewTimer DEF Types, TypeOK, live
<1>2. a \notin expired /\ \A i \in Queued : i[1] # a
  BY <1>1, FreeAddr
<1>3. UNCHANGED <<expired, cancelingTimers_, cancelled>>
  BY DEF addTimer, handleVars
<1>4. /\ activeTimers_' \subseteq activeTimers_ \cup {id}
      /\ Queued' \subseteq Queued \cup {id}
      /\ ids' \subseteq ids \cup {id}
  <2>1. CASE inLoop
    <3>1. addTimerInLoop(id, when) /\ pending' = pending /\ ids' = ids \cup {id}
      BY <1>0, <2>1 DEF addTimer, incrementAndGet
    <3>2. QED
      BY <3>1 DEF addTimerInLoop, Queued
  <2>2. CASE ~inLoop
    <3>1. /\ pending' = Append(pending, <<"add", id>>)
          /\ UNCHANGED <<activeTimers_, ids>>
      BY <1>0, <2>2 DEF addTimer, incrementAndGet, Queues
    <3>2. QED
      BY <1>1, <1>2, <3>1, QueueAdd DEF Own, QueueInv
  <2>3. QED
    BY <2>1, <2>2
<1>5. ASSUME NEW i \in ids \cup cancelled PROVE i[2] \in Int /\ i[2] <= numCreated
  BY <1>1 DEF TimerIds, CancelInv, IdsInv
<1>6. \A i \in cancelled : i # id
  BY <1>1, <1>5
<1>7. IdsInv'
  <2> SUFFICES ASSUME NEW i \in ids' \cup cancelled' PROVE i[2] <= numCreated + 1
    BY <1>1 DEF IdsInv
  <2>1. i = id \/ i \in ids \cup cancelled
    BY <1>3, <1>4
  <2>2. QED
    BY <1>1, <1>5, <2>1
<1>8. CancelHolds'
  <2> SUFFICES ASSUME NEW i \in cancelled
               PROVE  /\ i \notin activeTimers_'
                      /\ i[1] \in expired /\ sequence(i[1])' = i[2] => i \in cancelingTimers_
    BY <1>3 DEF CancelHolds
  <2>1. i \notin activeTimers_'
    BY <1>4, <1>6 DEF CancelInv, CancelHolds
  <2>2. i[1] \in expired => sequence(i[1])' = sequence(i[1])
    BY <1>1, <1>2 DEF sequence
  <2>3. QED
    BY <2>1, <2>2 DEF CancelInv, CancelHolds
<1>9. \A i \in cancelled' : i \notin Queued'
  BY <1>3, <1>4, <1>6 DEF CancelInv
<1>10. QED
  BY <1>7, <1>8, <1>9 DEF CancelInv

LEMMA CancelInLoopCancel ==
    ASSUME Types, Own, CancelInv, NEW id \in TimerIds, cancelInLoop(id), id[2] <= numCreated,
           Queued' = Queued, UNCHANGED <<phase, expired, numCreated, ids>>
    PROVE  CancelInv'
<1>1. cancelled' = IF id \in Queued THEN cancelled ELSE cancelled \cup {id}
  BY DEF cancelInLoop
<1>2. IdsInv' /\ \A i \in cancelled' : i \notin Queued'
  BY <1>1 DEF CancelInv, IdsInv
<1>3. activeTimers_' \subseteq activeTimers_ /\ id \notin activeTimers_'
  BY DEF cancelInLoop
<1>4. \A b \in expired : sequence(b)' = sequence(b)
  <2>1. CASE id \in activeTimers_
    <3>1. timer' = delete({id[1]}) /\ id[1] \notin expired /\ expired \subseteq Addrs
      BY <2>1 DEF cancelInLoop, Own, ActiveInv, OwnerInv, TimerIds, Types, TypeOK
    <3>2. QED
      BY <3>1 DEF delete, sequence
  <2>2. CASE id \notin activeTimers_
    BY <2>2 DEF cancelInLoop, sequence
  <2>3. QED
    BY <2>1, <2>2
<1>5. cancelingTimers_ \subseteq cancelingTimers_'
  BY DEF cancelInLoop
<1>6. id[1] \in expired => id \in cancelingTimers_'
  <2> SUFFICES ASSUME id[1] \in expired PROVE id \in cancelingTimers_'
    OBVIOUS
  <2>1. phase = "calling"
    BY DEF Own, PhaseInv
  <2>2. id \notin activeTimers_
    BY DEF Own, ActiveInv, OwnerInv, TimerIds
  <2>3. QED
    BY <2>1, <2>2 DEF cancelInLoop
<1>7. CancelHolds'
  <2> SUFFICES ASSUME NEW i \in cancelled'
               PROVE  /\ i \notin activeTimers_'
                      /\ i[1] \in expired /\ sequence(i[1])' = i[2] => i \in cancelingTimers_'
    BY DEF CancelHolds
  <2>1. CASE i = id
    BY <1>3, <1>6, <2>1
  <2>2. CASE i # id
    BY <1>1, <1>3, <1>4, <1>5, <2>2 DEF CancelInv, CancelHolds
  <2>3. QED
    BY <2>1, <2>2
<1>8. QED
  BY <1>2, <1>7 DEF CancelInv

LEMMA CancelCancel ==
    ASSUME Types, Own, CancelInv, NEW id \in TimerIds, NEW inLoop \in BOOLEAN, cancel(id, inLoop)
    PROVE  id[2] <= numCreated /\ CancelInv'
<1>1. id[2] <= numCreated /\ UNCHANGED <<phase, expired, numCreated, ids>>
  BY DEF cancel, handleVars, CancelInv, IdsInv
<1>2. CASE inLoop
  <2>1. cancelInLoop(id) /\ Queued' = Queued
    BY <1>2 DEF cancel, Queued
  <2>2. QED
    BY <1>1, <2>1, CancelInLoopCancel
<1>3. CASE ~inLoop
  <2>1. /\ pending' = Append(pending, <<"cancel", id>>)
        /\ UNCHANGED <<activeTimers_, timer, cancelingTimers_, cancelled>>
    BY <1>3 DEF cancel, Queues
  <2>2. Queued' = Queued
    BY <2>1, QueueCancel DEF Own, QueueInv
  <2>3. QED
    BY <1>1, <2>1, <2>2 DEF CancelInv, IdsInv, CancelHolds, sequence
<1>4. QED
  BY <1>2, <1>3, <1>1

LEMMA ReturnCancel ==
    ASSUME Types, CancelInv, NEW id \in TimerIds, AddTimerReturns(id)
    PROVE  CancelInv'
<1>1. PICK seq \in 1..numCreated : ids' = ids \cup {<<id[1], seq>>}
  BY ReturnedId
<1>2. numCreated \in Nat
  BY DEF Types, TypeOK
<1>3. UNCHANGED <<timer, numCreated, activeTimers_, pending, expired, cancelingTimers_, cancelled>>
  BY DEF AddTimerReturns, handleVars
<1>4. seq <= numCreated
  BY <1>1, <1>2
<1>5. IdsInv'
  BY <1>1, <1>3, <1>4 DEF CancelInv, IdsInv
<1>6. QED
  BY <1>3, <1>5 DEF CancelInv, CancelHolds, Queued, sequence

LEMMA RunPendingCancel ==
    ASSUME Types, Own, CancelInv, RunPending
    PROVE  CancelInv'
<1>1. PICK id \in TimerIds : id = Head(pending)[2]
  BY HeadOfPending DEF RunPending
<1>2. /\ pending # << >> /\ pending' = Tail(pending) /\ UNCHANGED <<phase, expired, numCreated, ids>>
  BY DEF RunPending, handleVars
<1>3. /\ Head(pending)[1] = "add" => id \in Queued /\ Queued' = Queued \ {id}
      /\ Head(pending)[1] # "add" => Queued' = Queued
  BY <1>1, <1>2, QueueTail DEF Own, QueueInv
<1>4. CASE /\ Head(pending)[1] = "add" /\ addTimerInLoop(id, expiration(id[1]))
           /\ UNCHANGED <<timer, cancelingTimers_, cancelled>>
  <2>1. activeTimers_' = activeTimers_ \cup {id} /\ id \notin cancelled
    BY <1>3, <1>4 DEF addTimerInLoop, CancelInv
  <2>2. QED
    BY <1>2, <1>3, <1>4, <2>1 DEF CancelInv, IdsInv, CancelHolds, sequence
<1>5. CASE Head(pending)[1] = "cancel" /\ cancelInLoop(id)
  <2>1. id[2] <= numCreated
    BY <1>1, <1>2, HeadOfPending DEF Own, QueueInv, PendingIds
  <2>2. QED
    BY <1>2, <1>3, <1>5, <2>1, CancelInLoopCancel
<1>6. QED
  BY <1>1, <1>4, <1>5 DEF RunPending

LEMMA HandleReadCancel ==
    ASSUME Types, Own, CancelInv, HandleRead
    PROVE  CancelInv'
<1>1. /\ activeTimers_' \subseteq activeTimers_ /\ expired' = getExpired
      /\ UNCHANGED <<timer, numCreated, ids, pending, cancelled>>
  BY DEF HandleRead, stillActive, timerVars
<1>2. ASSUME NEW i \in cancelled, i[1] \in getExpired PROVE sequence(i[1]) # i[2]
  <2>1. i \in TimerIds /\ Held(i[1]) /\ i \notin activeTimers_
    BY <1>2 DEF Types, TypeOK, getExpired, Held, CancelInv, CancelHolds
  <2>2. QED
    BY <2>1 DEF Own, ActiveInv
<1>3. QED
  BY <1>1, <1>2 DEF CancelInv, IdsInv, CancelHolds, Queued, sequence

LEMMA ResetCancel ==
    ASSUME Types, Own, CancelInv, Reset
    PROVE  CancelInv'
<1>1. /\ activeTimers_' = activeTimers_ \cup {<<a, sequence(a)>> : a \in Restarted}
      /\ expired' = {} /\ UNCHANGED <<numCreated, ids, pending, cancelled>>
  BY DEF Reset
<1>2. ASSUME NEW i \in cancelled PROVE i \notin activeTimers_'
  <2>1. i \in TimerIds /\ i \notin activeTimers_
    BY DEF Types, TypeOK, CancelInv, CancelHolds
  <2>2. ASSUME NEW a \in Restarted PROVE i # <<a, sequence(a)>>
    <3> SUFFICES ASSUME i = <<a, sequence(a)>> PROVE FALSE
      OBVIOUS
    <3>1. a \in expired /\ i \notin cancelingTimers_ /\ i[1] = a /\ i[2] = sequence(a)
      BY DEF Restarted
    <3>2. QED
      BY <3>1 DEF CancelInv, CancelHolds
  <2>3. QED
    BY <1>1, <2>1, <2>2
<1>3. QED
  BY <1>1, <1>2 DEF CancelInv, IdsInv, CancelHolds, Queued

LEMMA DestroyCancel ==
    ASSUME Types, Own, CancelInv, Destroy
    PROVE  CancelInv'
<1>1. /\ activeTimers_' = {} /\ expired = {} /\ expired' = {}
      /\ UNCHANGED <<numCreated, ids, pending, cancelled>>
  BY DEF Destroy, Own, PhaseInv
<1>2. QED
  BY <1>1 DEF CancelInv, IdsInv, CancelHolds, Queued

-----------------------------------------------------------------------------
(* Waking up.                                                              *)

\* howMuchTimeFromNow() if time(NULL) did not lag at all: the least it says.
Ahead(when) ==
    IF when - ticks \div kMicroSecondsPerSecond < MinDelay THEN MinDelay
    ELSE when - ticks \div kMicroSecondsPerSecond

\* The timerfd fires in time for an expiration, wherever the clock is set to.
Wakes(when) == timerfd # Disarmed /\ timerfd <= ticks + Ahead(when) + MaxLag

\* Outside handleRead() the timerfd is set for all timers.  In it, it need be
\* for those only that reset() will not set it for: the ones whose expiration
\* is not valid(), which callbacks add.
WakeInv ==
    \A e \in timers_ : phase = "loop" \/ (phase = "calling" /\ e[1] <= 0) => Wakes(e[1])

LEMMA AheadBounds ==
    ASSUME Types, NEW when \in Int
    PROVE  /\ Ahead(when) \in Nat
           /\ Ahead(when) <= howMuchTimeFromNow(when)
           /\ howMuchTimeFromNow(when) <= Ahead(when) + MaxLag
           /\ howMuchTimeFromNow(when) \in Nat
<1> DEFINE t == ticks \div kMicroSecondsPerSecond
<1>1. /\ ticks \in Nat /\ lag \in Nat /\ ticks - lag \in Nat /\ lag <= MaxLag /\ MaxLag \in Nat
      /\ kMicroSecondsPerSecond \in Nat \ {0} /\ MinDelay \in Nat
  BY ClockType, ClockAssumption DEF Types
<1>2. ticks - lag <= ticks
  BY <1>1
<1>3. t \in Nat /\ now \in Nat /\ now <= t /\ t - now <= ticks - (ticks - lag)
  BY <1>1, <1>2, DivContracts DEF now
<1>4. Ahead(when) = IF when - t < MinDelay THEN MinDelay ELSE when - t
  BY DEF Ahead
<1> HIDE DEF t
<1>5. t - now <= MaxLag
  BY <1>1, <1>3
<1>6. QED
  BY <1>1, <1>3, <1>4, <1>5 DEF howMuchTimeFromNow

LEMMA AheadMonotone ==
    ASSUME Types, NEW v \in Int, NEW w \in Int, v <= w
    PROVE  Ahead(v) <= Ahead(w)
<1> DEFINE t == ticks \div kMicroSecondsPerSecond
<1>1. t \in Nat /\ MinDelay \in Nat
  BY ClockType, ClockAssumption, DivContracts DEF Types
<1>2. \A x \in Int : Ahead(x) = IF x - t < MinDelay THEN MinDelay ELSE x - t
  BY DEF Ahead
<1> HIDE DEF t
<1>3. QED
  BY <1>1, <1>2

LEMMA WakesMonotone ==
    ASSUME Types, NEW v \in Int, NEW w \in Int, v <= w, Wakes(v)
    PROVE  Wakes(w)
<1>1. Ahead(v) \in Nat /\ Ahead(w) \in Nat /\ Ahead(v) <= Ahead(w)
  BY AheadBounds, AheadMonotone
<1>2. ticks \in Nat /\ MaxLag \in Nat /\ timerfd \in Int
  BY ClockType DEF Types, TypeOK, Disarmed
<1>3. QED
  BY <1>1, <1>2 DEF Wakes

\* Setting the timerfd, for an expiration and so for every later one.
LEMMA SetWakes ==
    ASSUME Types, NEW when \in Int, timerfd' = resetTimerfd(when), ticks' = ticks,
           NEW later \in Int, when <= later
    PROVE  Wakes(later)'
<1>1. Ahead(later)' = Ahead(later)
  BY DEF Ahead
<1>2. /\ Ahead(when) \in Nat /\ Ahead(later) \in Nat /\ howMuchTimeFromNow(when) \in Nat
      /\ howMuchTimeFromNow(when) <= Ahead(when) + MaxLag
      /\ Ahead(when) <= Ahead(later)
      /\ ticks \in Nat /\ MaxLag \in Nat
  BY AheadBounds, AheadMonotone, ClockType DEF Types
<1>3. timerfd' = ticks + howMuchTimeFromNow(when) /\ timerfd' \in Nat
  BY ResetTimerfdType DEF Types
<1>4. timerfd' <= ticks + Ahead(later) + MaxLag
  BY <1>2, <1>3
<1>5. QED
  BY <1>1, <1>3, <1>4 DEF Wakes, Disarmed

\* Time goes on no faster for timers than for the timerfd.
LEMMA TickWakes ==
    ASSUME Types, NEW when \in Int, Wakes(when), timerfd' = timerfd, ticks' = ticks + 1
    PROVE  Wakes(when)'
<1> DEFINE t == ticks \div kMicroSecondsPerSecond
           u == (ticks + 1) \div kMicroSecondsPerSecond
<1>1. /\ ticks \in Nat /\ ticks + 1 \in Nat /\ ticks <= ticks + 1 /\ MaxLag \in Nat
      /\ kMicroSecondsPerSecond \in Nat \ {0} /\ MinDelay \in Nat /\ timerfd \in Int
  BY ClockType, ClockAssumption DEF Types, TypeOK, Disarmed
<1>2. t \in Nat /\ u \in Nat /\ t <= u /\ u - t <= (ticks + 1) - ticks
  BY <1>1, DivContracts
<1>3. /\ Ahead(when) = IF when - t < MinDelay THEN MinDelay ELSE when - t
      /\ Ahead(when)' = IF when - u < MinDelay THEN MinDelay ELSE when - u
  BY DEF Ahead
<1> HIDE DEF t, u
<1>4. Ahead(when) <= Ahead(when)' + 1 /\ Ahead(when) \in Int /\ Ahead(when)' \in Int
  BY <1>1, <1>2, <1>3
<1>5. QED
  BY <1>1, <1>4 DEF Wakes

\* Nothing else about the clock and the timerfd matters.
LEMMA SameWakes ==
    ASSUME NEW when, UNCHANGED <<timerfd, ticks>>
    PROVE  Wakes(when)' <=> Wakes(when)
BY DEF Wakes, Ahead

\* Steps that add no timer and leave the timerfd as it is.
LEMMA QuietWake ==
    ASSUME WakeInv, UNCHANGED <<timerfd, ticks>>, timers_' \subseteq timers_,
           phase' = phase \/ phase' \in {"reported", "destroyed"}
    PROVE  WakeInv'
<1>1. ASSUME NEW e \in timers_', phase' = "loop" \/ (phase' = "calling" /\ e[1] <= 0)
      PROVE  Wakes(e[1])'
  <2>1. Wakes(e[1])
    BY <1>1 DEF WakeInv
  <2>2. QED
    BY <2>1, SameWakes
<1>2. QED
  BY <1>1 DEF WakeInv

LEMMA AddInLoopWake ==
    ASSUME Types, Types', WakeInv, NEW id \in TimerIds, NEW when \in Int, addTimerInLoop(id, when),
           UNCHANGED <<ticks, phase>>
    PROVE  WakeInv'
<1>1. timers_' = timers_ \cup {<<when, id[1]>>} /\ \A e \in timers_' : e[1] \in Int
  BY DEF addTimerInLoop, Types, TypeOK
<1> SUFFICES ASSUME NEW e \in timers_', phase = "loop" \/ (phase = "calling" /\ e[1] <= 0)
             PROVE  Wakes(e[1])'
  BY DEF WakeInv
<1>2. CASE earliestChanged(when)
  <2>1. when <= e[1]
    BY <1>1, <1>2 DEF earliestChanged
  <2>2. timerfd' = resetTimerfd(when)
    BY <1>2 DEF addTimerInLoop
  <2>3. QED
    BY <1>1, <2>1, <2>2, SetWakes
<1>3. CASE ~earliestChanged(when)
  <2>1. timerfd' = timerfd
    BY <1>3 DEF addTimerInLoop
  <2>2. PICK f \in timers_ : f[1] <= when
    BY <1>1, <1>3 DEF earliestChanged
  <2>3. CASE e \in timers_
    BY <2>1, <2>3, SameWakes DEF WakeInv
  <2>4. CASE e \notin timers_
    <3>1. e[1] = when
      BY <1>1, <2>4
    <3>2. phase = "calling" => f[1] <= 0
      BY <1>1, <2>2, <3>1
    <3>3. Wakes(f[1])
      BY <2>2, <3>2 DEF WakeInv
    <3>4. Wakes(when)
      BY <1>1, <2>2, <3>3, WakesMonotone
    <3>5. QED
      BY <2>1, <3>1, <3>4, SameWakes
  <2>5. QED
    BY <2>3, <2>4
<1>4. QED
  BY <1>2, <1>3

LEMMA AddWake ==
    ASSUME Types, Types', WakeInv, NEW a \in Addrs, NEW when \in Int, NEW interval \in Nat,
           NEW inLoop \in BOOLEAN, addTimer(a, when, interval, inLoop)
    PROVE  WakeInv'
<1>1. PICK id \in TimerIds : id = <<a, numCreated + 1>>
  BY NewTimer
<1>2. UNCHANGED <<ticks, phase>>
  BY DEF addTimer, clockVars, handleVars
<1>3. CASE inLoop
  <2>1. addTimerInLoop(id, when)
    BY <1>1, <1>3 DEF addTimer, incrementAndGet
  <2>2. QED
    BY <1>2, <2>1, AddInLoopWake
<1>4. CASE ~inLoop
  BY <1>2, <1>4, QuietWake DEF addTimer
<1>5. QED
  BY <1>3, <1>4

LEMMA CancelWake ==
    ASSUME WakeInv, NEW id \in TimerIds, NEW inLoop \in BOOLEAN, cancel(id, inLoop)
    PROVE  WakeInv'
<1>1. UNCHANGED <<ticks, phase, timerfd>> /\ timers_' \subseteq timers_
  BY DEF cancel, cancelInLoop, clockVars, handleVars
<1>2. QED
  BY <1>1, QuietWake

LEMMA RunPendingWake ==
    ASSUME Types, Types', WakeInv, RunPending
    PROVE  WakeInv'
<1>1. PICK id \in TimerIds : id = Head(pending)[2]
  BY HeadOfPending DEF RunPending
<1>2. UNCHANGED <<ticks, phase>>
  BY DEF RunPending, clockVars, handleVars
<1>3. CASE addTimerInLoop(id, expiration(id[1]))
  <2>1. expiration(id[1]) \in Int
    BY DEF TimerIds, Types, TypeOK, Timer, expiration
  <2>2. QED
    BY <1>2, <1>3, <2>1, AddInLoopWake
<1>4. CASE cancelInLoop(id) /\ UNCHANGED timerfd
  <2>1. timers_' \subseteq timers_
    BY <1>4 DEF cancelInLoop
  <2>2. QED
    BY <1>2, <1>4, <2>1, QuietWake
<1>5. QED
  BY <1>1, <1>3, <1>4 DEF RunPending

\* getExpired() leaves timers whose expiration is valid().
LEMMA HandleReadWake ==
    ASSUME Types, Own, HandleRead
    PROVE  WakeInv'
<1>1. ASSUME NEW e \in timers_' PROVE e[1] \in Int /\ ~(e[1] <= 0)
  <2>1. e \in timers_ /\ e[2] \notin getExpired
    BY DEF HandleRead
  <2>2. e[1] \in Int /\ e[2] \in Addrs /\ e[1] = expiration(e[2]) /\ Held(e[2])
    BY <2>1, EntryHeld DEF Own, EntryInv
  <2>3. ~(e[1] <= now)
    BY <2>1, <2>2 DEF getExpired, Held
  <2>4. now \in Nat
    BY ClockType DEF Types
  <2>5. QED
    BY <2>2, <2>3, <2>4
<1>2. phase' = "calling"
  BY DEF HandleRead
<1>3. QED
  BY <1>1, <1>2 DEF WakeInv

LEMMA ResetWake ==
    ASSUME Types, Types', WakeInv, Reset
    PROVE  WakeInv'
<1>1. /\ timers_' = timers_ \cup {<<restart(a), a>> : a \in Restarted}
      /\ timerfd' = nextTimerfd(timers_')
      /\ phase = "calling" /\ ticks' = ticks
  BY DEF Reset, clockVars
<1>2. PICK Q : Q = timers_'
  OBVIOUS
<1>3. Q \in SUBSET (Int \X Addrs)
  BY <1>2 DEF Types, TypeOK
<1> SUFFICES ASSUME NEW e \in Q PROVE Wakes(e[1])'
  BY <1>2 DEF WakeInv
<1> DEFINE first == CHOOSE x \in Q : \A f \in Q : x[1] <= f[1]
<1>4. first \in Q /\ first[1] <= e[1] /\ first[1] \in Int /\ e[1] \in Int
  <2>1. \E m \in Int : \A x \in Q : m <= x[1]
    BY <1>2 DEF Types, Bounded
  <2>2. PICK m \in Int : \A x \in Q : m <= x[1]
    BY <2>1
  <2>3. first \in Q /\ \A f \in Q : first[1] <= f[1]
    BY <1>3, <2>2, FirstTimer
  <2> HIDE DEF first
  <2>4. QED
    BY <1>3, <2>3
<1>5. timerfd' = IF valid(first[1]) THEN resetTimerfd(first[1]) ELSE timerfd
  BY <1>1, <1>2 DEF nextTimerfd
<1>6. PICK x \in Q : x = first
  BY <1>4
<1> HIDE DEF first
<1>7. CASE valid(x[1])
  BY <1>1, <1>4, <1>5, <1>6, <1>7, SetWakes
<1>8. CASE ~valid(x[1])
  <2>1. x[1] <= 0
    BY <1>4, <1>6, <1>8 DEF valid
  <2>2. x \in timers_
    <3>1. ASSUME NEW a \in Restarted PROVE x # <<restart(a), a>>
      <4>1. restart(a) \in Nat \ {0}
        BY RestartedTimer
      <4>2. QED
        BY <2>1, <4>1
    <3>2. QED
      BY <1>1, <1>2, <3>1
  <2>3. Wakes(x[1])
    BY <1>1, <2>1, <2>2 DEF WakeInv
  <2>4. Wakes(e[1])
    BY <1>4, <1>6, <2>3, WakesMonotone
  <2>5. QED
    BY <1>1, <1>5, <1>6, <1>8, <2>4, SameWakes
<1>9. QED
  BY <1>7, <1>8

-----------------------------------------------------------------------------
(* The inductive invariant.                                                *)

IInv == Types /\ Own /\ CancelInv /\ WakeInv

LEMMA InitIInv == Init => IInv
BY InitTypes, InitOwn, InitCancel DEF IInv, WakeInv, Init

LEMMA NextIInv == IInv /\ [Next]_vars => IInv'
<1> SUFFICES ASSUME IInv, [Next]_vars PROVE IInv'
  OBVIOUS
<1>0. Types' /\ Types /\ Own /\ CancelInv /\ WakeInv
  BY NextTypes DEF IInv
<1>1. CASE Tick
  <2>1. /\ ticks' = ticks + 1
        /\ UNCHANGED <<timer, numCreated, ids, phase, expired, timers_, activeTimers_, timerfd,
                       cancelingTimers_, pending, cancelled>>
    BY <1>1 DEF Tick, timerVars, handleVars
  <2>2. Own' /\ CancelInv'
    BY <1>0, <2>1, QuietOwn, QuietCancel DEF Own, PhaseInv
  <2>3. \A e \in timers_ : e[1] \in Int
    BY <1>0 DEF Types, TypeOK
  <2>4. WakeInv'
    BY <1>0, <2>1, <2>3, TickWakes DEF WakeInv
  <2>5. QED
    BY <1>0, <2>2, <2>4 DEF IInv
<1>2. ASSUME NEW l \in Lags, SetTime(l) PROVE IInv'
  <2>1. UNCHANGED <<ticks, timer, numCreated, ids, phase, expired, timers_, activeTimers_,
                    timerfd, cancelingTimers_, pending, cancelled>>
    BY <1>2 DEF SetTime, timerVars, handleVars
  <2>2. QED
    BY <1>0, <2>1, QuietOwn, QuietCancel, QuietWake DEF IInv, Own, PhaseInv
<1>3. ASSUME NEW a \in Addrs, NEW inLoop \in BOOLEAN, Add(a, inLoop) PROVE IInv'
  <2>1. PICK when \in Int, interval \in Nat : addTimer(a, when, interval, inLoop)
    BY <1>0, <1>3, AddIsAddTimer
  <2>2. Own' /\ CancelInv' /\ WakeInv'
    BY <1>0, <2>1, AddOwn, AddCancel, AddWake
  <2>3. QED
    BY <1>0, <2>2 DEF IInv
<1>4. ASSUME NEW id \in TimerIds, NEW inLoop \in BOOLEAN, cancel(id, inLoop) PROVE IInv'
  <2>1. id[2] <= numCreated /\ CancelInv'
    BY <1>0, <1>4, CancelCancel
  <2>2. QED
    BY <1>0, <1>4, <2>1, CancelOwn, CancelWake DEF IInv
<1>5. ASSUME NEW id \in TimerIds, AddTimerReturns(id) PROVE IInv'
  <2>1. UNCHANGED <<ticks, timer, numCreated, phase, expired, timers_, activeTimers_,
                    timerfd, pending>>
    BY <1>5 DEF AddTimerReturns, clockVars, handleVars
  <2>2. Own' /\ WakeInv'
    BY <1>0, <2>1, QuietOwn, QuietWake DEF Own, PhaseInv
  <2>3. QED
    BY <1>0, <1>5, <2>2, ReturnCancel DEF IInv
<1>6. CASE RunPending
  BY <1>0, <1>6, RunPendingOwn, RunPendingCancel, RunPendingWake DEF IInv
<1>7. CASE PollTimerfd
  <2>1. /\ phase = "loop" /\ phase' = "reported"
        /\ UNCHANGED <<ticks, timer, numCreated, ids, expired, timers_, activeTimers_,
                       timerfd, cancelingTimers_, pending, cancelled>>
    BY <1>7 DEF PollTimerfd, timerVars, clockVars
  <2>2. QED
    BY <1>0, <2>1, QuietOwn, QuietCancel, QuietWake DEF IInv, Own, PhaseInv
<1>8. CASE HandleRead
  BY <1>0, <1>8, HandleReadOwn, HandleReadCancel, HandleReadWake DEF IInv
<1>9. ASSUME NEW a \in Addrs, RunTimer(a) PROVE IInv'
  <2>1. UNCHANGED <<ticks, timer, numCreated, ids, phase, expired, timers_, activeTimers_,
                    timerfd, cancelingTimers_, pending, cancelled>>
    BY <1>9 DEF RunTimer, timerVars, clockVars
  <2>2. QED
    BY <1>0, <2>1, QuietOwn, QuietCancel, QuietWake DEF IInv, Own, PhaseInv
<1>10. CASE Reset
  BY <1>0, <1>10, ResetOwn, ResetCancel, ResetWake DEF IInv
<1>11. CASE Destroy
  BY <1>0, <1>11, DestroyOwn, DestroyCancel DEF IInv, WakeInv, Destroy
<1>12. CASE UNCHANGED vars
  <2>1. UNCHANGED <<ticks, timer, numCreated, ids, phase, expired, timers_, activeTimers_,
                    timerfd, cancelingTimers_, pending, cancelled>>
    BY <1>12 DEF vars, timerVars, clockVars, handleVars
  <2>2. QED
    BY <1>0, <2>1, QuietOwn, QuietCancel, QuietWake DEF IInv, Own, PhaseInv
<1>13. QED
  BY <1>1, <1>2, <1>3, <1>4, <1>5, <1>6, <1>7, <1>8, <1>9, <1>10, <1>11, <1>12 DEF Next

LEMMA Invariance == Spec => []IInv
<1>1. QED
  BY InitIInv, NextIInv, PTL DEF Spec

-----------------------------------------------------------------------------
(* The theorems.                                                           *)

(***************************************************************************)
(* addTimerInLoop(), cancelInLoop(), getExpired() and reset() keep timers_ *)
(* and activeTimers_ in agreement, whatever is added, cancelled and        *)
(* restarted, and however addresses are reused.                            *)
(***************************************************************************)
THEOREM SetsAlwaysAgree == Spec => []SetsAgree
<1>1. ASSUME IInv PROVE SetsAgree
  <2>1. Types /\ EntryInv /\ ActiveInv /\ OwnerInv
    BY <1>1 DEF IInv, Own
  <2>2. ASSUME NEW i \in activeTimers_ PROVE \E e \in timers_ : i = <<e[2], sequence(e[2])>>
    <3>1. i \in TimerIds /\ i = <<i[1], i[2]>> /\ Held(i[1]) /\ sequence(i[1]) = i[2]
      BY <2>1 DEF Types, TypeOK, TimerIds, ActiveInv
    <3>2. <<expiration(i[1]), i[1]>> \in timers_
      BY <3>1 DEF Held
    <3>3. QED
      BY <3>1, <3>2
  <2>3. ASSUME NEW e \in timers_ PROVE <<e[2], sequence(e[2])>> \in activeTimers_
    <3>1. e[2] \in Addrs /\ Held(e[2])
      BY <2>1, EntryHeld
    <3>2. timer[e[2]] # NoTimer
      BY <2>1, <3>1 DEF OwnerInv, live
    <3>3. sequence(e[2]) \in 1..MaxTimers
      BY <2>1, <3>1, <3>2, BoundsAssumption DEF Types, SeqInv, TypeOK
    <3>4. <<e[2], sequence(e[2])>> \in TimerIds
      BY <3>1, <3>3 DEF TimerIds
    <3>5. QED
      BY <2>1, <3>1, <3>4 DEF ActiveInv
  <2>4. activeTimers_ = {<<e[2], sequence(e[2])>> : e \in timers_}
    BY <2>2, <2>3
  <2>5. QED
    BY <2>1, <2>4 DEF SetsAgree, EntryInv
<1>2. QED
  BY <1>1, Invariance, PTL

(***************************************************************************)
(* Every Timer that exists is in exactly one of the sets, handleRead()'s   *)
(* vector and the queued functors: no two of them delete it, and none has  *)
(* it after another did.  What addTimer() reads after it gave the Timer    *)
(* away is not covered: see TimerOutlivesAdd.                              *)
(***************************************************************************)
THEOREM EveryTimerHasOneOwner == Spec => []OneOwner
<1>1. ASSUME IInv PROVE OneOwner
  <2> DEFINE inSet == {e[2] : e \in timers_}
             inQueue == {id[1] : id \in Queued}
  <2>1. Types /\ EntryInv /\ OwnerInv /\ expired \subseteq Addrs /\ Queued \subseteq TimerIds
    BY <1>1, QueuedTypes DEF IInv, Own, Types, TypeOK
  <2>2. \A a : a \in inSet <=> a \in Addrs /\ Held(a)
    <3>1. ASSUME NEW a, a \in inSet PROVE a \in Addrs /\ Held(a)
      BY <2>1, <3>1, EntryHeld
    <3>2. ASSUME NEW a, Held(a) PROVE a \in inSet
      <4>1. <<expiration(a), a>> \in timers_
        BY <3>2 DEF Held
      <4>2. QED
        BY <4>1
    <3>3. QED
      BY <3>1, <3>2
  <2>3. \A a : a \in inQueue <=> a \in Addrs /\ InQueue(a)
    BY <2>1 DEF InQueue, TimerIds
  <2>4. live \subseteq Addrs
    BY DEF live
  <2>5. \A a \in Addrs : InQueue(a) => a \in live
    <3> SUFFICES ASSUME NEW id \in Queued PROVE id[1] \in live
      BY DEF InQueue
    <3>1. id[1] \in Addrs /\ sequence(id[1]) \in 1..MaxTimers
      BY <1>1, <2>1 DEF TimerIds, IInv, Own, QueueInv
    <3>2. QED
      BY <3>1, BoundsAssumption DEF live, sequence, NoTimer
  <2> HIDE DEF inSet, inQueue
  <2>6. /\ live = inSet \cup expired \cup inQueue
        /\ inSet \cap expired = {} /\ (inSet \cup expired) \cap inQueue = {}
    BY <2>1, <2>2, <2>3, <2>4, <2>5 DEF OwnerInv
  <2>7. QED
    BY <2>6 DEF OneOwner, inSet, inQueue
<1>2. QED
  BY <1>1, Invariance, PTL

(***************************************************************************)
(* A timer that cancelInLoop() cancelled after its insertion does not come *)
(* back: not from a functor, and not from reset().                         *)
(***************************************************************************)
THEOREM CancelAlwaysHolds == Spec => []CancelHolds
<1>1. IInv => CancelHolds
  BY DEF IInv, CancelInv
<1>2. QED
  BY <1>1, Invariance, PTL

(***************************************************************************)
(* Outside handleRead() the timerfd always fires in time for every timer,  *)
(* with any clock and any times, those of the past included.               *)
(***************************************************************************)
THEOREM AlwaysWakesForTimers == Spec => []WakesForTimers
<1>1. ASSUME IInv PROVE WakesForTimers
  <2> SUFFICES ASSUME phase = "loop", NEW e \in timers_
               PROVE  /\ timerfd # Disarmed
                      /\ timerfd <= ticks + howMuchTimeFromNow(e[1]) + MaxLag
    BY DEF WakesForTimers
  <2>1. Types /\ Wakes(e[1]) /\ e[1] \in Int
    BY <1>1 DEF IInv, WakeInv, Types, TypeOK
  <2>2. /\ Ahead(e[1]) <= howMuchTimeFromNow(e[1])
        /\ Ahead(e[1]) \in Nat /\ howMuchTimeFromNow(e[1]) \in Nat
    BY <2>1, AheadBounds
  <2>3. ticks \in Nat /\ MaxLag \in Nat /\ timerfd \in Int
    BY <2>1, ClockType DEF Types, TypeOK, Disarmed
  <2>4. QED
    BY <2>1, <2>2, <2>3 DEF Wakes
<1>2. QED
  BY <1>1, Invariance, PTL

(***************************************************************************)
(* cancel() takes no timer out of the queue but the one whose address and  *)
(* sequence the TimerId holds.                                             *)
(***************************************************************************)
THEOREM CancelsNoOther == Spec => CancelsOnlyItsTimer
<1> DEFINE Kept == \A id \in activeTimers_ \ activeTimers_' :
                      id \in cancelled' \/ id[1] \in expired' \/ phase' = "destroyed"
<1>1. ASSUME IInv, [Next]_vars PROVE [Kept]_vars
  <2>1. ASSUME NEW id \in TimerIds, cancelInLoop(id) PROVE Kept
    <3>1. CASE id \in activeTimers_
      <4>1. id \notin Queued
        <5>1. ~InQueue(id[1])
          BY <1>1, <3>1 DEF IInv, Own, ActiveInv, OwnerInv, TimerIds
        <5>2. QED
          BY <5>1 DEF InQueue
      <4>2. QED
        BY <2>1, <3>1, <4>1 DEF cancelInLoop
    <3>2. CASE id \notin activeTimers_
      BY <2>1, <3>2 DEF cancelInLoop
    <3>3. QED
      BY <3>1, <3>2
  <2>2. ASSUME NEW a \in Addrs, NEW inLoop \in BOOLEAN, Add(a, inLoop) PROVE Kept
    BY <2>2 DEF Add, runAt, runAfter, runEvery, addTimer, addTimerInLoop
  <2>3. ASSUME NEW id \in TimerIds, NEW inLoop \in BOOLEAN, cancel(id, inLoop) PROVE Kept
    BY <2>1, <2>3 DEF cancel
  <2>4. CASE RunPending
    <3>1. PICK id \in TimerIds : id = Head(pending)[2]
      BY <1>1, <2>4, HeadOfPending DEF RunPending, IInv
    <3>2. CASE cancelInLoop(id)
      BY <2>1, <3>2
    <3>3. CASE addTimerInLoop(id, expiration(id[1]))
      BY <3>3 DEF addTimerInLoop
    <3>4. QED
      BY <2>4, <3>1, <3>2, <3>3 DEF RunPending
  <2>5. CASE HandleRead
    BY <2>5 DEF HandleRead, stillActive
  <2>6. CASE Reset
    BY <2>6 DEF Reset
  <2>7. CASE Destroy
    BY <2>7 DEF Destroy
  <2>8. CASE activeTimers_' = activeTimers_
    BY <2>8
  <2>9. QED
    BY <1>1, <2>2, <2>3, <2>4, <2>5, <2>6, <2>7, <2>8
    DEF Next, Tick, SetTime, AddTimerReturns, PollTimerfd, RunTimer, vars
<1>2. QED
  BY <1>1, Invariance, PTL DEF Spec, CancelsOnlyItsTimer

=============================================================================
