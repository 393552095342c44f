----------------------------- MODULE TimerQueue -----------------------------
(***************************************************************************)
(* TimerQueue of mymuduo/net with its Timers, TimerIds and Timestamps, and *)
(* the calls of EventLoop that use it: timers added and cancelled by any   *)
(* thread, kept in two sets, and run when the timerfd wakes the loop.      *)
(*                                                                         *)
(* EventLoop never constructs its timerQueue_; the module is about the     *)
(* class as an EventLoop that constructs one would use it.                 *)
(*                                                                         *)
(* Everything but new Timer runs in the loop's thread: at once if that     *)
(* thread makes the call, as a functor if another one does.  A step is one *)
(* such call, one timer's callback, or a part of handleRead() between two  *)
(* callbacks.                                                              *)
(*                                                                         *)
(* A tick is a microsecond of the monotonic clock.  Timestamp::now() is    *)
(* time(NULL), which counts seconds and which the administrator may set,   *)
(* in a field that the rest of the code takes for microseconds.            *)
(***************************************************************************)
EXTENDS Integers, Sequences

CONSTANTS
    Addrs,          \* addresses of Timers, which new reuses after delete
    Times,          \* Timestamps given to runAt()
    Delays,         \* seconds given to runAfter()
    Intervals,      \* seconds given to runEvery()
    Lags,           \* what time(NULL) is set to: ticks behind the other clock
    kMicroSecondsPerSecond,
    MinDelay,       \* howMuchTimeFromNow's least, 100 microseconds
    Start,          \* the tick at which the loop starts
    MaxTicks,       \* bound: the clock stops here (the timerfd does not)
    MaxTimers,      \* bound: Timers made
    MaxPending      \* bound: functors of the queue waiting in the loop

ASSUME AddrsAssumption == Addrs \subseteq Int
ASSUME ClockAssumption ==
    /\ kMicroSecondsPerSecond \in Nat \ {0}
    /\ MinDelay \in Nat \ {0}
    /\ Start \in Nat
    /\ MaxTicks \in Nat
    /\ 0 \in Lags /\ Lags \subseteq 0..Start
ASSUME InputsAssumption ==
    /\ Times \subseteq Int
    /\ Delays \subseteq Nat
    /\ Intervals \subseteq Nat \ {0}
ASSUME BoundsAssumption == MaxTimers \in Nat /\ MaxPending \in Nat

VARIABLES
    ticks,              \* the monotonic clock ...
    lag,                \* ... and how far time(NULL) is behind it
    timer,              \* the Timer at each address, or NoTimer
    numCreated,         \* Timer::s_numCreated_
    returning,          \* of addTimer() calls that have yet to read sequence()
    ids,                \* the TimerIds that addTimer() has returned
    timers_,            \* set of <<expiration, address>>
    activeTimers_,      \* set of <<address, sequence>>
    timerfd,            \* when it fires, or Disarmed
    phase,              \* where the loop's thread is
    cancelingTimers_,
    expired,            \* handleRead's local vector, ...
    unrun,              \* ... the part of it that is still to be called, ...
    now_,               \* ... and its local now
    pending,            \* pendingFunctors_ of the loop
    cancelled           \* TimerIds that cancelInLoop() got, not in a queued add

timerVars == <<timer, numCreated, returning, ids>>
clockVars == <<ticks, lag>>
handleVars == <<phase, expired, unrun, now_>>
vars == <<timerVars, clockVars, handleVars, timers_, activeTimers_, timerfd,
          cancelingTimers_, pending, cancelled>>

Disarmed == -1

\* The fields of a Timer; repeat_ is interval_ > 0.
Timer == [expiration_ : Int, interval_ : Nat, sequence_ : 0..MaxTimers]
NoTimer == [expiration_ |-> 0, interval_ |-> 0, sequence_ |-> 0]
live == {a \in Addrs : timer[a] # NoTimer}

expiration(a) == timer[a].expiration_
repeat(a) == timer[a].interval_ > 0
sequence(a) == timer[a].sequence_

\* Mutant: nothing is deleted.
deleteNothing(addrs) == timer

\* The Timers after delete of those at some addresses.
delete(addrs) == [a \in Addrs |-> IF a \in addrs THEN NoTimer ELSE timer[a]]

\* A TimerId: which Timer, and which use of its address.
TimerIds == Addrs \X (1..MaxTimers)

\* The types of the variables; sequence numbers start at 1.
TypeOK ==
    /\ ticks \in Nat
    /\ lag \in Lags
    /\ timer \in [Addrs -> Timer]
    /\ numCreated \in 0..MaxTimers
    /\ returning \in SUBSET TimerIds
    /\ ids \in SUBSET TimerIds
    /\ timers_ \in SUBSET (Int \X Addrs)
    /\ activeTimers_ \in SUBSET TimerIds
    /\ timerfd \in Nat \cup {Disarmed}
    /\ phase \in {"loop", "reported", "calling", "destroyed"}
    /\ cancelingTimers_ \in SUBSET TimerIds
    /\ expired \in SUBSET Addrs
    /\ unrun \in SUBSET expired
    /\ now_ \in Int
    /\ pending \in Seq({"add", "cancel"} \X TimerIds)
    /\ cancelled \in SUBSET TimerIds

Init ==
    /\ ticks = Start /\ lag = 0
    /\ timer = [a \in Addrs |-> NoTimer]
    /\ numCreated = 0 /\ returning = {} /\ ids = {}
    /\ timers_ = {} /\ activeTimers_ = {} /\ cancelingTimers_ = {}
    /\ timerfd = Disarmed
    /\ phase = "loop"
    /\ expired = {} /\ unrun = {} /\ now_ = 0
    /\ pending = << >>
    /\ cancelled = {}

-----------------------------------------------------------------------------
(* Timestamps and the timerfd.                                             *)

\* Timestamp::now()
now == (ticks - lag) \div kMicroSecondsPerSecond

addTime(timestamp, seconds) == timestamp + seconds * kMicroSecondsPerSecond

valid(timestamp) == timestamp > 0

howMuchTimeFromNow(when) == IF when - now < MinDelay THEN MinDelay ELSE when - now

\* When a timerfd set for an expiration fires; timerfd_settime disarms it for 0.
resetTimerfd(when) == IF howMuchTimeFromNow(when) = 0 THEN Disarmed
                      ELSE ticks + howMuchTimeFromNow(when)

\* The timerfd has fired and is readable.  Past the clock's bound time goes
\* on for the timerfd.
Readable == timerfd # Disarmed /\ (timerfd <= ticks \/ ticks >= MaxTicks)

Tick ==
    /\ ticks < MaxTicks
    /\ ticks' = ticks + 1
    /\ UNCHANGED <<lag, timerVars, handleVars, timers_, activeTimers_,
                   timerfd, cancelingTimers_, pending, cancelled>>

SetTime(l) ==
    /\ lag' = l
    /\ UNCHANGED <<ticks, timerVars, handleVars, timers_, activeTimers_,
                   timerfd, cancelingTimers_, pending, cancelled>>

-----------------------------------------------------------------------------
(* Adding and cancelling.                                                  *)

\* The loop's thread is in a callback, of a timer or of another channel.
InCallback == phase \in {"loop", "reported"} \/ (phase = "calling" /\ unrun # expired)

Queues(functor) ==
    /\ Len(pending) < MaxPending
    /\ pending' = Append(pending, functor)

\* Mutant: the timerfd is set for the first timer of an empty queue only.
earliestChangedIfEmpty(when) == timers_ = {}

\* What insert() returns.
earliestChanged(when) == \A e \in timers_ : when < e[1]

addTimerInLoop(id, when) ==
    /\ timers_' = timers_ \cup {<<when, id[1]>>}
    /\ activeTimers_' = activeTimers_ \cup {id}
    /\ timerfd' = IF earliestChanged(when) THEN resetTimerfd(when) ELSE timerfd

incrementAndGet(n) == n + 1

\* addTimer(): new Timer at a free address, then addTimerInLoop by the
\* loop's thread itself (inLoop) or as a functor.
addTimer(a, when, interval, inLoop) ==
    LET id == <<a, incrementAndGet(numCreated)>> IN
    /\ phase # "destroyed"
    /\ numCreated < MaxTimers
    /\ a \notin live
    /\ numCreated' = id[2]
    /\ timer' = [timer EXCEPT ![a] = [expiration_ |-> when, interval_ |-> interval,
                                      sequence_ |-> id[2]]]
    /\ IF inLoop
       THEN /\ InCallback
            /\ addTimerInLoop(id, when)
            /\ ids' = ids \cup {id}
            /\ UNCHANGED <<pending, returning>>
       ELSE /\ Queues(<<"add", id>>)
            /\ returning' = returning \cup {id}
            /\ UNCHANGED <<timers_, activeTimers_, timerfd, ids>>
    /\ UNCHANGED <<clockVars, handleVars, cancelingTimers_, cancelled>>

\* The return of addTimer() in another thread: it reads timer->sequence(),
\* or, if the loop has deleted that Timer, whatever is left there.
AddTimerReturns(id) ==
    /\ id \in returning
    /\ returning' = returning \ {id}
    /\ \E seq \in IF id[1] \in live THEN {sequence(id[1])} ELSE 1..numCreated :
          ids' = ids \cup {<<id[1], seq>>}
    /\ UNCHANGED <<timer, numCreated, clockVars, handleVars, timers_, activeTimers_,
                   timerfd, cancelingTimers_, pending, cancelled>>

runAt(a, time, inLoop) == addTimer(a, time, 0, inLoop)
runAfter(a, delay, inLoop) == runAt(a, addTime(now, delay), inLoop)
runEvery(a, interval, inLoop) == addTimer(a, addTime(now, interval), interval, inLoop)

\* Timers that another thread has made and the loop has not inserted yet.
Queued == {pending[i][2] : i \in {j \in DOMAIN pending : pending[j][1] = "add"}}

\* Mutant: the Timer is looked up by its address alone.
cancelInLoopByAddress(id) ==
    /\ IF \E i \in activeTimers_ : i[1] = id[1]
       THEN /\ timers_' = timers_ \ {<<expiration(id[1]), id[1]>>}
            /\ activeTimers_' = {i \in activeTimers_ : i[1] # id[1]}
            /\ timer' = delete({id[1]})
            /\ UNCHANGED cancelingTimers_
       ELSE /\ cancelingTimers_' = IF phase = "calling" THEN cancelingTimers_ \cup {id}
                                   ELSE cancelingTimers_
            /\ UNCHANGED <<timers_, activeTimers_, timer>>
    /\ cancelled' = IF id \in Queued THEN cancelled ELSE cancelled \cup {id}

\* callingExpiredTimers_ is TRUE in phase "calling".
cancelInLoop(id) ==
    /\ IF id \in activeTimers_
       THEN /\ timers_' = timers_ \ {<<expiration(id[1]), id[1]>>}
            /\ activeTimers_' = activeTimers_ \ {id}
            /\ timer' = delete({id[1]})
            /\ UNCHANGED cancelingTimers_
       ELSE /\ cancelingTimers_' = IF phase = "calling" THEN cancelingTimers_ \cup {id}
                                   ELSE cancelingTimers_
            /\ UNCHANGED <<timers_, activeTimers_, timer>>
    /\ cancelled' = IF id \in Queued THEN cancelled ELSE cancelled \cup {id}

\* cancel() of a TimerId that addTimer() returned, however old it is.
cancel(id, inLoop) ==
    /\ phase # "destroyed"
    /\ id \in ids
    /\ IF inLoop
       THEN InCallback /\ cancelInLoop(id) /\ UNCHANGED pending
       ELSE /\ Queues(<<"cancel", id>>)
            /\ UNCHANGED <<timers_, activeTimers_, timer, cancelingTimers_, cancelled>>
    /\ UNCHANGED <<clockVars, handleVars, numCreated, returning, ids, timerfd>>

\* doPendingFunctors() runs a functor of the queue.
RunPending ==
    /\ phase = "loop"
    /\ pending # << >>
    /\ LET id == Head(pending)[2] IN
       \/ /\ Head(pending)[1] = "add"
          /\ addTimerInLoop(id, expiration(id[1]))
          /\ UNCHANGED <<timer, cancelingTimers_, cancelled>>
       \/ /\ Head(pending)[1] = "cancel"
          /\ cancelInLoop(id)
          /\ UNCHANGED timerfd
    /\ pending' = Tail(pending)
    /\ UNCHANGED <<clockVars, handleVars, numCreated, returning, ids>>

-----------------------------------------------------------------------------
(* handleRead().                                                           *)

\* epoll_wait reports the timerfd; channels before it are handled first.
PollTimerfd ==
    /\ phase = "loop"
    /\ Readable
    /\ phase' = "reported"
    /\ UNCHANGED <<timerVars, clockVars, timers_, activeTimers_, timerfd,
                   cancelingTimers_, pending, cancelled, expired, unrun, now_>>

\* Mutant: the sentry is a null pointer.
getExpiredNullSentry == {a \in Addrs : <<expiration(a), a>> \in timers_ /\ expiration(a) < now}

\* getExpired(now): what expires now is in front of the sentry.
getExpired == {a \in Addrs : <<expiration(a), a>> \in timers_ /\ expiration(a) <= now}

\* Mutant: expired timers are erased from timers_ only.
stillActiveAll == activeTimers_

\* What getExpired() leaves in activeTimers_.
stillActive == {i \in activeTimers_ : i[1] \notin getExpired}

\* readTimerfd() fails if a callback has set the timerfd again since.
HandleRead ==
    /\ phase = "reported"
    /\ phase' = "calling"
    /\ timerfd' = IF Readable THEN Disarmed ELSE timerfd
    /\ now_' = now
    /\ expired' = getExpired
    /\ unrun' = getExpired
    /\ timers_' = {e \in timers_ : e[2] \notin getExpired}
    /\ activeTimers_' = stillActive
    /\ cancelingTimers_' = {}
    /\ UNCHANGED <<timerVars, clockVars, pending, cancelled>>

\* Timer::run() of the next one in the order of <<expiration, address>>.
RunTimer(a) ==
    /\ phase = "calling"
    /\ a \in unrun
    /\ \A b \in unrun : \/ expiration(a) < expiration(b)
                        \/ expiration(a) = expiration(b) /\ a <= b
    /\ unrun' = unrun \ {a}
    /\ UNCHANGED <<phase, expired, now_, timerVars, clockVars, timers_,
                   activeTimers_, timerfd, cancelingTimers_, pending, cancelled>>

\* Mutant: a repeated timer is restarted even if it was cancelled meanwhile.
RestartedAlways == {a \in expired : repeat(a)}

\* The timers that reset() restarts; it deletes the others.
Restarted == {a \in expired : repeat(a) /\ <<a, sequence(a)>> \notin cancelingTimers_}

\* Timer::restart(now), of a repeated timer: its new expiration.
restart(a) == addTime(now_, timer[a].interval_)

\* The timerfd after reset(), for the first timer of the queue.
nextTimerfd(queue) ==
    IF queue = {} THEN timerfd
    ELSE LET nextExpire == (CHOOSE e \in queue : \A f \in queue : e[1] <= f[1])[1] IN
         IF valid(nextExpire) THEN resetTimerfd(nextExpire) ELSE timerfd

\* reset(), which ends handleRead().
Reset ==
    /\ phase = "calling"
    /\ unrun = {}
    /\ phase' = "loop"
    /\ timer' = [a \in Addrs |-> IF a \in Restarted
                                 THEN [timer[a] EXCEPT !.expiration_ = restart(a)]
                                 ELSE delete(expired)[a]]
    /\ timers_' = timers_ \cup {<<restart(a), a>> : a \in Restarted}
    /\ activeTimers_' = activeTimers_ \cup {<<a, sequence(a)>> : a \in Restarted}
    /\ timerfd' = nextTimerfd(timers_')
    /\ expired' = {}
    /\ now_' = 0
    /\ UNCHANGED <<numCreated, returning, ids, clockVars, cancelingTimers_, pending, unrun,
                   cancelled>>

\* ~TimerQueue; functors that are still queued go with the loop.
Destroy ==
    /\ phase = "loop"
    /\ phase' = "destroyed"
    /\ timer' = delete({e[2] : e \in timers_})
    /\ timers_' = {}
    /\ activeTimers_' = {}
    /\ timerfd' = Disarmed
    /\ UNCHANGED <<numCreated, returning, ids, clockVars, cancelingTimers_, pending, expired,
                   unrun, now_, cancelled>>

-----------------------------------------------------------------------------

Add(a, inLoop) ==
    \/ \E t \in Times : runAt(a, t, inLoop)
    \/ \E d \in Delays : runAfter(a, d, inLoop)
    \/ \E i \in Intervals : runEvery(a, i, inLoop)

Next ==
    \/ Tick \/ \E l \in Lags : SetTime(l)
    \/ \E a \in Addrs, inLoop \in BOOLEAN : Add(a, inLoop)
    \/ \E id \in TimerIds, inLoop \in BOOLEAN : cancel(id, inLoop)
    \/ \E id \in TimerIds : AddTimerReturns(id)
    \/ RunPending \/ PollTimerfd \/ HandleRead
    \/ \E a \in Addrs : RunTimer(a)
    \/ Reset \/ Destroy

Spec == Init /\ [][Next]_vars

(***************************************************************************)
(* Fairness.  Time goes on; the loop's thread keeps running: it runs       *)
(* queued functors, polls, and gets through handleRead().  No thread has   *)
(* to add or cancel a timer.                                               *)
(***************************************************************************)
Fairness ==
    /\ WF_vars(Tick)
    /\ WF_vars(RunPending)
    /\ WF_vars(PollTimerfd)
    /\ WF_vars(HandleRead \/ (\E a \in Addrs : RunTimer(a)) \/ Reset)

FairSpec == Spec /\ Fairness

-----------------------------------------------------------------------------
(* Properties.                                                             *)

(***************************************************************************)
(* timers_ and activeTimers_ hold the same Timers, each under the          *)
(* expiration and sequence it has (TimerQueue.h): a Timer found in one can *)
(* be erased from the other, through restarts and reuse of addresses.      *)
(***************************************************************************)
SetsAgree ==
    /\ activeTimers_ = {<<e[2], sequence(e[2])>> : e \in timers_}
    /\ \A e \in timers_ : e[1] = expiration(e[2])

(***************************************************************************)
(* Every Timer that was made and not deleted is in one place: timers_, the *)
(* vector of handleRead(), each of which deletes it once, or a functor of  *)
(* addTimer() (TimerQueue.cpp:95,147,219).  None is lost, deleted by two   *)
(* or kept by one after another deleted it.  After ~TimerQueue only the    *)
(* Timers of functors that never ran are left; nobody deletes those.  What *)
(* addTimer() itself reads after it gave the Timer away is no owner's:     *)
(* that is TimerOutlivesAdd.                                               *)
(***************************************************************************)
OneOwner ==
    LET inSet == {e[2] : e \in timers_}
        inQueue == {id[1] : id \in Queued}
    IN  /\ live = inSet \cup expired \cup inQueue
        /\ inSet \cap expired = {} /\ (inSet \cup expired) \cap inQueue = {}

(***************************************************************************)
(* "Safe to call from other threads." (EventLoop.h:54): while addTimer()   *)
(* has yet to read timer->sequence() (TimerQueue.cpp:108) the Timer it     *)
(* made is there.  The code does not see to that: the loop may have run or *)
(* cancelled and deleted it, and given its address to another.             *)
(***************************************************************************)
TimerOutlivesAdd ==
    phase # "destroyed" =>
        \A id \in returning : id[1] \in live /\ sequence(id[1]) = id[2]

\* The most that setting the clock moves it ahead.
MaxLag == CHOOSE l \in Lags : \A k \in Lags : k <= l

(***************************************************************************)
(* Outside handleRead() the timerfd is set to fire in time for every timer *)
(* of the queue, that is, after no more than what howMuchTimeFromNow says  *)
(* now, or by as much later as the clock was set ahead since: through      *)
(* earlier timers added, first ones cancelled and timers added in          *)
(* callbacks (TimerQueue.cpp:31, 128, 223-231).                            *)
(***************************************************************************)
WakesForTimers ==
    phase = "loop" =>
        \A e \in timers_ :
            timerfd # Disarmed /\ timerfd <= ticks + howMuchTimeFromNow(e[1]) + MaxLag

(***************************************************************************)
(* Once cancelInLoop() has run for a timer that was inserted, the timer is *)
(* not in the queue again; if it is in handleRead()'s vector it is noted,  *)
(* and is not restarted (TimerQueue.cpp:144-153, 210-215).  A cancel by    *)
(* the loop's thread that overtakes the queued insertion finds nothing,    *)
(* notes nothing that lasts and is lost; cancelled leaves it out.          *)
(***************************************************************************)
CancelHolds ==
    \A id \in cancelled :
        /\ id \notin activeTimers_
        /\ id[1] \in expired /\ sequence(id[1]) = id[2] => id \in cancelingTimers_

(***************************************************************************)
(* A timer leaves the queue because it expired, with the queue, or because *)
(* a TimerId with its own address and sequence was cancelled: an old id    *)
(* does not reach a new Timer at its address (TimerQueue.cpp:141-142).     *)
(* Whether a TimerId has the sequence of the Timer its caller made is      *)
(* another question: addTimer()'s late read may give it that of a later    *)
(* Timer (TimerOutlivesAdd), and then it cancels that one.                 *)
(***************************************************************************)
CancelsOnlyItsTimer ==
    [][\A id \in activeTimers_ \ activeTimers_' :
            id \in cancelled' \/ id[1] \in expired' \/ phase' = "destroyed"]_vars

\* The last Timestamp that now() reaches, with the clock set back.
LastNow == CHOOSE t \in {(MaxTicks - l) \div kMicroSecondsPerSecond : l \in Lags} :
               \A l \in Lags : t <= (MaxTicks - l) \div kMicroSecondsPerSecond

(***************************************************************************)
(* A timer in the queue is called, cancelled or destroyed with the queue,  *)
(* once now() can reach its expiration: by whatever way the clock gets     *)
(* there (TimerQueue.cpp:157-198).                                         *)
(***************************************************************************)
EveryTimerRuns ==
    \A id \in TimerIds :
        (id \in activeTimers_ /\ expiration(id[1]) <= LastNow)
            ~> (id \in cancelled \/ id[1] \in expired \ unrun \/ phase = "destroyed")

=============================================================================
