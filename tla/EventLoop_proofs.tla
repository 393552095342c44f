-------------------------- MODULE EventLoop_proofs --------------------------
(***************************************************************************)
(* Proofs about EventLoop for any set of threads, any number of functors   *)
(* queued before loop(), any bound on the functors queued, and any         *)
(* capacity of the eventfd counter.                                        *)
(***************************************************************************)
EXTENDS EventLoop, SequenceTheorems, TLAPS

\* A functor queued since loop() became reachable is waiting.
LateFunctor ==
    \E i \in DOMAIN pendingFunctors_ : pendingFunctors_[i] > InitPosts

(***************************************************************************)
(* The inductive strengthening of NoStrandedFunctor: the wakeup has to be  *)
(* on its way in every state from the swap of doPendingFunctors to the     *)
(* next epoll_wait, the owner's own queueInLoop included, and that one     *)
(* writes the eventfd because callingPendingFunctors_ is set throughout    *)
(* doPendingFunctors.                                                      *)
(***************************************************************************)
FlagCoversFunctors ==
    loopPc \in {"swap", "run", "functor"} => callingPendingFunctors_

OwnerCallsFromCallback ==
    callPc[Owner] # "idle" => loopPc \in InCallback

WakeupBeforePoll ==
    loopPc \in {"constructed", "run", "functor", "test", "poll"} /\ LateFunctor
        => WakeupComing \/ callPc[Owner] = "queued"

Inv ==
    /\ TypeOK
    /\ FlagCoversFunctors
    /\ OwnerCallsFromCallback
    /\ WakeupBeforePoll

-----------------------------------------------------------------------------
(* A write to the eventfd leaves it readable. *)
LEMMA WakeupReadable ==
    ASSUME TypeOK, wakeup
    PROVE  wakeupFd_' \in 0..EventfdMax /\ wakeupFd_' > 0
  BY EventfdAssumption DEF TypeOK, wakeup

(* Init establishes the type invariant. *)
LEMMA InitTypeOK == Init => TypeOK
  <1> SUFFICES ASSUME Init PROVE TypeOK
      OBVIOUS
  <1>1. pendingFunctors_ \in Seq(Nat) /\ functors \in Seq(Nat)
    <2>1. \A i \in 1..InitPosts : i \in Nat
        BY InitPostsAssumption
    <2> QED BY <2>1, InitPostsAssumption DEF Init
  <1>2. wakeupFd_ \in 0..EventfdMax /\ posted \in Nat /\ lastRun \in Nat
      BY InitPostsAssumption, EventfdAssumption DEF Init
  <1>3. callPc \in [AllThreads -> CallPcs]
      BY DEF Init, CallPcs
  <1>4. quit_ \in BOOLEAN /\ callingPendingFunctors_ \in BOOLEAN
      BY DEF Init
  <1>5. activeChannels_ \in SUBSET Channels /\ loopPc \in LoopPcs
      BY DEF Init, LoopPcs
  <1> QED BY <1>1, <1>2, <1>3, <1>4, <1>5, Zenon DEF TypeOK

(* Every step keeps every variable in its type (EventLoop.cpp:82-218). *)
LEMMA NextTypeOK == TypeOK /\ [Next]_vars => TypeOK'
  <1> SUFFICES ASSUME TypeOK, [Next]_vars PROVE TypeOK'
      OBVIOUS
  <1> USE DEF TypeOK
  <1>1. ASSUME NEW t \in AllThreads, Call(t) PROVE TypeOK'
    <2>1. CASE QueueInLoop(t)
        BY <2>1 DEF QueueInLoop, CallPcs
    <2>2. CASE WakeAfterQueue(t)
        BY <2>2, WakeupReadable DEF WakeAfterQueue, CallPcs
    <2>3. CASE Quit(t)
        BY <2>3 DEF Quit, CallPcs
    <2>4. CASE WakeAfterQuit(t)
        BY <2>4, WakeupReadable DEF WakeAfterQuit, CallPcs
    <2> QED BY <1>1, <2>1, <2>2, <2>3, <2>4 DEF Call
  <1>2. ASSUME NEW io \in SUBSET {"io"}, Poll(io) PROVE TypeOK'
      BY <1>2 DEF Poll, Ready, LoopPcs, Channels
  <1>3. CASE PollNothing
      BY <1>3 DEF PollNothing, LoopPcs
  <1>4. CASE LoopStep
    <2>1. CASE LoopEnter
        BY <2>1 DEF LoopEnter, LoopPcs
    <2>2. CASE LoopTest
        BY <2>2 DEF LoopTest, LoopPcs
    <2>3. CASE HandleWakeup
        BY <2>3, EventfdAssumption DEF HandleWakeup
    <2>4. CASE HandleIo
        BY <2>4 DEF HandleIo, LoopPcs
    <2>5. CASE CallbackReturns
        BY <2>5 DEF CallbackReturns, LoopPcs
    <2>6. CASE BeginPending
        BY <2>6 DEF BeginPending, LoopPcs
    <2>7. CASE Swap
        BY <2>7 DEF Swap, LoopPcs
    <2>8. CASE RunFunctor
        BY <2>8, HeadTailProperties DEF RunFunctor, LoopPcs
    <2>9. CASE FunctorReturns
        BY <2>9 DEF FunctorReturns, LoopPcs
    <2>10. CASE EndPending
        BY <2>10 DEF EndPending, LoopPcs
    <2> QED BY <1>4, <2>1, <2>2, <2>3, <2>4, <2>5, <2>6, <2>7, <2>8, <2>9, <2>10
            DEF LoopStep
  <1>5. CASE UNCHANGED vars
      BY <1>5 DEF vars
  <1> QED BY <1>1, <1>2, <1>3, <1>4, <1>5 DEF Next

(* The state of an EventLoop is always well typed; in particular the       *)
(* eventfd counter stays within its width however often the loop is woken. *)
THEOREM TypeCorrect == Spec => []TypeOK
  BY InitTypeOK, NextTypeOK, PTL DEF Spec

-----------------------------------------------------------------------------
(* Init establishes the inductive invariant: only functors of the          *)
(* ThreadInitCallback are queued before loop().                            *)
LEMMA InitInv == Init => Inv
  <1> SUFFICES ASSUME Init PROVE Inv
      OBVIOUS
  <1>1. TypeOK
      BY InitTypeOK
  <1>2. ~LateFunctor
      BY InitPostsAssumption DEF Init, LateFunctor
  <1>3. FlagCoversFunctors /\ OwnerCallsFromCallback
      BY DEF Init, FlagCoversFunctors, OwnerCallsFromCallback, AllThreads
  <1> QED BY <1>1, <1>2, <1>3 DEF Inv, WakeupBeforePoll

(* Steps of queueInLoop and quit, by the owner or by another thread. *)
LEMMA CallInv ==
    ASSUME Inv, NEW t \in AllThreads, Call(t)
    PROVE  FlagCoversFunctors' /\ OwnerCallsFromCallback' /\ WakeupBeforePoll'
  <1> USE DEF Inv, TypeOK, FlagCoversFunctors, OwnerCallsFromCallback, AllThreads
  <1>1. CASE QueueInLoop(t)
    <2>1. callPc'[t] = "queued"
        BY <1>1 DEF QueueInLoop
    <2>2. WakeupComing' \/ callPc'[Owner] = "queued"
        BY <2>1 DEF WakeupComing
    <2> QED BY <1>1, <2>2
        DEF QueueInLoop, MayCall, isInLoopThread, WakeupBeforePoll
  <1>2. CASE WakeAfterQueue(t)
    <2>1. CASE ~isInLoopThread(t) \/ callingPendingFunctors_
      <3>1. wakeupFd_' > 0
          BY <1>2, <2>1, WakeupReadable DEF WakeAfterQueue
      <3> QED BY <1>2, <3>1 DEF WakeAfterQueue, WakeupBeforePoll, WakeupComing
    <2>2. CASE isInLoopThread(t) /\ ~callingPendingFunctors_
      <3>1. loopPc = "callback"
          BY <1>2, <2>2 DEF WakeAfterQueue, isInLoopThread, InCallback
      <3> QED BY <1>2, <3>1 DEF WakeAfterQueue, WakeupBeforePoll
    <2> QED BY <2>1, <2>2
  <1>3. CASE Quit(t)
    <2>1. WakeupComing /\ LateFunctor' => WakeupComing'
        BY <1>3 DEF Quit, MayCall, WakeupComing
    <2> QED BY <1>3, <2>1
        DEF Quit, MayCall, isInLoopThread, WakeupBeforePoll, LateFunctor
  <1>4. CASE WakeAfterQuit(t)
    <2>1. wakeupFd_' >= wakeupFd_
        BY <1>4, EventfdAssumption DEF WakeAfterQuit, wakeup
    <2>2. WakeupComing => WakeupComing'
        BY <1>4, <2>1, NextTypeOK, EventfdAssumption
        DEF WakeAfterQuit, WakeupComing, wakeup
    <2> QED BY <1>4, <2>2 DEF WakeAfterQuit, WakeupBeforePoll, LateFunctor
  <1> QED BY <1>1, <1>2, <1>3, <1>4 DEF Call

(* Steps of loop(), epoll_wait included. *)
LEMMA LoopInv ==
    ASSUME Inv,
           (\E io \in SUBSET {"io"} : Poll(io)) \/ PollNothing \/ LoopStep
    PROVE  FlagCoversFunctors' /\ OwnerCallsFromCallback' /\ WakeupBeforePoll'
  <1> USE DEF Inv, TypeOK, FlagCoversFunctors, OwnerCallsFromCallback, At,
              AllThreads, InCallback
  <1>1. ASSUME NEW io \in SUBSET {"io"}, Poll(io)
        PROVE  FlagCoversFunctors' /\ OwnerCallsFromCallback' /\ WakeupBeforePoll'
      BY <1>1 DEF Poll, WakeupBeforePoll
  <1>2. CASE PollNothing
      BY <1>2 DEF PollNothing, WakeupBeforePoll
  <1>3. CASE LoopEnter
      BY <1>3 DEF LoopEnter, WakeupBeforePoll, LateFunctor, WakeupComing
  <1>4. CASE LoopTest
      BY <1>4 DEF LoopTest, WakeupBeforePoll, LateFunctor, WakeupComing
  <1>5. CASE HandleWakeup
      BY <1>5 DEF HandleWakeup, WakeupBeforePoll
  <1>6. CASE HandleIo
      BY <1>6 DEF HandleIo, WakeupBeforePoll
  <1>7. CASE CallbackReturns
      BY <1>7 DEF CallbackReturns, WakeupBeforePoll
  <1>8. CASE BeginPending
      BY <1>8 DEF BeginPending, WakeupBeforePoll
  <1>9. CASE Swap
    <2>1. ~LateFunctor'
        BY <1>9 DEF Swap, LateFunctor
    <2> QED BY <1>9, <2>1 DEF Swap, WakeupBeforePoll
  <1>10. CASE RunFunctor
      BY <1>10 DEF RunFunctor, WakeupBeforePoll, LateFunctor, WakeupComing
  <1>11. CASE FunctorReturns
      BY <1>11 DEF FunctorReturns, WakeupBeforePoll, LateFunctor, WakeupComing
  <1>12. CASE EndPending
      BY <1>12 DEF EndPending, WakeupBeforePoll, LateFunctor, WakeupComing
  <1> QED BY <1>1, <1>2, <1>3, <1>4, <1>5, <1>6, <1>7, <1>8, <1>9, <1>10,
             <1>11, <1>12 DEF LoopStep

(* Inv is inductive. *)
LEMMA NextInv == Inv /\ [Next]_vars => Inv'
  <1> SUFFICES ASSUME Inv, [Next]_vars PROVE Inv'
      OBVIOUS
  <1>1. TypeOK'
      BY NextTypeOK DEF Inv
  <1>2. CASE Next
      BY <1>1, <1>2, CallInv, LoopInv DEF Next, Inv
  <1>3. CASE UNCHANGED vars
      BY <1>1, <1>3 DEF vars, Inv, FlagCoversFunctors, OwnerCallsFromCallback,
                        WakeupBeforePoll, LateFunctor, WakeupComing
  <1> QED BY <1>2, <1>3

(***************************************************************************)
(* The loop never sleeps in epoll_wait on a functor queued since loop()    *)
(* became reachable without a wakeup on its way: there is no interleaving  *)
(* of queueInLoop (EventLoop.cpp:146-162) with doPendingFunctors           *)
(* (EventLoop.cpp:202-218) that loses one.                                 *)
(***************************************************************************)
THEOREM NoLostWakeup == Spec => []NoStrandedFunctor
  <1>1. Inv => NoStrandedFunctor
      BY DEF Inv, WakeupBeforePoll, OwnerCallsFromCallback, InCallback,
             NoStrandedFunctor, LateFunctor
  <1> QED BY <1>1, InitInv, NextInv, PTL DEF Spec

-----------------------------------------------------------------------------
(***************************************************************************)
(* The loop implements the queue of FunctorQueue: what is left of the      *)
(* vector doPendingFunctors swapped out, followed by pendingFunctors_.     *)
(***************************************************************************)

\* Only doPendingFunctors has functors in its local vector.
LocalVector ==
    /\ TypeOK
    /\ loopPc \notin {"run", "functor"} => functors = << >>

(* Appending to the second of two joined sequences appends to the whole. *)
LEMMA AppendToJoin ==
    ASSUME NEW S, NEW s \in Seq(S), NEW u \in Seq(S), NEW e \in S
    PROVE  s \o Append(u, e) = Append(s \o u, e)
  <1>1. Append(u, e) = u \o <<e>> /\ Append(s \o u, e) = (s \o u) \o <<e>>
      BY AppendIsConcat, ConcatProperties
  <1> QED BY <1>1, ConcatAssociative

(* The head of two joined sequences is the head of the first of them. *)
LEMMA HeadOfJoin ==
    ASSUME NEW S, NEW s \in Seq(S), NEW u \in Seq(S), s # << >>
    PROVE  /\ s \o u # << >>
           /\ Head(s \o u) = Head(s)
           /\ Tail(s \o u) = Tail(s) \o u
  OBVIOUS

(* Before loop() the local vector of doPendingFunctors does not exist. *)
LEMMA InitLocalVector == Init => LocalVector
  BY InitTypeOK DEF Init, LocalVector

(* Swap fills the vector, and EndPending waits for it to be empty. *)
LEMMA NextLocalVector == LocalVector /\ [Next]_vars => LocalVector'
  <1> SUFFICES ASSUME LocalVector, [Next]_vars PROVE LocalVector'
      OBVIOUS
  <1>1. TypeOK'
      BY NextTypeOK DEF LocalVector
  <1>2. loopPc' \notin {"run", "functor"} => functors' = << >>
      BY DEF LocalVector, Next, vars, Call, QueueInLoop, WakeAfterQueue, Quit,
             WakeAfterQuit, Poll, PollNothing, LoopStep, LoopEnter, LoopTest,
             HandleWakeup, HandleIo, CallbackReturns, BeginPending, Swap,
             RunFunctor, FunctorReturns, EndPending, At
  <1> QED BY <1>1, <1>2 DEF LocalVector

(* Every step of the loop or of a caller is a step of the queue or leaves  *)
(* it alone.                                                               *)
LEMMA NextRefines == LocalVector /\ [Next]_vars => [FQ!Next]_(FQ!vars)
  <1> SUFFICES ASSUME LocalVector, [Next]_vars PROVE [FQ!Next]_(FQ!vars)
      OBVIOUS
  <1> USE DEF LocalVector, TypeOK, FQ!vars
  <1>1. ASSUME NEW t \in AllThreads, Call(t) PROVE [FQ!Next]_(FQ!vars)
    <2>1. CASE QueueInLoop(t)
      <3>1. functors \o Append(pendingFunctors_, posted + 1)
              = Append(functors \o pendingFunctors_, posted + 1)
          BY AppendToJoin
      <3> QED BY <2>1, <3>1 DEF QueueInLoop, FQ!Next, FQ!Post
    <2>2. CASE WakeAfterQueue(t) \/ Quit(t) \/ WakeAfterQuit(t)
        BY <2>2 DEF WakeAfterQueue, Quit, WakeAfterQuit
    <2> QED BY <1>1, <2>1, <2>2 DEF Call
  <1>2. ASSUME NEW io \in SUBSET {"io"}, Poll(io) PROVE [FQ!Next]_(FQ!vars)
      BY <1>2 DEF Poll
  <1>3. CASE PollNothing
      BY <1>3 DEF PollNothing
  <1>4. CASE Swap
    <2>1. functors = << >>
        BY <1>4 DEF Swap, At
    <2>2. functors' \o pendingFunctors_' = functors \o pendingFunctors_
        BY <1>4, <2>1, ConcatEmptySeq DEF Swap
    <2> QED BY <1>4, <2>2 DEF Swap
  <1>5. CASE RunFunctor
      BY <1>5, HeadOfJoin DEF RunFunctor, FQ!Next, FQ!Run
  <1>6. CASE LoopEnter \/ LoopTest \/ HandleWakeup \/ HandleIo
             \/ CallbackReturns \/ BeginPending \/ FunctorReturns \/ EndPending
      BY <1>6 DEF LoopEnter, LoopTest, HandleWakeup, HandleIo, CallbackReturns,
                  BeginPending, FunctorReturns, EndPending
  <1>7. CASE UNCHANGED vars
      BY <1>7 DEF vars
  <1> QED BY <1>1, <1>2, <1>3, <1>4, <1>5, <1>6, <1>7 DEF Next, LoopStep

(***************************************************************************)
(* Functors queued on a loop from any number of threads start once each,   *)
(* in the order in which they were queued (EventLoop.cpp:146-162 and       *)
(* 202-218 implement FunctorQueue).                                        *)
(***************************************************************************)
THEOREM ImplementsFunctorQueue == Spec => StartsInOrder
  <1>1. Init => FQ!Init
      BY InitPostsAssumption, ConcatEmptySeq DEF Init, FQ!Init, FQ!Upto
  <1> QED BY <1>1, InitLocalVector, NextLocalVector, NextRefines, PTL
          DEF Spec, StartsInOrder, FQ!Spec

-----------------------------------------------------------------------------
(* The promise of FunctorQueue, with the type of posted it needs. *)
OrderInv == posted \in Nat /\ FQ!InOrder

(* Appending the next number to a run of numbers extends the run. *)
LEMMA ExtendRun ==
    ASSUME NEW a \in Nat, NEW n \in Nat
    PROVE  Append([i \in 1..n |-> a + i], a + n + 1) = [i \in 1..(n + 1) |-> a + i]
  OBVIOUS

(* A nonempty run of numbers starts after a and goes on after a + 1. *)
LEMMA ShortenRun ==
    ASSUME NEW a \in Nat, NEW n \in Nat, n > 0
    PROVE  /\ Head([i \in 1..n |-> a + i]) = a + 1
           /\ Tail([i \in 1..n |-> a + i]) = [i \in 1..(n - 1) |-> (a + 1) + i]
  OBVIOUS

(***************************************************************************)
(* No functor is lost, started twice or overtaken: those not started are   *)
(* always exactly the ones queued after the last one started.              *)
(***************************************************************************)
THEOREM ExactlyOnceInOrder == Spec => []FQ!InOrder
  <1>1. Init => OrderInv
      BY InitPostsAssumption, ConcatEmptySeq DEF Init, OrderInv, FQ!InOrder
  <1>2. OrderInv /\ [FQ!Next]_(FQ!vars) => OrderInv'
    <2> SUFFICES ASSUME OrderInv, [FQ!Next]_(FQ!vars) PROVE OrderInv'
        OBVIOUS
    <2> USE DEF OrderInv, FQ!InOrder
    <2>1. CASE FQ!Post
        BY <2>1, ExtendRun DEF FQ!Post
    <2>2. CASE FQ!Run
      <3> DEFINE n == posted - lastRun
      <3>1. n \in Nat /\ n > 0
          BY <2>2 DEF FQ!Run
      <3>2. lastRun' = lastRun + 1
          BY <2>2, <3>1, ShortenRun DEF FQ!Run
      <3>3. (functors \o pendingFunctors_)' = [i \in 1..(n - 1) |-> (lastRun + 1) + i]
          BY <2>2, <3>1, ShortenRun DEF FQ!Run
      <3>4. posted' - lastRun' = n - 1
          BY <2>2, <3>1, <3>2 DEF FQ!Run
      <3>5. posted' \in Nat /\ lastRun' \in 0..posted'
          BY <2>2, <3>1, <3>2 DEF FQ!Run
      <3> QED BY <3>2, <3>3, <3>4, <3>5
    <2>3. CASE UNCHANGED FQ!vars
        BY <2>3 DEF FQ!vars
    <2> QED BY <2>1, <2>2, <2>3 DEF FQ!Next
  <1>3. OrderInv => FQ!InOrder
      BY DEF OrderInv
  <1> QED BY <1>1, <1>2, <1>3, InitLocalVector, NextLocalVector, NextRefines, PTL
          DEF Spec

=============================================================================
