-------------------------- MODULE EventLoopProofs --------------------------
(***************************************************************************)
(* Proofs about EventLoop, for every set of threads and channels and every *)
(* bound.                                                                  *)
(***************************************************************************)
EXTENDS EventLoop, SequenceTheorems, FiniteSetTheorems, TLAPS

-----------------------------------------------------------------------------
(* The inductive invariant.                                                *)

\* Functors are run, and left to run, only inside doPendingFunctors().
BatchInPlace == lpc # "functors" => running = NoFunctor /\ functors = <<>>

\* The loop thread owes a wakeup only for a functor it queued from a functor.
LoopThreadOwes == pc[LoopThread] = "wakeup" => lpc = "functors"

\* Once the wakeup counter has been read, the pending functors are swapped out
\* before the next poll: what is pending anywhere else has a wakeup.
WakeupOwed ==
    lpc # "events" /\ Range(pendingFunctors_) \ quiet # {} =>
        wakeups > 0 \/ \E t \in AllThreads : pc[t] = "wakeup"

\* quit_ is tested before poll(), so a quit_ seen there came from elsewhere.
QuitOwed == lpc = "poll" /\ quit_ => WakeupDue

\* poll() starts from an empty list and reports no channel twice.
ActiveOnce ==
    /\ lpc = "poll" => activeChannels_ = <<>>
    /\ \A i, j \in 1..Len(activeChannels_) :
          i # j => activeChannels_[i] # activeChannels_[j]

LoopInv == /\ TypeOK
           /\ BatchInPlace
           /\ LoopThreadOwes
           /\ WakeupOwed
           /\ QuitOwed
           /\ ActiveOnce
           /\ DispatchSound

-----------------------------------------------------------------------------
(* Facts about sequences.                                                  *)

\* A functor pushed by queueInLoop() is the only new one in the queue.
LEMMA RangeAppend ==
    ASSUME NEW S, NEW s \in Seq(S), NEW e \in S
    PROVE  Range(Append(s, e)) = Range(s) \cup {e}
  <1>1. /\ DOMAIN Append(s, e) = 1..Len(s) + 1
        /\ DOMAIN s = 1..Len(s)
        /\ Len(s) \in Nat
        /\ Append(s, e)[Len(s) + 1] = e
        /\ \A i \in 1..Len(s) : Append(s, e)[i] = s[i]
    OBVIOUS
  <1>2. 1..Len(s) + 1 = 1..Len(s) \cup {Len(s) + 1}
    BY <1>1
  <1> QED
    BY <1>1, <1>2 DEF Range

\* The list poll() fills is a sequence of readable channels without repetition.
LEMMA OrderingsAreSequences ==
    ASSUME NEW S, IsFiniteSet(S), NEW s \in SetToSeqs(S)
    PROVE  /\ s \in Seq(S)
           /\ \A i, j \in 1..Len(s) : i # j => s[i] # s[j]
  <1>1. Cardinality(S) \in Nat
    BY FS_CardinalityType
  <1>2. /\ s \in [1..Cardinality(S) -> S]
        /\ \A i, j \in 1..Cardinality(S) : i # j => s[i] # s[j]
    BY DEF SetToSeqs
  <1>3. s \in Seq(S)
    BY <1>1, <1>2, SeqDef
  <1>4. Len(s) = Cardinality(S)
    BY <1>1, <1>2, <1>3, LenProperties
  <1> QED
    BY <1>2, <1>3, <1>4

-----------------------------------------------------------------------------
(* LoopInv is inductive.                                                   *)

\* The loop starts outside loop(), with nothing queued, active or owed.
LEMMA LoopInvInit == Init => LoopInv
  <1> SUFFICES ASSUME Init PROVE LoopInv
    OBVIOUS
  <1> USE DEF Init
  <1>1. TypeOK
    <2>1. quit_ \in BOOLEAN
      BY Zenon
    <2> QED
      BY <2>1, BoundsAssumption DEF TypeOK, LoopLocations, NoFunctor
  <1>2. BatchInPlace /\ LoopThreadOwes /\ QuitOwed /\ ActiveOnce /\ DispatchSound
    BY DEF BatchInPlace, LoopThreadOwes, QuitOwed, ActiveOnce, DispatchSound,
           eventHandling_, AllThreads
  <1>3. WakeupOwed
    BY DEF WakeupOwed, Range
  <1> QED
    BY <1>1, <1>2, <1>3 DEF LoopInv

\* Every step keeps the variables in their types.
LEMMA TypeOKStep ==
    ASSUME LoopInv, [Next]_vars
    PROVE  TypeOK'
  <1> USE BoundsAssumption DEF LoopInv, TypeOK, LoopLocations
  <1>1. ASSUME NEW t \in AllThreads, QueueInLoop(t) PROVE TypeOK'
    <2>1. issued + 1 \in Functors
      BY <1>1 DEF QueueInLoop, Functors
    <2> QED
      BY <1>1, <2>1 DEF QueueInLoop, NeedsWakeup, loopVars
  <1>2. ASSUME NEW t \in AllThreads, Quit(t) PROVE TypeOK'
    BY <1>2 DEF Quit, loopVars
  <1>3. ASSUME NEW t \in AllThreads, Wakeup(t) PROVE TypeOK'
    BY <1>3 DEF Wakeup, loopVars, boundVars
  <1>4. ASSUME NEW c \in Channels, UpdateChannel(c) PROVE TypeOK'
    BY <1>4 DEF UpdateChannel, loopVars, boundVars
  <1>5. ASSUME NEW c \in Channels, RemoveChannel(c) PROVE TypeOK'
    BY <1>5 DEF RemoveChannel, loopVars, boundVars
  <1>6. CASE Loop
    <2>1. quit_' \in BOOLEAN
      BY <1>6, Zenon DEF Loop
    <2> QED
      BY <1>6, <2>1 DEF Loop
  <1>7. CASE While
    BY <1>7 DEF While, boundVars
  <1>8. CASE Poll
    <2>1. PICK ready \in SUBSET Readable \ {{}} : activeChannels_' \in SetToSeqs(ready)
      BY <1>8 DEF Poll
    <2>2. ready \subseteq Channels \cup {WakeupChannel}
      BY <2>1 DEF Readable
    <2>3. IsFiniteSet(ready)
      BY <2>2, ChannelsAssumption, FS_AddElement, FS_Subset
    <2>4. activeChannels_' \in Seq(ready)
      BY <2>1, <2>3, OrderingsAreSequences
    <2>5. activeChannels_' \in Seq(Channels \cup {WakeupChannel})
      BY <2>2, <2>4, SeqMonotonic
    <2>6. pos' \in 0..Len(activeChannels_')
      BY <1>8, <2>5 DEF Poll, ActiveOnce
    <2> QED
      BY <1>8, <2>5, <2>6 DEF Poll, boundVars
  <1>9. CASE PollTimeout
    BY <1>9 DEF PollTimeout, boundVars
  <1>10. CASE HandleEvent
    BY <1>10 DEF HandleEvent, handleRead, boundVars
  <1>11. CASE DoPendingFunctors
    BY <1>11 DEF DoPendingFunctors, boundVars
  <1>12. CASE RunFunctor
    BY <1>12 DEF RunFunctor, boundVars
  <1>13. CASE EndPendingFunctors
    BY <1>13 DEF EndPendingFunctors, boundVars
  <1>14. CASE UNCHANGED vars
    BY <1>14 DEF vars
  <1> QED
    BY <1>1, <1>2, <1>3, <1>4, <1>5, <1>6, <1>7, <1>8, <1>9, <1>10, <1>11, <1>12,
       <1>13, <1>14 DEF Next, ThreadCall, ChannelCall, LoopStep

\* No step leaves functors behind outside doPendingFunctors(), makes the loop
\* thread enter poll() owing a wakeup, or hides a quit() from a sleeping loop.
LEMMA FlowStep ==
    ASSUME LoopInv, [Next]_vars
    PROVE  (BatchInPlace /\ LoopThreadOwes /\ QuitOwed)'
  <1> DEFINE Goal == BatchInPlace /\ LoopThreadOwes /\ QuitOwed
  <1> SUFFICES Goal'
    OBVIOUS
  <1> USE ThreadsAssumption, ChannelsAssumption
      DEF LoopInv, TypeOK, BatchInPlace, LoopThreadOwes, QuitOwed, WakeupDue, AllThreads,
          LoopReady, MayCall, InUserCode, currentActiveChannel_, eventHandling_,
          callingPendingFunctors_
  <1>1. ASSUME NEW t \in AllThreads, QueueInLoop(t) PROVE Goal'
    BY <1>1 DEF QueueInLoop, NeedsWakeup, loopVars
  <1>2. ASSUME NEW t \in AllThreads, Quit(t) PROVE Goal'
    BY <1>2 DEF Quit, loopVars
  <1>3. ASSUME NEW t \in AllThreads, Wakeup(t) PROVE Goal'
    BY <1>3 DEF Wakeup, loopVars, boundVars
  <1>4. ASSUME NEW c \in Channels, UpdateChannel(c) PROVE Goal'
    BY <1>4 DEF UpdateChannel, loopVars, boundVars
  <1>5. ASSUME NEW c \in Channels, RemoveChannel(c) PROVE Goal'
    BY <1>5 DEF RemoveChannel, loopVars, boundVars
  <1>6. CASE Loop
    BY <1>6 DEF Loop
  <1>7. CASE While
    BY <1>7 DEF While
  <1>8. CASE Poll
    BY <1>8 DEF Poll
  <1>9. CASE PollTimeout
    BY <1>9 DEF PollTimeout
  <1>10. CASE HandleEvent
    BY <1>10 DEF HandleEvent
  <1>11. CASE DoPendingFunctors
    BY <1>11 DEF DoPendingFunctors
  <1>12. CASE RunFunctor
    BY <1>12 DEF RunFunctor
  <1>13. CASE EndPendingFunctors
    BY <1>13 DEF EndPendingFunctors
  <1>14. CASE UNCHANGED vars
    BY <1>14 DEF vars
  <1> QED
    BY <1>1, <1>2, <1>3, <1>4, <1>5, <1>6, <1>7, <1>8, <1>9, <1>10, <1>11, <1>12,
       <1>13, <1>14 DEF Next, ThreadCall, ChannelCall, LoopStep

\* No step takes the last wakeup away from a pending functor that has one.
LEMMA WakeupOwedStep ==
    ASSUME LoopInv, [Next]_vars
    PROVE  WakeupOwed'
  <1> USE DEF LoopInv, TypeOK, WakeupOwed, eventHandling_, callingPendingFunctors_
  <1>1. ASSUME NEW t \in AllThreads, QueueInLoop(t) PROVE WakeupOwed'
    <2>1. CASE t # LoopThread \/ callingPendingFunctors_
      BY <1>1, <2>1 DEF QueueInLoop, NeedsWakeup, loopVars
    <2>2. CASE t = LoopThread /\ lpc = "out"
      <3>1. issued + 1 \in Functors
        BY <1>1, BoundsAssumption DEF QueueInLoop, Functors
      <3>2. Range(pendingFunctors_') = Range(pendingFunctors_) \cup {issued + 1}
        BY <1>1, <3>1, RangeAppend DEF QueueInLoop
      <3>3. pc' = pc
        BY <1>1, <2>2 DEF QueueInLoop, NeedsWakeup, MayCall
      <3> QED
        BY <1>1, <2>2, <3>2, <3>3 DEF QueueInLoop, NeedsWakeup, loopVars
    <2>3. CASE t = LoopThread /\ lpc = "events"
      BY <1>1, <2>3 DEF QueueInLoop, NeedsWakeup, loopVars
    <2> QED
      BY <1>1, <2>1, <2>2, <2>3, ChannelsAssumption 
         DEF QueueInLoop, NeedsWakeup, MayCall, InUserCode, BatchInPlace,
         currentActiveChannel_, LoopLocations
  <1>2. ASSUME NEW t \in AllThreads, Quit(t) PROVE WakeupOwed'
    BY <1>2 DEF Quit, MayCall, loopVars
  <1>3. ASSUME NEW t \in AllThreads, Wakeup(t) PROVE WakeupOwed'
    BY <1>3 DEF Wakeup, loopVars, boundVars
  <1>4. ASSUME NEW c \in Channels, UpdateChannel(c) PROVE WakeupOwed'
    BY <1>4 DEF UpdateChannel, loopVars, boundVars
  <1>5. ASSUME NEW c \in Channels, RemoveChannel(c) PROVE WakeupOwed'
    BY <1>5 DEF RemoveChannel, loopVars, boundVars
  <1>6. CASE Loop
    BY <1>6 DEF Loop
  <1>7. CASE While
    BY <1>7 DEF While
  <1>8. CASE Poll
    BY <1>8 DEF Poll
  <1>9. CASE PollTimeout
    BY <1>9 DEF PollTimeout
  <1>10. CASE HandleEvent
    BY <1>10 DEF HandleEvent, handleRead
  <1>11. CASE DoPendingFunctors
    BY <1>11 DEF DoPendingFunctors, Range
  <1>12. CASE RunFunctor
    BY <1>12 DEF RunFunctor
  <1>13. CASE EndPendingFunctors
    BY <1>13 DEF EndPendingFunctors
  <1>14. CASE UNCHANGED vars
    BY <1>14 DEF vars
  <1> QED
    BY <1>1, <1>2, <1>3, <1>4, <1>5, <1>6, <1>7, <1>8, <1>9, <1>10, <1>11, <1>12,
       <1>13, <1>14 DEF Next, ThreadCall, ChannelCall, LoopStep

\* No step makes the loop dispatch to a channel that is not registered any
\* more, or read an empty eventfd.
LEMMA DispatchStep ==
    ASSUME LoopInv, [Next]_vars
    PROVE  (ActiveOnce /\ DispatchSound)'
  <1> DEFINE Goal == ActiveOnce /\ DispatchSound
  <1> SUFFICES Goal'
    OBVIOUS
  <1> USE DEF LoopInv, TypeOK, ActiveOnce, DispatchSound, Readable, eventHandling_,
              callingPendingFunctors_
  <1>1. ASSUME NEW t \in AllThreads, QueueInLoop(t) PROVE Goal'
    BY <1>1 DEF QueueInLoop, NeedsWakeup, loopVars
  <1>2. ASSUME NEW t \in AllThreads, Quit(t) PROVE Goal'
    BY <1>2 DEF Quit, loopVars
  <1>3. ASSUME NEW t \in AllThreads, Wakeup(t) PROVE Goal'
    BY <1>3 DEF Wakeup, loopVars, boundVars
  <1>4. ASSUME NEW c \in Channels, UpdateChannel(c) PROVE Goal'
    BY <1>4 DEF UpdateChannel, loopVars, boundVars
  <1>5. ASSUME NEW c \in Channels, RemoveChannel(c) PROVE Goal'
    <2>1. ActiveOnce'
      BY <1>5 DEF RemoveChannel, loopVars
    <2>2. ASSUME eventHandling_', NEW i \in pos + 1 .. Len(activeChannels_)
          PROVE  activeChannels_[i] # c
      <3>1. /\ i \in 1..Len(activeChannels_)
            /\ pos # i
            /\ DOMAIN activeChannels_ = 1..Len(activeChannels_)
        BY <2>2
      <3>2. CASE currentActiveChannel_ = c
        BY <1>5, <3>1, <3>2, ChannelsAssumption DEF currentActiveChannel_
      <3>3. CASE c \notin Range(activeChannels_)
        BY <3>1, <3>3 DEF Range
      <3> QED
        BY <1>5, <2>2, <3>2, <3>3 DEF RemoveChannel, loopVars
    <2> QED
      BY <1>5, <2>1, <2>2 DEF RemoveChannel, loopVars
  <1>6. CASE Loop
    BY <1>6 DEF Loop
  <1>7. CASE While
    BY <1>7 DEF While
  <1>8. CASE Poll
    <2>1. PICK ready \in SUBSET Readable \ {{}} : activeChannels_' \in SetToSeqs(ready)
      BY <1>8 DEF Poll
    <2>2. IsFiniteSet(ready)
      BY <2>1, ChannelsAssumption, FS_AddElement, FS_Subset
    <2>3. /\ activeChannels_' \in Seq(ready)
          /\ \A i, j \in 1..Len(activeChannels_') :
                i # j => activeChannels_'[i] # activeChannels_'[j]
      BY <2>1, <2>2, OrderingsAreSequences
    <2>4. \A i \in 1..Len(activeChannels_') : activeChannels_'[i] \in Readable
      BY <2>1, <2>3
    <2>5. Readable' = Readable
      BY <1>8 DEF Poll
    <2> QED
      BY <1>8, <2>3, <2>4, <2>5 DEF Poll
  <1>9. CASE PollTimeout
    BY <1>9 DEF PollTimeout
  <1>10. CASE HandleEvent
    BY <1>10 DEF HandleEvent, handleRead
  <1>11. CASE DoPendingFunctors
    BY <1>11 DEF DoPendingFunctors
  <1>12. CASE RunFunctor
    BY <1>12 DEF RunFunctor
  <1>13. CASE EndPendingFunctors
    BY <1>13 DEF EndPendingFunctors
  <1>14. CASE UNCHANGED vars
    BY <1>14 DEF vars
  <1> QED
    BY <1>1, <1>2, <1>3, <1>4, <1>5, <1>6, <1>7, <1>8, <1>9, <1>10, <1>11, <1>12,
       <1>13, <1>14 DEF Next, ThreadCall, ChannelCall, LoopStep

-----------------------------------------------------------------------------
(* The invariants of EventLoop.                                            *)

\* LoopInv holds in every reachable state of the event loop.
THEOREM LoopInvariance == Spec => []LoopInv
  <1>1. Init => LoopInv
    BY LoopInvInit
  <1>2. LoopInv /\ [Next]_vars => LoopInv'
    BY TypeOKStep, FlowStep, WakeupOwedStep, DispatchStep DEF LoopInv
  <1> QED
    BY <1>1, <1>2, PTL DEF Spec

\* The variables of the loop keep their types.
THEOREM TypeCorrect == Spec => []TypeOK
  BY LoopInvariance, PTL DEF LoopInv

\* However many threads queue functors and ask the loop to quit, and wherever
\* the loop is when they do, it never sleeps in poll() without a wakeup.
THEOREM WakeupNeverLost == Spec => []NoLostWakeup
  <1>1. LoopInv => NoLostWakeup
    BY DEF LoopInv, WakeupOwed, QuitOwed, LoopThreadOwes, NoLostWakeup, WakeupDue, AllThreads
  <1> QED
    BY <1>1, LoopInvariance, PTL

\* What removeChannel() asserts of its callers is enough: dispatch reaches
\* registered channels only, and handleRead() of the wakeup channel always
\* finds a counter to read, so that its own assertion holds.
THEOREM DispatchIsSound == Spec => []DispatchSound
  BY LoopInvariance, PTL DEF LoopInv

-----------------------------------------------------------------------------
(* EventLoop implements FunctorQueue.                                      *)

\* Taking the front of the local vector is taking the front of the queue.
LEMMA FrontOfConcat ==
    ASSUME NEW S, NEW s \in Seq(S), NEW t \in Seq(S), s # <<>>
    PROVE  /\ s \o t # <<>>
           /\ Head(s \o t) = Head(s)
           /\ Tail(s \o t) = Tail(s) \o t
  <1>1. /\ s \o t \in Seq(S)
        /\ Len(s \o t) = Len(s) + Len(t)
        /\ \A i \in 1..Len(s) + Len(t) :
              (s \o t)[i] = IF i <= Len(s) THEN s[i] ELSE t[i - Len(s)]
    BY ConcatProperties
  <1>2. Len(s) \in Nat \ {0} /\ Len(t) \in Nat
    BY EmptySeq, LenProperties
  <1>3. s \o t # <<>>
    BY <1>1, <1>2
  <1>4. Head(s \o t) = Head(s)
    BY <1>1, <1>2, <1>3
  <1>5. /\ Tail(s \o t) \in Seq(S)
        /\ Len(Tail(s \o t)) = Len(s) + Len(t) - 1
        /\ \A i \in 1..Len(s) + Len(t) - 1 : Tail(s \o t)[i] = (s \o t)[i + 1]
    BY <1>1, <1>2, <1>3, HeadTailProperties
  <1>6. /\ Tail(s) \in Seq(S)
        /\ Len(Tail(s)) = Len(s) - 1
        /\ \A i \in 1..Len(s) - 1 : Tail(s)[i] = s[i + 1]
    BY <1>2, HeadTailProperties
  <1>7. /\ Tail(s) \o t \in Seq(S)
        /\ Len(Tail(s) \o t) = Len(s) - 1 + Len(t)
        /\ \A i \in 1..Len(s) - 1 + Len(t) :
              (Tail(s) \o t)[i] = IF i <= Len(s) - 1 THEN Tail(s)[i] ELSE t[i - (Len(s) - 1)]
    BY <1>6, ConcatProperties
  <1>8. ASSUME NEW i \in 1..Len(s) + Len(t) - 1
        PROVE  Tail(s \o t)[i] = (Tail(s) \o t)[i]
    <2>1. Tail(s \o t)[i] = IF i + 1 <= Len(s) THEN s[i + 1] ELSE t[i + 1 - Len(s)]
      BY <1>1, <1>2, <1>5
    <2>2. CASE i + 1 <= Len(s)
      BY <1>2, <1>6, <1>7, <2>1, <2>2
    <2>3. CASE ~(i + 1 <= Len(s))
      <3>1. i + 1 - Len(s) = i - (Len(s) - 1)
        BY <1>2
      <3> QED
        BY <1>2, <1>7, <2>1, <2>3, <3>1
    <2> QED
      BY <2>2, <2>3
  <1>9. Tail(s \o t) = Tail(s) \o t
    BY <1>2, <1>5, <1>7, <1>8, SeqEqual
  <1> QED
    BY <1>3, <1>4, <1>9

\* Pushing onto pendingFunctors_ is appending to the queue.
LEMMA AppendToConcat ==
    ASSUME NEW S, NEW s \in Seq(S), NEW t \in Seq(S), NEW e \in S
    PROVE  s \o Append(t, e) = Append(s \o t, e)
  <1>1. /\ <<e>> \in Seq(S)
        /\ Append(t, e) = t \o <<e>>
        /\ s \o t \in Seq(S)
        /\ Append(s \o t, e) = (s \o t) \o <<e>>
    BY AppendIsConcat, ConcatProperties
  <1> QED
    BY <1>1, ConcatAssociative

\* The functors of all threads, in pendingFunctors_ or in the local vector of
\* doPendingFunctors(), form one queue and are run one by one from its front.
THEOREM QueueRefinement == Spec => ImplementsFunctorQueue
  <1> DEFINE queue == functors \o pendingFunctors_
  <1>1. Init => FIFO!Init
    BY ConcatEmptySeq DEF Init, FIFO!Init, NoFunctor
  <1>2. LoopInv /\ [Next]_vars => [FIFO!Next]_FIFO!vars
    <2> SUFFICES ASSUME LoopInv, [Next]_vars
                 PROVE  [FIFO!Next]_FIFO!vars
      OBVIOUS
    <2> USE DEF FIFO!vars
    <2>0. /\ functors \in Seq(Functors)
          /\ pendingFunctors_ \in Seq(Functors)
          /\ lpc # "functors" => running = NoFunctor /\ functors = <<>>
      BY DEF LoopInv, TypeOK, BatchInPlace
    <2>1. ASSUME NEW t \in AllThreads, QueueInLoop(t) PROVE FIFO!Next
      <3>1. issued + 1 \in Functors
        BY <2>1, BoundsAssumption DEF QueueInLoop, Functors, LoopInv, TypeOK
      <3>2. queue' = Append(queue, issued + 1)
        BY <2>0, <2>1, <3>1, AppendToConcat DEF QueueInLoop, NeedsWakeup, loopVars
      <3>3. FIFO!Submit(issued + 1)
        BY <2>1, <3>2 DEF QueueInLoop, NeedsWakeup, loopVars, FIFO!Submit
      <3> QED
        BY <3>1, <3>3 DEF FIFO!Next
    <2>2. CASE DoPendingFunctors
      <3>1. functors = <<>>
        BY <2>0, <2>2 DEF DoPendingFunctors, eventHandling_
      <3>2. queue = pendingFunctors_ /\ queue' = pendingFunctors_
        BY <2>0, <2>2, <3>1, ConcatEmptySeq DEF DoPendingFunctors
      <3> QED
        BY <2>2, <3>2 DEF DoPendingFunctors
    <2>3. CASE RunFunctor
      <3>1. /\ queue # <<>>
            /\ Head(queue) = Head(functors)
            /\ Tail(queue) = Tail(functors) \o pendingFunctors_
        BY <2>0, <2>3, FrontOfConcat DEF RunFunctor
      <3>2. FIFO!Start
        BY <2>3, <3>1 DEF RunFunctor, FIFO!Start
      <3> QED
        BY <3>2 DEF FIFO!Next
    <2>4. CASE EndPendingFunctors
      BY <2>4 DEF EndPendingFunctors, FIFO!Next, FIFO!Finish
    <2>5. ASSUME NEW t \in AllThreads, Quit(t) \/ Wakeup(t) PROVE UNCHANGED FIFO!vars
      BY <2>5 DEF Quit, Wakeup, loopVars
    <2>6. ASSUME NEW c \in Channels, UpdateChannel(c) \/ RemoveChannel(c)
          PROVE  UNCHANGED FIFO!vars
      BY <2>6 DEF UpdateChannel, RemoveChannel, loopVars
    <2>7. CASE Loop \/ While \/ Poll \/ PollTimeout \/ HandleEvent \/ UNCHANGED vars
      BY <2>7 DEF Loop, While, Poll, PollTimeout, HandleEvent, vars
    <2> QED
      BY <2>1, <2>2, <2>3, <2>4, <2>5, <2>6, <2>7
         DEF Next, ThreadCall, ChannelCall, LoopStep
  <1> QED
    BY <1>1, <1>2, LoopInvariance, PTL DEF Spec, ImplementsFunctorQueue, FIFO!Spec
=============================================================================
