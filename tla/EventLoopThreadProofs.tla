----------------------- MODULE EventLoopThreadProofs -----------------------
(***************************************************************************)
(* Proofs about EventLoopThread, for every number of threads and calls,    *)
(* whether pthread_create() may fail or not and whether or not the pool    *)
(* may be destroyed before its threads loop.                               *)
(***************************************************************************)
EXTENDS EventLoopThread, SequenceTheorems, TLAPS

-----------------------------------------------------------------------------
(* The inductive invariant.                                                *)

Starting == opc \in {"start", "latch", "cond"}
Destroying == opc \in {"read", "quit", "join", "done"}

PoolTypes ==
    /\ numThreads_ \in 0..MaxThreads
    /\ loops_ \in Seq(Threads)
    /\ next_ \in Nat
    /\ opc \in {"start", "latch", "cond", "ready", "read", "quit", "join", "done"}
    /\ cur \in 1..(numThreads_ + 1)
    /\ got \in {BaseLoop} \cup Threads
    /\ handed \in [{BaseLoop} \cup Threads -> Nat]

ThreadTypes ==
    /\ tpc \in [Threads -> {"none", "created", "countDown", "callback", "publish",
                            "enter", "looping", "clear", "unlock", "ended"}]
    /\ count_ \in [Threads -> Int]
    /\ loop_ \in [Threads -> BOOLEAN]
    /\ mutex_ \in [Threads -> BOOLEAN]
    /\ quit_ \in [Threads -> BOOLEAN]
    /\ gone \in [Threads -> BOOLEAN]

\* start() takes the threads in order, and the destructors do the same: the
\* k-th loop of the pool is that of thread k.
LoopsInOrder ==
    /\ \A k \in 1..Len(loops_) : loops_[k] = k
    /\ Starting => Len(loops_) = cur - 1
    /\ ~Starting => Len(loops_) = numThreads_
    /\ opc \in {"latch", "cond", "quit", "join"} => cur <= numThreads_
    /\ opc \in {"ready", "done"} => cur = numThreads_ + 1
    /\ got # BaseLoop => opc = "ready" /\ got \in 1..numThreads_

\* Up to next_ the loops have been handed out once more than the last one.
Rounds ==
    /\ Starting => next_ = 0 /\ \A l \in {BaseLoop} \cup Threads : handed[l] = 0
    /\ next_ = 0 \/ next_ < numThreads_
    /\ \A k \in 1..numThreads_ :
          handed[k] = handed[numThreads_] + IF k <= next_ THEN 1 ELSE 0
    /\ numThreads_ > 0 => handed[BaseLoop] = 0

\* What the members of an EventLoopThread say of where its thread is.
MembersTell ==
    \A i \in Threads :
        /\ count_[i] = IF tpc[i] \in {"none", "created", "countDown"} THEN 1 ELSE 0
        /\ loop_[i] <=> tpc[i] \in {"enter", "looping", "clear"}
        /\ mutex_[i] <=> tpc[i] = "unlock"
        /\ Starting /\ (i > cur \/ (i = cur /\ opc = "start")) => tpc[i] = "none"

\* Where thread i can be: started in order, looping until the destructors
\* reach it, and ended when they have passed.
Lives(i) ==
    /\ (Starting /\ i < cur) \/ (opc = "ready" /\ i <= numThreads_) =>
          tpc[i] \in {"enter", "looping"} /\ ~quit_[i]
    /\ Starting /\ i >= cur =>
          /\ tpc[i] \in {"none", "created", "countDown", "callback", "publish", "enter",
                         "looping"}
          /\ ~quit_[i]
    /\ Destroying /\ i < cur => tpc[i] = "ended"
    /\ Destroying /\ i <= numThreads_ /\ (i > cur \/ (i = cur /\ opc # "join")) =>
          tpc[i] \in {"enter", "looping"} /\ ~quit_[i]
    /\ gone[i] => tpc[i] = "ended"

\* As long as no user code quits a loop of the pool.
PoolLives == ~UserQuits => failed = {} /\ \A i \in Threads : Lives(i)

PoolInv == /\ PoolTypes
           /\ ThreadTypes
           /\ LoopsInOrder
           /\ Rounds
           /\ MembersTell
           /\ PoolLives

-----------------------------------------------------------------------------
(* PoolInv is inductive.                                                   *)

\* A pool that has not been started has no loops and no threads.
LEMMA PoolInvInit == Init => PoolInv
  <1> SUFFICES ASSUME Init PROVE PoolInv
    OBVIOUS
  <1> USE PoolAssumption DEF Init, BaseLoop, Threads, Starting, Destroying
  <1>1. PoolTypes
    BY DEF PoolTypes
  <1>2. ThreadTypes
    BY DEF ThreadTypes
  <1>3. LoopsInOrder /\ Rounds
    BY DEF LoopsInOrder, Rounds
  <1>4. MembersTell
    BY DEF MembersTell
  <1>5. PoolLives
    BY DEF PoolLives, Lives
  <1> QED
    BY <1>1, <1>2, <1>3, <1>4, <1>5 DEF PoolInv

\* The owner's variables keep their types and its order of threads.
LEMMA OwnerStepTypes ==
    ASSUME PoolInv, [Next]_vars
    PROVE  (PoolTypes /\ LoopsInOrder)'
  <1> USE PoolAssumption DEF PoolInv, PoolTypes, LoopsInOrder, Threads, BaseLoop, Starting, Rounds
  <1>1. ASSUME NEW ok \in CreateOutcomes, Create(ok) PROVE (PoolTypes /\ LoopsInOrder)'
    BY <1>1 DEF Create, ownerVars, threadVars
  <1>2. CASE LatchWait
    BY <1>2 DEF LatchWait, Wait, ownerVars, threadVars
  <1>3. CASE startLoop
    <2>1. CASE UNCHANGED <<loops_, cur, opc>>
      BY <1>3, <2>1 DEF startLoop
    <2>2. CASE LoopStarted
      <3>0. /\ Len(loops_) = cur - 1 /\ Len(loops_) \in Nat
            /\ cur \in 1..numThreads_
            /\ cur \in Threads
        BY <1>3 DEF startLoop
      <3>1. /\ loops_' \in Seq(Threads)
            /\ Len(loops_') = Len(loops_) + 1
            /\ \A k \in 1..Len(loops_) : loops_'[k] = loops_[k]
            /\ loops_'[Len(loops_) + 1] = cur
        <4>1. loops_' = Append(loops_, cur)
          BY <2>2 DEF LoopStarted
        <4>2. cur \in Threads /\ loops_ \in Seq(Threads)
          BY <3>0
        <4> QED
          BY ONLY <4>1, <4>2, AppendProperties
      <3>2. \A k \in 1..Len(loops_') : loops_'[k] = k
        <4>1. ASSUME NEW k \in 1..Len(loops_) + 1 PROVE loops_'[k] = k
          <5>1. CASE k \in 1..Len(loops_)
            BY <3>1, <5>1
          <5>2. CASE k = Len(loops_) + 1
            BY <3>0, <3>1, <5>2
          <5> QED
            BY <3>0, <5>1, <5>2
        <4> QED
          BY <3>1, <4>1
      <3>3. /\ cur' = cur + 1 /\ opc' = "start" /\ opc = "cond"
            /\ UNCHANGED <<numThreads_, next_, got, handed>>
        BY <1>3, <2>2 DEF startLoop, LoopStarted
      <3> QED
        <4>0. cur' \in 1..(numThreads_' + 1)
          BY <3>0, <3>3
        <4>1. PoolTypes'
          BY <3>1, <3>3, <4>0, Zenon
        <4>2. LoopsInOrder'
          BY <3>0, <3>1, <3>2, <3>3
        <4> QED
          BY <4>1, <4>2
    <2> QED
      BY <1>3, <2>1, <2>2 DEF startLoop
  <1>4. CASE Started
    BY <1>4 DEF Started, ownerVars, threadVars
  <1>5. CASE ReadLoop
    <2>1. CASE opc' = "quit" /\ UNCHANGED cur
      BY <1>5, <2>1 DEF ReadLoop
    <2>2. CASE Destroyed
      BY <1>5, <2>2 DEF ReadLoop, Destroyed
    <2> QED
      BY <1>5, <2>1, <2>2 DEF ReadLoop
  <1>6. CASE QuitLoop
    BY <1>6 DEF QuitLoop, LoopExists, ownerVars, threadVars
  <1>7. CASE Join
    BY <1>7 DEF Join, Destroyed, ownerVars, threadVars
  <1>8. CASE PoolGone
    BY <1>8 DEF PoolGone, ownerVars, threadVars
  <1>9. CASE WaitReturns
    BY <1>9 DEF WaitReturns, ownerVars, threadVars
  <1>10. CASE getNextLoop
    <2>1. CASE loops_ = <<>>
      BY <1>10, <2>1 DEF getNextLoop
    <2>2. CASE loops_ # <<>>
      <3>1. Len(loops_) = numThreads_ /\ numThreads_ > 0 /\ next_ + 1 \in 1..numThreads_
        BY <1>10, <2>2, EmptySeq DEF getNextLoop
      <3>2. got' = next_ + 1
        BY <1>10, <2>2, <3>1 DEF getNextLoop
      <3> QED
        BY <1>10, <2>2, <3>1, <3>2 DEF getNextLoop, nextIndex
    <2> QED
      BY <2>1, <2>2
  <1>11. ASSUME NEW h \in Hashes, getLoopForHash(h) PROVE (PoolTypes /\ LoopsInOrder)'
    BY <1>11, SMTT(40) DEF getLoopForHash, ownerVars, threadVars
  <1>12. CASE DestroyPool
    BY <1>12 DEF DestroyPool, ownerVars, threadVars
  <1>13. ASSUME NEW i \in Threads, SetTid(i) PROVE (PoolTypes /\ LoopsInOrder)'
    BY <1>13 DEF SetTid, To, ownerVars, threadVars
  <1>14. ASSUME NEW i \in Threads, countDown(i) PROVE (PoolTypes /\ LoopsInOrder)'
    BY <1>14 DEF countDown, To, Notify, ownerVars, threadVars
  <1>15. ASSUME NEW i \in Threads, Callback(i) PROVE (PoolTypes /\ LoopsInOrder)'
    BY <1>15 DEF Callback, To, ownerVars, threadVars
  <1>16. ASSUME NEW i \in Threads, Publish(i) PROVE (PoolTypes /\ LoopsInOrder)'
    BY <1>16 DEF Publish, To, Notify, ownerVars, threadVars
  <1>17. ASSUME NEW i \in Threads, EnterLoop(i) PROVE (PoolTypes /\ LoopsInOrder)'
    BY <1>17 DEF EnterLoop, To, ownerVars, threadVars
  <1>18. ASSUME NEW i \in Threads, LeaveLoop(i) PROVE (PoolTypes /\ LoopsInOrder)'
    BY <1>18 DEF LeaveLoop, To, ownerVars, threadVars
  <1>19. ASSUME NEW i \in Threads, ClearLoop(i) PROVE (PoolTypes /\ LoopsInOrder)'
    BY <1>19 DEF ClearLoop, To, Touch, ownerVars, threadVars
  <1>20. ASSUME NEW i \in Threads, EndThread(i) PROVE (PoolTypes /\ LoopsInOrder)'
    BY <1>20 DEF EndThread, To, Touch, ownerVars, threadVars
  <1>21. CASE Finished \/ UNCHANGED vars
    <2>1. UNCHANGED vars
      BY <1>21 DEF Finished
    <2> QED
      BY <2>1 DEF vars, ownerVars, threadVars
  <1> QED
    BY <1>1, <1>2, <1>3, <1>4, <1>5, <1>6, <1>7, <1>8, <1>9, <1>10, <1>11, <1>12,
       <1>13, <1>14, <1>15, <1>16, <1>17, <1>18, <1>19, <1>20, <1>21
       DEF Next, OwnerStep, Use, ThreadStep

\* The members of the threads keep their types.
LEMMA ThreadStepTypes ==
    ASSUME PoolInv, [Next]_vars
    PROVE  ThreadTypes'
  <1> USE DEF PoolInv, PoolTypes, ThreadTypes, LoopsInOrder, Threads, Starting
  <1>1. ASSUME NEW ok \in CreateOutcomes, Create(ok) PROVE ThreadTypes'
    BY <1>1 DEF Create, ownerVars, threadVars
  <1>2. CASE LatchWait
    BY <1>2 DEF LatchWait, Wait, ownerVars, threadVars
  <1>3. CASE startLoop
    BY <1>3 DEF startLoop, Wait, LoopStarted, ownerVars, threadVars
  <1>4. CASE Started
    BY <1>4 DEF Started, ownerVars, threadVars
  <1>5. CASE ReadLoop
    BY <1>5 DEF ReadLoop, Destroyed, ownerVars, threadVars
  <1>6. CASE QuitLoop
    BY <1>6 DEF QuitLoop, LoopExists, ownerVars, threadVars
  <1>7. CASE Join
    BY <1>7 DEF Join, Destroyed, ownerVars, threadVars
  <1>8. CASE PoolGone
    BY <1>8 DEF PoolGone, ownerVars, threadVars
  <1>9. CASE WaitReturns
    BY <1>9 DEF WaitReturns, ownerVars, threadVars
  <1>10. CASE getNextLoop
    BY <1>10 DEF getNextLoop, nextIndex, ownerVars, threadVars
  <1>11. ASSUME NEW h \in Hashes, getLoopForHash(h) PROVE ThreadTypes'
    BY <1>11 DEF getLoopForHash, ownerVars, threadVars
  <1>12. CASE DestroyPool
    BY <1>12 DEF DestroyPool, ownerVars, threadVars
  <1>13. ASSUME NEW i \in Threads, SetTid(i) PROVE ThreadTypes'
    BY <1>13 DEF SetTid, To, ownerVars, threadVars
  <1>14. ASSUME NEW i \in Threads, countDown(i) PROVE ThreadTypes'
    BY <1>14 DEF countDown, To, Notify, ownerVars, threadVars
  <1>15. ASSUME NEW i \in Threads, Callback(i) PROVE ThreadTypes'
    BY <1>15 DEF Callback, To, ownerVars, threadVars
  <1>16. ASSUME NEW i \in Threads, Publish(i) PROVE ThreadTypes'
    BY <1>16 DEF Publish, To, Notify, ownerVars, threadVars
  <1>17. ASSUME NEW i \in Threads, EnterLoop(i) PROVE ThreadTypes'
    BY <1>17 DEF EnterLoop, To, ownerVars, threadVars
  <1>18. ASSUME NEW i \in Threads, LeaveLoop(i) PROVE ThreadTypes'
    BY <1>18 DEF LeaveLoop, To, ownerVars, threadVars
  <1>19. ASSUME NEW i \in Threads, ClearLoop(i) PROVE ThreadTypes'
    BY <1>19 DEF ClearLoop, To, Touch, ownerVars, threadVars
  <1>20. ASSUME NEW i \in Threads, EndThread(i) PROVE ThreadTypes'
    BY <1>20 DEF EndThread, To, Touch, ownerVars, threadVars
  <1>21. CASE Finished \/ UNCHANGED vars
    <2>1. UNCHANGED vars
      BY <1>21 DEF Finished
    <2> QED
      BY <2>1 DEF vars, ownerVars, threadVars
  <1> QED
    BY <1>1, <1>2, <1>3, <1>4, <1>5, <1>6, <1>7, <1>8, <1>9, <1>10, <1>11, <1>12,
       <1>13, <1>14, <1>15, <1>16, <1>17, <1>18, <1>19, <1>20, <1>21
       DEF Next, OwnerStep, Use, ThreadStep

\* getNextLoop() goes round.
LEMMA RoundsStep ==
    ASSUME PoolInv, [Next]_vars
    PROVE  Rounds'
  <1> USE PoolAssumption DEF PoolInv, PoolTypes, LoopsInOrder, Rounds, Threads, BaseLoop, Starting
  <1>1. ASSUME NEW ok \in CreateOutcomes, Create(ok) PROVE Rounds'
    BY <1>1 DEF Create, ownerVars, threadVars
  <1>2. CASE LatchWait
    BY <1>2 DEF LatchWait, Wait, ownerVars, threadVars
  <1>3. CASE startLoop
    BY <1>3 DEF startLoop, Wait, LoopStarted, ownerVars, threadVars
  <1>4. CASE Started
    BY <1>4 DEF Started, ownerVars, threadVars
  <1>5. CASE ReadLoop
    BY <1>5 DEF ReadLoop, Destroyed, ownerVars, threadVars
  <1>6. CASE QuitLoop
    BY <1>6 DEF QuitLoop, LoopExists, ownerVars, threadVars
  <1>7. CASE Join
    BY <1>7 DEF Join, Destroyed, ownerVars, threadVars
  <1>8. CASE PoolGone
    BY <1>8 DEF PoolGone, ownerVars, threadVars
  <1>9. CASE WaitReturns
    BY <1>9 DEF WaitReturns, ownerVars, threadVars
  <1>10. CASE getNextLoop
    <2>1. CASE loops_ = <<>>
      BY <1>10, <2>1 DEF getNextLoop
    <2>2. CASE loops_ # <<>>
      <3>1. Len(loops_) = numThreads_ /\ numThreads_ > 0 /\ next_ + 1 \in 1..numThreads_
        BY <1>10, <2>2, EmptySeq DEF getNextLoop
      <3>2. handed' = [handed EXCEPT ![next_ + 1] = @ + 1]
        BY <1>10, <2>2, <3>1 DEF getNextLoop
      <3> QED
        BY <1>10, <2>2, <3>1, <3>2, SMTT(40) DEF getNextLoop, nextIndex
    <2> QED
      BY <2>1, <2>2
  <1>11. ASSUME NEW h \in Hashes, getLoopForHash(h) PROVE Rounds'
    BY <1>11 DEF getLoopForHash, ownerVars, threadVars
  <1>12. CASE DestroyPool
    BY <1>12 DEF DestroyPool, ownerVars, threadVars
  <1>13. ASSUME NEW i \in Threads, SetTid(i) PROVE Rounds'
    BY <1>13 DEF SetTid, To, ownerVars, threadVars
  <1>14. ASSUME NEW i \in Threads, countDown(i) PROVE Rounds'
    BY <1>14 DEF countDown, To, Notify, ownerVars, threadVars
  <1>15. ASSUME NEW i \in Threads, Callback(i) PROVE Rounds'
    BY <1>15 DEF Callback, To, ownerVars, threadVars
  <1>16. ASSUME NEW i \in Threads, Publish(i) PROVE Rounds'
    BY <1>16 DEF Publish, To, Notify, ownerVars, threadVars
  <1>17. ASSUME NEW i \in Threads, EnterLoop(i) PROVE Rounds'
    BY <1>17 DEF EnterLoop, To, ownerVars, threadVars
  <1>18. ASSUME NEW i \in Threads, LeaveLoop(i) PROVE Rounds'
    BY <1>18 DEF LeaveLoop, To, ownerVars, threadVars
  <1>19. ASSUME NEW i \in Threads, ClearLoop(i) PROVE Rounds'
    BY <1>19 DEF ClearLoop, To, Touch, ownerVars, threadVars
  <1>20. ASSUME NEW i \in Threads, EndThread(i) PROVE Rounds'
    BY <1>20 DEF EndThread, To, Touch, ownerVars, threadVars
  <1>21. CASE Finished \/ UNCHANGED vars
    <2>1. UNCHANGED vars
      BY <1>21 DEF Finished
    <2> QED
      BY <2>1 DEF vars, ownerVars, threadVars
  <1> QED
    BY <1>1, <1>2, <1>3, <1>4, <1>5, <1>6, <1>7, <1>8, <1>9, <1>10, <1>11, <1>12,
       <1>13, <1>14, <1>15, <1>16, <1>17, <1>18, <1>19, <1>20, <1>21
       DEF Next, OwnerStep, Use, ThreadStep

\* count_, loop_ and mutex_ follow the thread.
LEMMA MembersStep ==
    ASSUME PoolInv, [Next]_vars
    PROVE  MembersTell'
  <1> USE PoolAssumption DEF PoolInv, PoolTypes, ThreadTypes, LoopsInOrder, MembersTell, Threads, Starting
  <1>1. ASSUME NEW ok \in CreateOutcomes, Create(ok) PROVE MembersTell'
    BY <1>1 DEF Create, ownerVars, threadVars
  <1>2. CASE LatchWait
    BY <1>2 DEF LatchWait, Wait, ownerVars, threadVars
  <1>3. CASE startLoop
    BY <1>3 DEF startLoop, Wait, LoopStarted, ownerVars, threadVars
  <1>4. CASE Started
    BY <1>4 DEF Started, ownerVars, threadVars
  <1>5. CASE ReadLoop
    BY <1>5 DEF ReadLoop, Destroyed, ownerVars, threadVars
  <1>6. CASE QuitLoop
    BY <1>6 DEF QuitLoop, LoopExists, ownerVars, threadVars
  <1>7. CASE Join
    BY <1>7 DEF Join, Destroyed, ownerVars, threadVars
  <1>8. CASE PoolGone
    BY <1>8 DEF PoolGone, ownerVars, threadVars
  <1>9. CASE WaitReturns
    BY <1>9 DEF WaitReturns, ownerVars, threadVars
  <1>10. CASE getNextLoop
    BY <1>10 DEF getNextLoop, nextIndex, ownerVars, threadVars
  <1>11. ASSUME NEW h \in Hashes, getLoopForHash(h) PROVE MembersTell'
    BY <1>11 DEF getLoopForHash, ownerVars, threadVars
  <1>12. CASE DestroyPool
    BY <1>12 DEF DestroyPool, ownerVars, threadVars
  <1>13. ASSUME NEW i \in Threads, SetTid(i) PROVE MembersTell'
    BY <1>13 DEF SetTid, To, ownerVars, threadVars
  <1>14. ASSUME NEW i \in Threads, countDown(i) PROVE MembersTell'
    BY <1>14, SMTT(40) DEF countDown, To, Notify, ownerVars, threadVars
  <1>15. ASSUME NEW i \in Threads, Callback(i) PROVE MembersTell'
    BY <1>15 DEF Callback, To, ownerVars, threadVars
  <1>16. ASSUME NEW i \in Threads, Publish(i) PROVE MembersTell'
    BY <1>16 DEF Publish, To, Notify, ownerVars, threadVars
  <1>17. ASSUME NEW i \in Threads, EnterLoop(i) PROVE MembersTell'
    BY <1>17 DEF EnterLoop, To, ownerVars, threadVars
  <1>18. ASSUME NEW i \in Threads, LeaveLoop(i) PROVE MembersTell'
    BY <1>18 DEF LeaveLoop, To, ownerVars, threadVars
  <1>19. ASSUME NEW i \in Threads, ClearLoop(i) PROVE MembersTell'
    BY <1>19 DEF ClearLoop, To, Touch, ownerVars, threadVars
  <1>20. ASSUME NEW i \in Threads, EndThread(i) PROVE MembersTell'
    BY <1>20 DEF EndThread, To, Touch, ownerVars, threadVars
  <1>21. CASE Finished \/ UNCHANGED vars
    <2>1. UNCHANGED vars
      BY <1>21 DEF Finished
    <2> QED
      BY <2>1 DEF vars, ownerVars, threadVars
  <1> QED
    BY <1>1, <1>2, <1>3, <1>4, <1>5, <1>6, <1>7, <1>8, <1>9, <1>10, <1>11, <1>12,
       <1>13, <1>14, <1>15, <1>16, <1>17, <1>18, <1>19, <1>20, <1>21
       DEF Next, OwnerStep, Use, ThreadStep

\* No thread leaves its loop before its destructor asks it to, and no
\* destructor passes a thread that has not ended.
LEMMA LivesStep ==
    ASSUME PoolInv, [Next]_vars
    PROVE  PoolLives'
  <1> USE PoolAssumption DEF PoolInv, PoolTypes, ThreadTypes, LoopsInOrder, MembersTell, PoolLives, Lives, Threads,
          Starting, Destroying
  <1>1. ASSUME NEW ok \in CreateOutcomes, Create(ok) PROVE PoolLives'
    BY <1>1 DEF Create, ownerVars, threadVars
  <1>2. CASE LatchWait
    <2>0. cur \in Threads /\ opc = "latch"
      BY <1>2 DEF LatchWait
    <2>2. tpc[cur] = "created" => count_[cur] > 0
      BY <2>0
    <2>1. ~UserQuits => failed' = {}
      BY <1>2, <2>2 DEF LatchWait
    <2> QED
      BY <1>2, <2>1 DEF LatchWait, ownerVars, threadVars
  <1>3. CASE startLoop
    BY <1>3 DEF startLoop, Wait, LoopStarted, ownerVars, threadVars
  <1>4. CASE Started
    BY <1>4 DEF Started, ownerVars, threadVars
  <1>5. CASE ReadLoop
    <2>1. cur \in Threads /\ cur <= numThreads_ /\ opc = "read"
      BY <1>5 DEF ReadLoop
    <2>2. ~UserQuits => tpc[cur] \in {"enter", "looping"}
      BY <2>1
    <2>3. ~UserQuits => loop_[cur]
      BY <2>1, <2>2
    <2> QED
      BY <1>5, <2>1, <2>3 DEF ReadLoop, threadVars
  <1>6. CASE QuitLoop
    <2>0. cur \in Threads /\ cur <= numThreads_ /\ opc = "quit"
      BY <1>6 DEF QuitLoop
    <2>1. ~UserQuits => LoopExists(cur)
      BY <2>0 DEF LoopExists
    <2> QED
      BY <1>6, <2>1 DEF QuitLoop, ownerVars
  <1>7. CASE Join
    BY <1>7 DEF Join, Destroyed, ownerVars, threadVars
  <1>8. CASE PoolGone
    BY <1>8 DEF PoolGone, ownerVars, threadVars
  <1>9. CASE WaitReturns
    BY <1>9 DEF WaitReturns, ownerVars, threadVars
  <1>10. CASE getNextLoop
    BY <1>10 DEF getNextLoop, nextIndex, ownerVars, threadVars
  <1>11. ASSUME NEW h \in Hashes, getLoopForHash(h) PROVE PoolLives'
    BY <1>11 DEF getLoopForHash, ownerVars, threadVars
  <1>12. CASE DestroyPool
    BY <1>12 DEF DestroyPool, ownerVars, threadVars
  <1>13. ASSUME NEW i \in Threads, SetTid(i) PROVE PoolLives'
    BY <1>13 DEF SetTid, To, ownerVars, threadVars
  <1>14. ASSUME NEW i \in Threads, countDown(i) PROVE PoolLives'
    BY <1>14 DEF countDown, To, Notify, ownerVars, threadVars
  <1>15. ASSUME NEW i \in Threads, Callback(i) PROVE PoolLives'
    BY <1>15 DEF Callback, To, ownerVars, threadVars
  <1>16. ASSUME NEW i \in Threads, Publish(i) PROVE PoolLives'
    BY <1>16 DEF Publish, To, Notify, ownerVars, threadVars
  <1>17. ASSUME NEW i \in Threads, EnterLoop(i) PROVE PoolLives'
    BY <1>17 DEF EnterLoop, To, ownerVars, threadVars
  <1>18. ASSUME NEW i \in Threads, LeaveLoop(i) PROVE PoolLives'
    BY <1>18 DEF LeaveLoop, To, ownerVars, threadVars
  <1>19. ASSUME NEW i \in Threads, ClearLoop(i) PROVE PoolLives'
    BY <1>19 DEF ClearLoop, To, Touch, ownerVars, threadVars
  <1>20. ASSUME NEW i \in Threads, EndThread(i) PROVE PoolLives'
    BY <1>20 DEF EndThread, To, Touch, ownerVars, threadVars
  <1>21. CASE Finished \/ UNCHANGED vars
    <2>1. UNCHANGED vars
      BY <1>21 DEF Finished
    <2> QED
      BY <2>1 DEF vars, ownerVars, threadVars
  <1> QED
    BY <1>1, <1>2, <1>3, <1>4, <1>5, <1>6, <1>7, <1>8, <1>9, <1>10, <1>11, <1>12,
       <1>13, <1>14, <1>15, <1>16, <1>17, <1>18, <1>19, <1>20, <1>21
       DEF Next, OwnerStep, Use, ThreadStep

-----------------------------------------------------------------------------
(* The invariants of EventLoopThread.                                      *)

\* PoolInv holds in every reachable state of the pool and its threads.
THEOREM PoolInvariance == Spec => []PoolInv
  <1>1. Init => PoolInv
    BY PoolInvInit
  <1>2. PoolInv /\ [Next]_vars => PoolInv'
    BY OwnerStepTypes, ThreadStepTypes, RoundsStep, MembersStep, LivesStep DEF PoolInv
  <1> QED
    BY <1>1, <1>2, PTL DEF Spec

\* getNextLoop() never gives one loop two connections more than another, for
\* any number of threads, even if user code quits loops.
THEOREM SpreadsEvenly == Spec => []RoundRobin
  <1>1. PoolInv => RoundRobin
    <2> SUFFICES ASSUME PoolInv, opc = "ready"
                 PROVE  /\ \A k, l \in 1..numThreads_ : handed[k] <= handed[l] + 1
                        /\ handed[BaseLoop] > 0 => numThreads_ = 0
      BY DEF RoundRobin
    <2>1. /\ numThreads_ \in Nat
          /\ numThreads_ > 0 => handed[numThreads_] \in Nat /\ handed[BaseLoop] = 0
      BY PoolAssumption DEF PoolInv, PoolTypes, Rounds, Threads
    <2> QED
      BY <2>1 DEF PoolInv, Rounds
  <1> QED
    BY <1>1, PoolInvariance, PTL

\* If user code does not quit the loops of the pool, every loop the pool has
\* or hands out exists and is looping or about to, however the threads
\* interleave with start(), with each other and with the destructors.
THEOREM LoopsAreLive == ASSUME ~UserQuits PROVE Spec => []LoopsLive
  <1>1. PoolInv => LoopsLive
    <2> SUFFICES ASSUME PoolInv PROVE LoopsLive
      OBVIOUS
    <2>1. /\ failed = {}
          /\ \A i \in Threads : Lives(i)
      BY DEF PoolInv, PoolLives
    <2>2. ASSUME opc \in {"start", "latch", "cond", "ready"}, NEW k \in DOMAIN loops_
          PROVE  tpc[loops_[k]] \in {"enter", "looping"}
      <3>1. k \in 1..Len(loops_) /\ loops_[k] = k
        BY DEF PoolInv, PoolTypes, LoopsInOrder
      <3>2. k \in Threads /\ (opc = "ready" => k <= numThreads_) /\ (opc # "ready" => k < cur)
        BY <2>2, <3>1, PoolAssumption
           DEF PoolInv, PoolTypes, LoopsInOrder, Starting, Threads
      <3> QED
        BY <2>1, <2>2, <3>1, <3>2 DEF Lives, Starting
    <2>3. got # BaseLoop => tpc[got] \in {"enter", "looping"}
      <3>1. got # BaseLoop => got \in Threads /\ opc = "ready" /\ got <= numThreads_
        BY PoolAssumption DEF PoolInv, PoolTypes, LoopsInOrder, Threads
      <3> QED
        BY <2>1, <3>1 DEF Lives
    <2>4. opc = "ready" => Len(loops_) = numThreads_
      BY DEF PoolInv, LoopsInOrder, Starting
    <2> QED
      BY <2>1, <2>2, <2>3, <2>4 DEF LoopsLive
  <1> QED
    BY <1>1, PoolInvariance, PTL

\* Under the same assumption the destructors leave no thread behind, and no
\* thread touches an EventLoopThread that is gone.
THEOREM AllJoined == ASSUME ~UserQuits PROVE Spec => []Joined
  <1>1. PoolInv => Joined
    <2> SUFFICES ASSUME PoolInv PROVE Joined
      OBVIOUS
    <2>1. /\ failed = {}
          /\ \A i \in Threads : Lives(i)
      BY DEF PoolInv, PoolLives
    <2>2. opc = "done" => \A i \in 1..numThreads_ : i \in Threads /\ i < cur
      BY PoolAssumption DEF PoolInv, PoolTypes, LoopsInOrder, Threads
    <2> QED
      BY <2>1, <2>2 DEF Joined, Lives, Destroying
  <1> QED
    BY <1>1, PoolInvariance, PTL
=============================================================================
