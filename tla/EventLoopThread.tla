--------------------------- MODULE EventLoopThread ---------------------------
(***************************************************************************)
(* EventLoopThreadPool in its owner's thread and the threads it starts,    *)
(* each an EventLoopThread with the Thread, CountDownLatch, MutexLock and  *)
(* Condition it is made of.                                                *)
(*                                                                         *)
(* startLoop() waits twice: in Thread::start() on the latch, for the       *)
(* thread to run, and on cond_, for its EventLoop to exist.  A wait on a   *)
(* condition may end without a notification.  A critical section is one    *)
(* step, but for the last one of threadFunc(), as the destructor reads     *)
(* loop_ without the mutex.                                                *)
(***************************************************************************)
EXTENDS Integers, Sequences, FiniteSets

CONSTANTS MaxThreads,        \* bound: setThreadNum()
          MaxCalls,          \* bound: calls that ask the pool for a loop
          Hashes,            \* hash codes the user asks for
          CreateOutcomes,    \* of pthread_create(): TRUE, and FALSE if it may fail
          UserQuits,         \* user code in a loop may quit() it
          DestroyBeforeLoop  \* the pool may be destroyed before its threads loop

ASSUME PoolAssumption == /\ MaxThreads \in Nat
                         /\ MaxCalls \in Nat
                         /\ Hashes \subseteq Nat
                         /\ CreateOutcomes \subseteq BOOLEAN
                         /\ {UserQuits, DestroyBeforeLoop} \subseteq BOOLEAN

Threads == 1..MaxThreads
BaseLoop == 0

VARIABLES
    numThreads_,
    loops_,     \* the threads whose loops the pool has
    next_,
    opc,        \* the owner: "start", "latch", "cond", "ready", "read", "quit", "join", "done"
    cur,        \* the thread the owner is starting or destroying
    notified,   \* the owner's wait has been notified; "none", "waiting", "notified"
    got,        \* the loop getNextLoop() or getLoopForHash() returned last
    handed,     \* handed[l]: how often getNextLoop() returned l
    calls,
    tpc,        \* tpc[i]: thread i, see threadFunc()
    count_,     \* count_[i]: of the latch of thread i
    loop_,      \* loop_[i]: not null
    mutex_,     \* mutex_[i]: held by thread i in its last critical section
    quit_,      \* quit_[i]: EventLoop::quit_ of its loop
    gone,       \* gone[i]: the EventLoopThread has been destroyed
    failed

ownerVars == <<numThreads_, loops_, next_, cur, got, handed, calls>>
threadVars == <<tpc, count_, loop_, mutex_, quit_>>
vars == <<ownerVars, opc, notified, threadVars, gone, failed>>

Init == /\ numThreads_ \in 0..MaxThreads
        /\ loops_ = <<>>
        /\ next_ = 0
        /\ opc = "start"
        /\ cur = 1
        /\ notified = "none"
        /\ got = BaseLoop
        /\ handed = [l \in {BaseLoop} \cup Threads |-> 0]
        /\ calls = 0
        /\ tpc = [i \in Threads |-> "none"]
        /\ count_ = [i \in Threads |-> 1]
        /\ loop_ = [i \in Threads |-> FALSE]
        /\ mutex_ = [i \in Threads |-> FALSE]
        /\ quit_ = [i \in Threads |-> FALSE]
        /\ gone = [i \in Threads |-> FALSE]
        /\ failed = {}

\* The EventLoop on the stack of thread i exists, and its callback has run.
LoopExists(i) == tpc[i] \in {"publish", "enter", "looping", "clear", "unlock"}

-----------------------------------------------------------------------------
(* The owner.                                                              *)

\* EventLoopThreadPool::start() and Thread::start() for thread cur.  A failed
\* pthread_create() is only reported: startLoop() goes on to wait for the loop.
Create(ok) ==
    /\ opc = "start"
    /\ cur <= numThreads_
    /\ opc' = IF ok THEN "latch" ELSE "cond"
    /\ tpc' = [tpc EXCEPT ![cur] = IF ok THEN "created" ELSE @]
    /\ UNCHANGED <<ownerVars, notified, count_, loop_, mutex_, quit_, gone, failed>>

\* Condition::wait() is entered, or left: notified, or for no reason.
Wait == notified' = "waiting"
WaitReturns ==
    /\ opc \in {"latch", "cond"}
    /\ notified # "none"
    /\ notified' = "none"
    /\ UNCHANGED <<ownerVars, opc, threadVars, gone, failed>>

\* CountDownLatch::wait() takes its mutex and tests count_; Thread::start()
\* then asserts that tid_ is set.
LatchWait ==
    /\ opc = "latch"
    /\ notified = "none"
    /\ IF count_[cur] > 0 THEN Wait /\ UNCHANGED <<opc, failed>>
       ELSE /\ opc' = "cond"
            /\ failed' = IF tpc[cur] = "created" THEN failed \cup {"tid_"} ELSE failed
            /\ UNCHANGED notified
    /\ UNCHANGED <<ownerVars, threadVars, gone>>

\* The pool takes the loop and goes on with the next thread.
LoopStarted ==
    /\ loops_' = Append(loops_, cur)
    /\ cur' = cur + 1
    /\ opc' = "start"

\* Mutant: loop_ is not tested again after a wait.
startLoopIf ==
    /\ opc = "cond"
    /\ ~mutex_[cur]
    /\ notified = "none"
    /\ \/ Wait /\ UNCHANGED <<loops_, cur, opc>>
       \/ LoopStarted /\ UNCHANGED notified
    /\ UNCHANGED <<numThreads_, next_, got, handed, calls, threadVars, gone, failed>>

\* The rest of startLoop().
startLoop ==
    /\ opc = "cond"
    /\ ~mutex_[cur]
    /\ notified = "none"
    /\ IF ~loop_[cur] THEN Wait /\ UNCHANGED <<loops_, cur, opc>>
       ELSE LoopStarted /\ UNCHANGED notified
    /\ UNCHANGED <<numThreads_, next_, got, handed, calls, threadVars, gone, failed>>

Started ==
    /\ opc = "start"
    /\ cur > numThreads_
    /\ opc' = "ready"
    /\ UNCHANGED <<ownerVars, notified, threadVars, gone, failed>>

\* Mutant: the round stays at the last loop.
nextIndexStays == IF next_ + 1 >= Len(loops_) THEN Len(loops_) - 1 ELSE next_ + 1

nextIndex == IF next_ + 1 >= Len(loops_) THEN 0 ELSE next_ + 1

getNextLoop ==
    /\ opc = "ready"
    /\ calls < MaxCalls
    /\ calls' = calls + 1
    /\ IF loops_ = <<>> THEN got' = BaseLoop /\ UNCHANGED next_
       ELSE got' = loops_[next_ + 1] /\ next_' = nextIndex
    /\ handed' = [handed EXCEPT ![got'] = @ + 1]
    /\ UNCHANGED <<numThreads_, loops_, opc, cur, notified, threadVars, gone, failed>>

getLoopForHash(hashCode) ==
    /\ opc = "ready"
    /\ calls < MaxCalls
    /\ calls' = calls + 1
    /\ got' = IF loops_ = <<>> THEN BaseLoop ELSE loops_[(hashCode % Len(loops_)) + 1]
    /\ UNCHANGED <<numThreads_, loops_, next_, opc, cur, notified, handed, threadVars, gone, failed>>

\* The pool is destroyed, and with it its EventLoopThreads, one by one.
DestroyPool ==
    /\ opc = "ready"
    /\ DestroyBeforeLoop \/ \A i \in 1..numThreads_ : tpc[i] # "enter"
    /\ opc' = "read"
    /\ cur' = 1
    /\ got' = BaseLoop
    /\ UNCHANGED <<numThreads_, loops_, next_, notified, handed, calls, threadVars, gone, failed>>

\* ~EventLoopThread(), then ~Thread(), which detaches a thread not joined:
\* the owner goes on to the next one.
Destroyed ==
    /\ gone' = [gone EXCEPT ![cur] = TRUE]
    /\ cur' = cur + 1
    /\ opc' = "read"

\* ~EventLoopThread() reads loop_ without the mutex,
ReadLoop ==
    /\ opc = "read"
    /\ cur <= numThreads_
    /\ IF loop_[cur] THEN opc' = "quit" /\ UNCHANGED <<cur, gone>>
       ELSE Destroyed
    /\ UNCHANGED <<numThreads_, loops_, next_, notified, got, handed, calls, threadVars, failed>>

\* calls quit() on it,
QuitLoop ==
    /\ opc = "quit"
    /\ opc' = "join"
    /\ IF LoopExists(cur) THEN quit_' = [quit_ EXCEPT ![cur] = TRUE] /\ UNCHANGED failed
       ELSE failed' = failed \cup {"quit"} /\ UNCHANGED quit_
    /\ UNCHANGED <<ownerVars, notified, tpc, count_, loop_, mutex_, gone>>

\* Mutant: the thread is detached.
JoinNothing ==
    /\ opc = "join"
    /\ Destroyed
    /\ UNCHANGED <<numThreads_, loops_, next_, notified, got, handed, calls, threadVars, failed>>

\* and joins the thread.
Join ==
    /\ opc = "join"
    /\ tpc[cur] = "ended"
    /\ Destroyed
    /\ UNCHANGED <<numThreads_, loops_, next_, notified, got, handed, calls, threadVars, failed>>

PoolGone ==
    /\ opc = "read"
    /\ cur > numThreads_
    /\ opc' = "done"
    /\ UNCHANGED <<ownerVars, notified, threadVars, gone, failed>>

-----------------------------------------------------------------------------
(* Thread i.                                                               *)

\* Condition::notify(), when the owner is waiting on this condition.
Notify(i, pc) == notified' = IF cur = i /\ opc = pc /\ notified = "waiting"
                               THEN "notified" ELSE notified

To(i, from, to) == tpc[i] = from /\ tpc' = [tpc EXCEPT ![i] = to]

\* ThreadData::runInThread() sets tid_,
SetTid(i) ==
    /\ To(i, "created", "countDown")
    /\ UNCHANGED <<ownerVars, opc, notified, count_, loop_, mutex_, quit_, gone, failed>>

\* and counts the latch down; then threadFunc() makes its EventLoop.
countDown(i) ==
    /\ To(i, "countDown", "callback")
    /\ count_' = [count_ EXCEPT ![i] = @ - 1]
    /\ IF count_'[i] = 0 THEN Notify(i, "latch") ELSE UNCHANGED notified
    /\ UNCHANGED <<ownerVars, opc, loop_, mutex_, quit_, gone, failed>>

\* The ThreadInitCallback.
Callback(i) ==
    /\ To(i, "callback", "publish")
    /\ UNCHANGED <<ownerVars, opc, notified, count_, loop_, mutex_, quit_, gone, failed>>

\* Mutant: nobody is told.
PublishSilently(i) ==
    /\ To(i, "publish", "enter")
    /\ loop_' = [loop_ EXCEPT ![i] = TRUE]
    /\ UNCHANGED <<ownerVars, opc, notified, count_, mutex_, quit_, gone, failed>>

\* loop_ is set and the owner notified, under the mutex.
Publish(i) ==
    /\ To(i, "publish", "enter")
    /\ loop_' = [loop_ EXCEPT ![i] = TRUE]
    /\ Notify(i, "cond")
    /\ UNCHANGED <<ownerVars, opc, count_, mutex_, quit_, gone, failed>>

\* EventLoop::loop() begins by clearing quit_,
EnterLoop(i) ==
    /\ To(i, "enter", "looping")
    /\ quit_' = [quit_ EXCEPT ![i] = FALSE]
    /\ UNCHANGED <<ownerVars, opc, notified, count_, loop_, mutex_, gone, failed>>

\* and returns when it finds it set, by quit() in the owner or in a callback.
LeaveLoop(i) ==
    /\ quit_[i] \/ UserQuits
    /\ To(i, "looping", "clear")
    /\ UNCHANGED <<ownerVars, opc, notified, count_, loop_, mutex_, quit_, gone, failed>>

\* The members of the EventLoopThread are used: it had better exist.
Touch(i) == failed' = IF gone[i] THEN failed \cup {"members"} ELSE failed

ClearLoop(i) ==
    /\ To(i, "clear", "unlock")
    /\ Touch(i)
    /\ mutex_' = [mutex_ EXCEPT ![i] = TRUE]
    /\ loop_' = [loop_ EXCEPT ![i] = FALSE]
    /\ UNCHANGED <<ownerVars, opc, notified, count_, quit_, gone>>

\* The guard unlocks the mutex and the EventLoop is destroyed.
EndThread(i) ==
    /\ To(i, "unlock", "ended")
    /\ Touch(i)
    /\ mutex_' = [mutex_ EXCEPT ![i] = FALSE]
    /\ UNCHANGED <<ownerVars, opc, notified, count_, loop_, quit_, gone>>

-----------------------------------------------------------------------------
Use == getNextLoop \/ \E h \in Hashes : getLoopForHash(h)

OwnerStep == \/ \E ok \in CreateOutcomes : Create(ok)
             \/ LatchWait \/ startLoop \/ Started
             \/ ReadLoop \/ QuitLoop \/ Join \/ PoolGone

ThreadStep(i) == \/ SetTid(i) \/ countDown(i) \/ Callback(i) \/ Publish(i)
                 \/ EnterLoop(i) \/ LeaveLoop(i) \/ ClearLoop(i) \/ EndThread(i)

Finished == opc = "done" /\ UNCHANGED vars

Next == \/ OwnerStep
        \/ WaitReturns
        \/ Use
        \/ DestroyPool
        \/ \E i \in Threads : ThreadStep(i)
        \/ Finished

Spec == Init /\ [][Next]_vars

\* The threads run; a notified wait returns; the owner ends its pool some day.
Fairness == /\ WF_vars(OwnerStep)
            /\ WF_vars(notified = "notified" /\ WaitReturns)
            /\ \A i \in Threads : WF_vars(ThreadStep(i))

FairSpec == Spec /\ Fairness

-----------------------------------------------------------------------------
(* Properties.                                                             *)

\* Every loop the pool has, and every loop it hands out, is an EventLoop that
\* exists, whose thread has run the init callback and is looping or about to;
\* tid_ is set when start() returns.
LoopsLive ==
    /\ failed = {}
    /\ opc \in {"start", "latch", "cond", "ready"} =>
         \A k \in DOMAIN loops_ : tpc[loops_[k]] \in {"enter", "looping"}
    /\ got # BaseLoop => tpc[got] \in {"enter", "looping"}
    /\ opc = "ready" => Len(loops_) = numThreads_

\* getNextLoop() spreads connections evenly, and uses the base loop only when
\* there are no threads.
RoundRobin ==
    opc = "ready" =>
      /\ \A k, l \in 1..numThreads_ : handed[k] <= handed[l] + 1
      /\ handed[BaseLoop] > 0 => numThreads_ = 0

\* When the pool is gone no thread of it is left, and no thread has used the
\* members of an EventLoopThread that was destroyed.
Joined ==
    /\ opc = "done" => \A i \in 1..numThreads_ : tpc[i] = "ended"
    /\ "members" \notin failed

\* startLoop() returns for every thread, and the destructors return.
OwnerProceeds == /\ (opc = "start") ~> (opc = "ready")
                 /\ (opc = "read") ~> (opc = "done")
=============================================================================
