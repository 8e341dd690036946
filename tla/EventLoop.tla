------------------------------ MODULE EventLoop ------------------------------
(***************************************************************************)
(* muduo::net::EventLoop: one thread runs loop(), any thread may call      *)
(* queueInLoop(), runInLoop() and quit().  The calls of the other threads  *)
(* are split where the loop thread can interleave: a functor is pushed     *)
(* under mutex_, and the wakeup is written to the eventfd after the unlock.*)
(*                                                                         *)
(* Functors are numbered in the order in which they are pushed.  A functor *)
(* and the callback of a channel are user code: while one runs, the loop   *)
(* thread may itself call the operations below, any number of times.       *)
(***************************************************************************)
EXTENDS Integers, Sequences, FiniteSets, SequencesExt

CONSTANTS Threads,        \* the other threads that hold a pointer to the loop
          LoopThread,     \* the thread that created the loop (threadId_)
          Channels,       \* channels other than wakeupChannel_
          WakeupChannel,  \* wakeupChannel_
          NoChannel,      \* nullptr
          MaxFunctors,    \* bound: functors pushed
          MaxQuits,       \* bound: calls of quit()
          MaxLoops        \* bound: calls of loop()

AllThreads == Threads \cup {LoopThread}
NoFunctor == 0
Functors == 1..MaxFunctors

ASSUME ThreadsAssumption == LoopThread \notin Threads
ASSUME ChannelsAssumption ==
    /\ IsFiniteSet(Channels)
    /\ WakeupChannel \notin Channels
    /\ NoChannel \notin Channels \cup {WakeupChannel}
ASSUME BoundsAssumption ==
    /\ MaxFunctors \in Nat
    /\ MaxQuits \in Nat
    /\ MaxLoops \in Nat

VARIABLES
    lpc,              \* where the loop thread is, see LoopLocations
    pc,               \* pc[t] = "wakeup": t is inside a call, about to wakeup()
    quit_,
    pendingFunctors_, \* guarded by mutex_
    functors,         \* what is left of the local vector of doPendingFunctors()
    running,          \* the functor doPendingFunctors() is running
    activeChannels_,
    pos,              \* how far the loop over activeChannels_ has come
    channels,         \* the channels registered with poller_
    wakeups,          \* the counter of wakeupFd_
    issued,           \* functors pushed so far
    quits,            \* calls of quit() so far
    loops,            \* calls of loop() so far
    quiet             \* history: pushed by the loop thread while outside loop()

loopVars == <<lpc, activeChannels_, pos, functors, running>>
boundVars == <<issued, quits, loops>>
vars == <<lpc, pc, quit_, pendingFunctors_, functors, running, activeChannels_,
          pos, channels, wakeups, issued, quits, loops, quiet>>

LoopLocations ==
    {"out",       \* not inside loop()
     "while",     \* about to test quit_
     "poll",      \* inside poller_->poll()
     "events",    \* in the loop over activeChannels_
     "functors"}  \* in doPendingFunctors(), after the swap

eventHandling_ == lpc = "events"
callingPendingFunctors_ == lpc = "functors"
currentActiveChannel_ ==
    IF eventHandling_ /\ pos > 0 THEN activeChannels_[pos] ELSE NoChannel

Init == /\ lpc = "out"
        /\ pc = [t \in AllThreads |-> "idle"]
        /\ quit_ = FALSE
        /\ pendingFunctors_ = <<>>
        /\ functors = <<>>
        /\ running = NoFunctor
        /\ activeChannels_ = <<>>
        /\ pos = 0
        /\ channels = {}
        /\ wakeups = 0
        /\ issued = 0
        /\ quits = 0
        /\ loops = 0
        /\ quiet = {}

\* The loop thread is executing user code: before or after loop(), in the
\* callback of a channel, or in a functor.
InUserCode == \/ lpc = "out"
              \/ currentActiveChannel_ \in Channels
              \/ running # NoFunctor

\* Thread t may begin a call.
MayCall(t) == /\ pc[t] = "idle"
              /\ t = LoopThread => InUserCode

\* The loop thread itself has no call of its own left unfinished.
LoopReady == pc[LoopThread] = "idle"

-----------------------------------------------------------------------------
(* The calls any thread may make.                                          *)

\* Mutant: the loop thread never wakes itself.
NeedsWakeupForeign(t) == t # LoopThread

\* Mutant: the loop is trusted to notice what other threads push.
NeedsWakeupSelf(t) == callingPendingFunctors_

\* queueInLoop() ends with a wakeup, unless the loop thread is certain to come
\* to doPendingFunctors() before it polls.
NeedsWakeup(t) == t # LoopThread \/ callingPendingFunctors_

\* queueInLoop(): push under the mutex; the wakeup, if one is due, is a step
\* of its own.  runInLoop() by a thread other than the loop's is this call;
\* by the loop thread it is a plain call of the functor.
QueueInLoop(t) ==
    /\ MayCall(t)
    /\ issued < MaxFunctors
    /\ issued' = issued + 1
    /\ pendingFunctors_' = Append(pendingFunctors_, issued + 1)
    /\ pc' = [pc EXCEPT ![t] = IF NeedsWakeup(t) THEN "wakeup" ELSE "idle"]
    /\ quiet' = IF t = LoopThread /\ lpc = "out" THEN quiet \cup {issued + 1} ELSE quiet
    /\ UNCHANGED <<loopVars, quit_, channels, wakeups, quits, loops>>

\* Mutant: quit() without the wakeup.
QuitNoWakeup(t) ==
    /\ MayCall(t)
    /\ quits < MaxQuits
    /\ quits' = quits + 1
    /\ quit_' = TRUE
    /\ UNCHANGED <<loopVars, pc, pendingFunctors_, channels, wakeups, issued, loops, quiet>>

Quit(t) ==
    /\ MayCall(t)
    /\ quits < MaxQuits
    /\ quits' = quits + 1
    /\ quit_' = TRUE
    /\ pc' = [pc EXCEPT ![t] = IF t # LoopThread THEN "wakeup" ELSE "idle"]
    /\ UNCHANGED <<loopVars, pendingFunctors_, channels, wakeups, issued, loops, quiet>>

\* wakeup(): add one to the eventfd, the end of the call.
Wakeup(t) ==
    /\ pc[t] = "wakeup"
    /\ wakeups' = wakeups + 1
    /\ pc' = [pc EXCEPT ![t] = "idle"]
    /\ UNCHANGED <<loopVars, quit_, pendingFunctors_, channels, boundVars, quiet>>

-----------------------------------------------------------------------------
(* The calls only the loop thread may make (assertInLoopThread).           *)

\* A new channel; updates of a registered one change nothing the loop sees.
UpdateChannel(c) ==
    /\ MayCall(LoopThread)
    /\ c \notin channels
    /\ channels' = channels \cup {c}
    /\ UNCHANGED <<loopVars, pc, quit_, pendingFunctors_, wakeups, boundVars, quiet>>

\* Mutant: the assertion on activeChannels_ is dropped.
RemoveChannelUnchecked(c) ==
    /\ MayCall(LoopThread)
    /\ c \in channels
    /\ channels' = channels \ {c}
    /\ UNCHANGED <<loopVars, pc, quit_, pendingFunctors_, wakeups, boundVars, quiet>>

\* removeChannel(): while events are handled, only the channel whose callback
\* runs, or one that was not reported in this iteration, may be removed.
RemoveChannel(c) ==
    /\ MayCall(LoopThread)
    /\ c \in channels
    /\ eventHandling_ => \/ currentActiveChannel_ = c
                         \/ c \notin Range(activeChannels_)
    /\ channels' = channels \ {c}
    /\ UNCHANGED <<loopVars, pc, quit_, pendingFunctors_, wakeups, boundVars, quiet>>

-----------------------------------------------------------------------------
(* loop().                                                                 *)

Loop ==
    /\ lpc = "out"
    /\ LoopReady
    /\ loops < MaxLoops
    /\ loops' = loops + 1
    /\ quit_' = FALSE
    /\ lpc' = "while"
    /\ UNCHANGED <<pc, pendingFunctors_, functors, running, activeChannels_, pos,
                   channels, wakeups, issued, quits, quiet>>

While ==
    /\ lpc = "while"
    /\ LoopReady
    /\ lpc' = IF quit_ THEN "out" ELSE "poll"
    /\ activeChannels_' = IF quit_ THEN activeChannels_ ELSE <<>>
    /\ pos' = 0
    /\ UNCHANGED <<pc, quit_, pendingFunctors_, functors, running, channels,
                   wakeups, boundVars, quiet>>

\* The channels the kernel may report now: a registered one at any time, the
\* wakeup channel when its counter is not zero.
Readable == channels \cup (IF wakeups > 0 THEN {WakeupChannel} ELSE {})

\* poll() returns with some of the readable channels (the event list is
\* finite), in any order.
Poll ==
    /\ lpc = "poll"
    /\ \E ready \in SUBSET Readable \ {{}} : activeChannels_' \in SetToSeqs(ready)
    /\ lpc' = "events"
    /\ UNCHANGED <<pc, quit_, pendingFunctors_, functors, running, pos, channels,
                   wakeups, boundVars, quiet>>

\* kPollTimeMs have passed, or a signal interrupted the call: nothing active.
PollTimeout ==
    /\ lpc = "poll"
    /\ lpc' = "events"
    /\ UNCHANGED <<pc, quit_, pendingFunctors_, functors, running, activeChannels_,
                   pos, channels, wakeups, boundVars, quiet>>

\* EventLoop::handleRead(), the callback of the wakeup channel, empties the
\* counter; other callbacks leave it alone.
handleRead(c) == wakeups' = IF c = WakeupChannel THEN 0 ELSE wakeups

\* Mutant: the loop over activeChannels_ runs one past the end.
HandleEventPastEnd ==
    /\ eventHandling_
    /\ LoopReady
    /\ pos <= Len(activeChannels_)
    /\ pos' = pos + 1
    /\ wakeups' = IF Len(activeChannels_) > pos /\ activeChannels_[pos + 1] = WakeupChannel
                    THEN 0 ELSE wakeups
    /\ UNCHANGED <<lpc, pc, quit_, pendingFunctors_, functors, running,
                   activeChannels_, channels, boundVars, quiet>>

\* The previous callback has returned; handleEvent() of the next channel.
HandleEvent ==
    /\ eventHandling_
    /\ LoopReady
    /\ pos < Len(activeChannels_)
    /\ pos' = pos + 1
    /\ handleRead(activeChannels_[pos + 1])
    /\ UNCHANGED <<lpc, pc, quit_, pendingFunctors_, functors, running,
                   activeChannels_, channels, boundVars, quiet>>

\* Mutant: the functors are copied out, not swapped out.
DoPendingFunctorsCopy ==
    /\ eventHandling_
    /\ LoopReady
    /\ pos = Len(activeChannels_)
    /\ functors' = pendingFunctors_
    /\ lpc' = "functors"
    /\ UNCHANGED <<pc, quit_, pendingFunctors_, running, activeChannels_, pos, channels,
                   wakeups, boundVars, quiet>>

\* doPendingFunctors() up to the end of its critical section.
DoPendingFunctors ==
    /\ eventHandling_
    /\ LoopReady
    /\ pos = Len(activeChannels_)
    /\ functors' = pendingFunctors_
    /\ pendingFunctors_' = <<>>
    /\ lpc' = "functors"
    /\ UNCHANGED <<pc, quit_, running, activeChannels_, pos, channels, wakeups,
                   boundVars, quiet>>

RunFunctor ==
    /\ callingPendingFunctors_
    /\ LoopReady
    /\ functors # <<>>
    /\ running' = Head(functors)
    /\ functors' = Tail(functors)
    /\ UNCHANGED <<lpc, pc, quit_, pendingFunctors_, activeChannels_, pos, channels,
                   wakeups, boundVars, quiet>>

\* Mutant: the queue is cleared after the functors have run.
EndPendingFunctorsClear ==
    /\ callingPendingFunctors_
    /\ LoopReady
    /\ functors = <<>>
    /\ running' = NoFunctor
    /\ lpc' = "while"
    /\ pendingFunctors_' = <<>>
    /\ UNCHANGED <<pc, quit_, functors, activeChannels_, pos, channels,
                   wakeups, boundVars, quiet>>

EndPendingFunctors ==
    /\ callingPendingFunctors_
    /\ LoopReady
    /\ functors = <<>>
    /\ running' = NoFunctor
    /\ lpc' = "while"
    /\ UNCHANGED <<pc, quit_, pendingFunctors_, functors, activeChannels_, pos, channels,
                   wakeups, boundVars, quiet>>

\* What the loop thread does by itself, given that user code returns and that
\* poll() returns.
LoopStep == \/ While
            \/ HandleEvent
            \/ DoPendingFunctors
            \/ RunFunctor
            \/ EndPendingFunctors

ThreadCall == \E t \in AllThreads : QueueInLoop(t) \/ Quit(t) \/ Wakeup(t)
ChannelCall == \E c \in Channels : UpdateChannel(c) \/ RemoveChannel(c)

Next == ThreadCall \/ ChannelCall \/ Loop \/ LoopStep \/ Poll \/ PollTimeout

Spec == Init /\ [][Next]_vars

\* Threads are scheduled, user code returns, and poll() returns once the
\* eventfd is readable.  Nothing is assumed of other channels, of the poll
\* timeout, or of how often users call.
Fairness == /\ WF_vars(LoopStep)
            /\ WF_vars(wakeups > 0 /\ Poll)
            /\ \A t \in AllThreads : WF_vars(Wakeup(t))

FairSpec == Spec /\ Fairness

-----------------------------------------------------------------------------
(* Properties.                                                             *)

\* Type invariant: the members of EventLoop keep their types, and the loop over
\* activeChannels_ stays inside the vector.
TypeOK == /\ lpc \in LoopLocations
          /\ pc \in [AllThreads -> {"idle", "wakeup"}]
          /\ quit_ \in BOOLEAN
          /\ pendingFunctors_ \in Seq(Functors)
          /\ functors \in Seq(Functors)
          /\ running \in Functors \cup {NoFunctor}
          /\ activeChannels_ \in Seq(Channels \cup {WakeupChannel})
          /\ pos \in 0..Len(activeChannels_)
          /\ channels \subseteq Channels
          /\ wakeups \in Nat
          /\ issued \in 0..MaxFunctors
          /\ quits \in 0..MaxQuits
          /\ loops \in 0..MaxLoops
          /\ quiet \subseteq Functors

\* A wakeup the loop will see, or one that some other thread still owes.
WakeupDue == wakeups > 0 \/ \E t \in Threads : pc[t] = "wakeup"

\* The loop never sleeps in poll() on work it was told about: while it does,
\* a pending functor or a quit request comes with a wakeup written or about
\* to be written (queueInLoop, quit).  The exception are functors that the
\* loop thread itself pushed before it called loop(): queueInLoop writes no
\* wakeup for those and they wait for the next event or for kPollTimeMs.
NoLostWakeup ==
    lpc = "poll" =>
        /\ (Range(pendingFunctors_) \ quiet # {}) => WakeupDue
        /\ quit_ => WakeupDue

\* Every event still to be dispatched belongs to a channel that is still
\* registered, and the wakeup channel is dispatched only while its counter is
\* not zero: handleRead() never reads short and fails its assertion, and the
\* assertion in removeChannel() is enough to keep the loop off a channel that
\* an earlier callback of the same iteration has removed.
DispatchSound ==
    eventHandling_ =>
        \A i \in pos + 1 .. Len(activeChannels_) : activeChannels_[i] \in Readable

\* The functors of all threads form one queue, run one by one from its front,
\* whatever part of it is in pendingFunctors_ or in the local vector.
FIFO == INSTANCE FunctorQueue WITH Functor <- Functors,
                                   waiting <- functors \o pendingFunctors_
ImplementsFunctorQueue == FIFO!Spec

\* A call of quit() that finds loop() running ends it, without waiting for
\* the poll timeout.
QuitHonoured == (quit_ /\ lpc # "out") ~> lpc = "out"

\* A functor queued with a wakeup is run without waiting for the poll timeout
\* or for another channel, unless loop() ends.
RunPromptly ==
    \A f \in Functors :
        (f \in Range(pendingFunctors_) \ quiet) ~> (running = f \/ lpc = "out")

\* Every functor, those queued before loop() included, is run at the latest
\* after poll() has timed out, unless loop() ends.
RunEventually ==
    WF_vars(PollTimeout) =>
        \A f \in Functors :
            (f \in Range(pendingFunctors_)) ~> (running = f \/ lpc = "out")

=============================================================================
