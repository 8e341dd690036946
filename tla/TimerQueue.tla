----------------------------- MODULE TimerQueue -----------------------------
(***************************************************************************)
(* muduo::net::TimerQueue: the timers of one event loop, kept sorted in    *)
(* timers_ and by identity in activeTimers_, driven by one timerfd.        *)
(*                                                                         *)
(* Timers live on a heap whose addresses are reused after delete, which is *)
(* why a TimerId carries a sequence number.  The loop thread adds and      *)
(* cancels timers directly, from timer callbacks too; other threads go     *)
(* through the loop's functor queue, which runs functors in order.  Time   *)
(* is counted in units of the 100 microseconds that are the least delay a  *)
(* timerfd is armed with.                                                  *)
(***************************************************************************)
EXTENDS Integers, Sequences, FiniteSets

CONSTANTS Addr,       \* heap addresses
          Threads,    \* threads other than the loop's
          Delays,     \* how far from now a timer may be set to expire
          Intervals,  \* intervals of a timer, 0 for a one-shot timer
          MaxTime,    \* bound: the wall clock stops here
          MaxTimers,  \* bound: timers created
          MaxCancels, \* bound: calls of cancel() by other threads
          MaxSteps    \* bound: adjustments of the wall clock

ASSUME AddrAssumption == IsFiniteSet(Addr)
ASSUME TimeAssumption ==
    /\ Delays \subseteq Int
    /\ Intervals \subseteq Nat
    /\ MaxTime \in Nat
ASSUME TimerBoundsAssumption ==
    /\ MaxTimers \in Nat
    /\ MaxCancels \in Nat
    /\ MaxSteps \in Nat

VARIABLES
    now,              \* Timestamp::now(), the wall clock
    heap,             \* the live Timer objects, by address
    created,          \* Timer::s_numCreated_
    timers_,          \* Entries: <<expiration, address>>
    activeTimers_,    \* ActiveTimers: <<address, sequence>>
    cancelingTimers_, \* ActiveTimers
    timerfd,          \* units until timerfd_ is readable, 0: readable now
    pc,               \* where the loop thread is, see below
    expired,          \* local of handleRead(): the Entries taken out
    unrun,            \* those of expired whose callback has not begun
    batchNow,         \* local of handleRead(): its now
    tasks,            \* functors of other threads, queued in the loop
    adding,           \* adding[t]: the timer t is creating, before addTimer returns
    ids,              \* the TimerIds addTimer() has returned
    cancels,          \* calls of cancel() by other threads so far
    steps,            \* adjustments of the wall clock so far
    lag,              \* history: how far the clock was put forward in all
    added,            \* history: sequences of timers inserted
    fired,            \* history: sequences of one-shot timers that ran
    cancelled         \* history: sequences cancelInLoop() found and cancelled

userVars == <<ids, adding, tasks, cancels>>
clockVars == <<now, steps, lag>>
batchVars == <<pc, expired, unrun, batchNow>>
setVars == <<timers_, activeTimers_, cancelingTimers_, timerfd, heap, created>>
historyVars == <<added, fired, cancelled>>
vars == <<userVars, clockVars, batchVars, setVars, historyVars>>

Disarmed == -1
NoTimer == <<>>
Sequence == 1..MaxTimers
Id(a) == <<a, heap[a].sequence>>
Ids(entries) == {Id(e[2]) : e \in entries}

Init == /\ now = 1
        /\ heap = <<>>
        /\ created = 0
        /\ timers_ = {}
        /\ activeTimers_ = {}
        /\ cancelingTimers_ = {}
        /\ timerfd = Disarmed
        /\ pc = "idle"
        /\ expired = {}
        /\ unrun = {}
        /\ batchNow = 0
        /\ tasks = <<>>
        /\ adding = [t \in Threads |-> NoTimer]
        /\ ids = {}
        /\ cancels = 0
        /\ steps = 0
        /\ lag = 0
        /\ added = {}
        /\ fired = {}
        /\ cancelled = {}

\* pc = "idle":  the loop thread is outside handleRead()
\*      "ready": poll() has reported timerfd_, its channel comes up
\*      "run":   inside handleRead(), running the callbacks
callingExpiredTimers_ == pc = "run"

\* The loop thread is executing user code, of a timer callback if inside
\* handleRead(), of another channel or of a functor if not.
InUserCode == callingExpiredTimers_ => unrun # expired

-----------------------------------------------------------------------------
(* The timerfd and the heap.                                               *)

\* Mutant: the least delay is forgotten.
howMuchTimeFromNowUnclamped(when) == IF when - now < 0 THEN 0 ELSE when - now

howMuchTimeFromNow(when) == IF when - now < 1 THEN 1 ELSE when - now

\* timerfd_settime(): a delay of zero disarms the timerfd.
resetTimerfd(when) ==
    IF howMuchTimeFromNow(when) = 0 THEN Disarmed ELSE howMuchTimeFromNow(when)

NewTimer(d, i) == [expiration |-> now + d, interval |-> i, sequence |-> created + 1]

\* readTimerfd(): a read takes the alarm away, an early one finds nothing.
readTimerfd == IF timerfd = 0 THEN Disarmed ELSE timerfd

\* Timer::restart() of a periodic timer.
restart(timer, t) == [timer EXCEPT !.expiration = t + timer.interval]

Allocate(a, timer) == [x \in DOMAIN heap \cup {a} |-> IF x = a THEN timer ELSE heap[x]]
Delete(S) == [x \in DOMAIN heap \ S |-> heap[x]]

-----------------------------------------------------------------------------
(* The operations on the sets, in the loop thread.                         *)

\* Mutant: a timer is the earliest only if it is the only one.
EarliestChangedIfEmpty(when) == timers_ = {}

\* What insert() returns.
EarliestChanged(when) == \A e \in timers_ : when < e[1]

\* addTimerInLoop() and insert(): earliestChanged re-arms the timerfd.
AddTimerInLoop(a, timer) ==
    /\ timers_' = timers_ \cup {<<timer.expiration, a>>}
    /\ activeTimers_' = activeTimers_ \cup {<<a, timer.sequence>>}
    /\ timerfd' = IF EarliestChanged(timer.expiration)
                    THEN resetTimerfd(timer.expiration)
                    ELSE timerfd
    /\ added' = added \cup {timer.sequence}

\* Mutant: the Timer is freed, its entry in timers_ stays.
CancelInLoopKeepEntry(id) ==
    \/ /\ id \in activeTimers_
       /\ heap' = Delete({id[1]})
       /\ activeTimers_' = activeTimers_ \ {id}
       /\ cancelled' = cancelled \cup {id[2]}
       /\ UNCHANGED <<timers_, cancelingTimers_>>
    \/ /\ id \notin activeTimers_
       /\ UNCHANGED <<timers_, activeTimers_, cancelingTimers_, heap, cancelled>>

\* Mutant: a timer cancelled while it is expired is freed at once.
CancelInLoopFreeExpired(id) ==
    \/ /\ id \in activeTimers_
       /\ timers_' = timers_ \ {<<heap[id[1]].expiration, id[1]>>}
       /\ heap' = Delete({id[1]})
       /\ activeTimers_' = activeTimers_ \ {id}
       /\ cancelled' = cancelled \cup {id[2]}
       /\ UNCHANGED cancelingTimers_
    \/ /\ id \notin activeTimers_
       /\ heap' = IF callingExpiredTimers_ /\ id \in Ids(expired)
                    THEN Delete({id[1]}) ELSE heap
       /\ UNCHANGED <<timers_, activeTimers_, cancelingTimers_, cancelled>>

\* Mutant: a timer is looked up by its address alone.
CancelInLoopByAddress(id) ==
    LET found == {x \in activeTimers_ : x[1] = id[1]}
    IN  /\ timers_' = {e \in timers_ : e[2] # id[1]}
        /\ heap' = Delete({x[1] : x \in found})
        /\ activeTimers_' = activeTimers_ \ found
        /\ cancelingTimers_' = IF found = {} /\ callingExpiredTimers_
                                 THEN cancelingTimers_ \cup {id} ELSE cancelingTimers_
        /\ cancelled' = IF id \in activeTimers_ \/ (callingExpiredTimers_ /\ id \in Ids(expired))
                          THEN cancelled \cup {id[2]} ELSE cancelled

CancelInLoop(id) ==
    \/ /\ id \in activeTimers_
       /\ timers_' = timers_ \ {<<heap[id[1]].expiration, id[1]>>}
       /\ heap' = Delete({id[1]})
       /\ activeTimers_' = activeTimers_ \ {id}
       /\ cancelled' = cancelled \cup {id[2]}
       /\ UNCHANGED cancelingTimers_
    \/ /\ id \notin activeTimers_
       /\ callingExpiredTimers_
       /\ cancelingTimers_' = cancelingTimers_ \cup {id}
       /\ cancelled' = IF id \in Ids(expired) THEN cancelled \cup {id[2]} ELSE cancelled
       /\ UNCHANGED <<timers_, activeTimers_, heap>>
    \/ /\ id \notin activeTimers_
       /\ ~callingExpiredTimers_
       /\ UNCHANGED <<timers_, activeTimers_, cancelingTimers_, heap, cancelled>>

-----------------------------------------------------------------------------
(* addTimer() and cancel().                                                *)

\* In the loop thread runInLoop() calls addTimerInLoop() at once.
AddTimer(a, d, i) ==
    /\ InUserCode
    /\ a \notin DOMAIN heap
    /\ created < MaxTimers
    /\ created' = created + 1
    /\ heap' = Allocate(a, NewTimer(d, i))
    /\ AddTimerInLoop(a, NewTimer(d, i))
    /\ ids' = ids \cup {<<a, created + 1>>}
    /\ UNCHANGED <<cancelingTimers_, clockVars, batchVars, adding, tasks, cancels,
                   fired, cancelled>>

Cancel(id) ==
    /\ InUserCode
    /\ CancelInLoop(id)
    /\ UNCHANGED <<userVars, clockVars, batchVars, timerfd, created, added, fired>>

\* In another thread the new Timer is handed over with queueInLoop() ...
ForeignAddTimer(t, a, d, i) ==
    /\ adding[t] = NoTimer
    /\ a \notin DOMAIN heap
    /\ created < MaxTimers
    /\ created' = created + 1
    /\ heap' = Allocate(a, NewTimer(d, i))
    /\ tasks' = Append(tasks, [op |-> "add", timer |-> a])
    /\ adding' = [adding EXCEPT ![t] = <<a, created + 1>>]
    /\ UNCHANGED <<timers_, activeTimers_, cancelingTimers_, timerfd, ids, cancels,
                   clockVars, batchVars, historyVars>>

\* ... and its sequence() is read afterwards, for the TimerId.  If the Timer
\* has been deleted by then, the memory may hold any sequence number.
ForeignAddTimerReturn(t) ==
    /\ adding[t] # NoTimer
    /\ LET a == adding[t][1]
       IN  \E s \in IF a \in DOMAIN heap THEN {heap[a].sequence} ELSE 1..created :
              ids' = ids \cup {<<a, s>>}
    /\ adding' = [adding EXCEPT ![t] = NoTimer]
    /\ UNCHANGED <<tasks, cancels, setVars, clockVars, batchVars, historyVars>>

ForeignCancel(t, id) ==
    /\ adding[t] = NoTimer
    /\ cancels < MaxCancels
    /\ cancels' = cancels + 1
    /\ tasks' = Append(tasks, [op |-> "cancel", id |-> id])
    /\ UNCHANGED <<ids, adding, setVars, clockVars, batchVars, historyVars>>

\* doPendingFunctors() runs addTimerInLoop() and cancelInLoop() in the loop.
RunTask ==
    /\ pc = "idle"
    /\ tasks # <<>>
    /\ tasks' = Tail(tasks)
    /\ \/ /\ Head(tasks).op = "add"
          /\ AddTimerInLoop(Head(tasks).timer, heap[Head(tasks).timer])
          /\ UNCHANGED <<cancelingTimers_, heap, cancelled>>
       \/ /\ Head(tasks).op = "cancel"
          /\ CancelInLoop(Head(tasks).id)
          /\ UNCHANGED <<timerfd, added>>
    /\ UNCHANGED <<ids, adding, cancels, created, clockVars, batchVars, fired>>

-----------------------------------------------------------------------------
(* handleRead().                                                           *)

getExpired(t) == {e \in timers_ : e[1] <= t}

\* poll() reports the timerfd.
PollTimerfd ==
    /\ pc = "idle"
    /\ timerfd = 0
    /\ pc' = "ready"
    /\ UNCHANGED <<expired, unrun, batchNow, userVars, clockVars, setVars, historyVars>>

\* handleRead() up to the callbacks: read the clock and the timerfd, which an
\* earlier callback of the same iteration may have re-armed, and take out
\* what has expired.
HandleRead ==
    /\ pc = "ready"
    /\ pc' = "run"
    /\ batchNow' = now
    /\ timerfd' = readTimerfd
    /\ expired' = getExpired(now)
    /\ unrun' = expired'
    /\ timers_' = timers_ \ expired'
    /\ activeTimers_' = activeTimers_ \ Ids(expired')
    /\ cancelingTimers_' = {}
    /\ UNCHANGED <<heap, created, userVars, clockVars, historyVars>>

\* The callback of the next expired timer; equal times run in address order.
RunTimer ==
    /\ callingExpiredTimers_
    /\ \E e \in unrun :
          /\ \A other \in unrun : e[1] <= other[1]
          /\ unrun' = unrun \ {e}
          /\ fired' = IF heap[e[2]].interval > 0 THEN fired
                      ELSE fired \cup {heap[e[2]].sequence}
    /\ UNCHANGED <<pc, expired, batchNow, userVars, clockVars, setVars, added, cancelled>>

\* Mutant: cancelingTimers_ is not consulted.
RestartedDespiteCancel == {e[2] : e \in {x \in expired : heap[x[2]].interval > 0}}

\* Mutant: repeat() is not consulted.
RestartedOneShots == {e[2] : e \in {x \in expired : Id(x[2]) \notin cancelingTimers_}}

\* The expired timers that reset() restarts.
Restarted == {e[2] : e \in {x \in expired : /\ heap[x[2]].interval > 0
                                            /\ Id(x[2]) \notin cancelingTimers_}}

\* The timerfd at the end of reset(), when timers_ holds entries.  Expirations
\* are times after 1970, so that nextExpire is valid() where there is a timer.
NextAlarm(entries) ==
    IF entries = {} THEN timerfd
    ELSE resetTimerfd(CHOOSE w \in {e[1] : e \in entries} : \A e \in entries : w <= e[1])

\* The end of handleRead(): reset() restarts the periodic timers that were not
\* cancelled meanwhile, deletes the others and arms the timerfd for the
\* earliest timer, if there is one.
Reset ==
    /\ callingExpiredTimers_
    /\ unrun = {}
    /\ heap' = [a \in DOMAIN heap \ ({e[2] : e \in expired} \ Restarted) |->
                  IF a \in Restarted THEN restart(heap[a], batchNow) ELSE heap[a]]
    /\ timers_' = timers_ \cup {<<heap'[a].expiration, a>> : a \in Restarted}
    /\ activeTimers_' = activeTimers_ \cup {Id(a) : a \in Restarted}
    /\ timerfd' = NextAlarm(timers_')
    /\ pc' = "idle"
    /\ expired' = {}
    /\ batchNow' = 0
    /\ UNCHANGED <<unrun, cancelingTimers_, created, userVars, clockVars, historyVars>>

-----------------------------------------------------------------------------
(* Time: the timerfd runs on the monotonic clock, the timers on the wall   *)
(* clock, which may be adjusted.                                           *)

Tick ==
    /\ now' = IF now < MaxTime THEN now + 1 ELSE now
    /\ timerfd' = IF timerfd > 0 THEN timerfd - 1 ELSE timerfd
    /\ UNCHANGED <<steps, lag, timers_, activeTimers_, cancelingTimers_, heap, created,
                   batchVars, userVars, historyVars>>

AdjustClock ==
    /\ steps < MaxSteps
    /\ steps' = steps + 1
    /\ \/ /\ now < MaxTime
          /\ now' = now + 1
          /\ lag' = lag + 1
       \/ /\ now > 1
          /\ now' = now - 1
          /\ UNCHANGED lag
    /\ UNCHANGED <<setVars, batchVars, userVars, historyVars>>

-----------------------------------------------------------------------------
LoopCall == \/ \E a \in Addr, d \in Delays, i \in Intervals : AddTimer(a, d, i)
            \/ \E id \in ids : Cancel(id)

ForeignCall ==
    \E t \in Threads :
        \/ \E a \in Addr, d \in Delays, i \in Intervals : ForeignAddTimer(t, a, d, i)
        \/ ForeignAddTimerReturn(t)
        \/ \E id \in ids : ForeignCancel(t, id)

HandleReadStep == HandleRead \/ RunTimer \/ Reset

Next == \/ LoopCall
        \/ ForeignCall
        \/ RunTask
        \/ PollTimerfd
        \/ HandleReadStep
        \/ Tick
        \/ AdjustClock

Spec == Init /\ [][Next]_vars

\* Time passes, poll() reports a readable timerfd, callbacks return, and the
\* loop comes round to its functors.
Fairness == /\ WF_vars(Tick)
            /\ WF_vars(PollTimerfd)
            /\ WF_vars(HandleReadStep)
            /\ SF_vars(RunTask)

FairSpec == Spec /\ Fairness

-----------------------------------------------------------------------------
(* Properties.                                                             *)

ActiveTimer == Addr \X Sequence
Entries == Int \X Addr

\* Type invariant: the members of TimerQueue keep their types, and sequence
\* numbers are those that Timer::s_numCreated_ has given out.
TypeOK ==
    /\ now \in Int
    /\ DOMAIN heap \subseteq Addr
    /\ \A a \in DOMAIN heap :
          heap[a] \in [expiration : Int, interval : Nat, sequence : Sequence]
    /\ created \in 0..MaxTimers
    /\ timers_ \subseteq Entries
    /\ activeTimers_ \subseteq ActiveTimer
    /\ cancelingTimers_ \subseteq ActiveTimer
    /\ timerfd \in Nat \cup {Disarmed}
    /\ pc \in {"idle", "ready", "run"}
    /\ expired \subseteq Entries
    /\ unrun \subseteq expired
    /\ batchNow \in Int
    /\ \A i \in 1..Len(tasks) : \/ tasks[i] \in [op : {"add"}, timer : Addr]
                                \/ tasks[i] \in [op : {"cancel"}, id : ActiveTimer]
    /\ adding \in [Threads -> ActiveTimer \cup {NoTimer}]
    /\ ids \subseteq ActiveTimer
    /\ cancels \in 0..MaxCancels
    /\ steps \in 0..MaxSteps
    /\ lag \in 0..MaxSteps
    /\ added \subseteq Sequence
    /\ fired \subseteq Sequence
    /\ cancelled \subseteq Sequence

\* The two sets always hold the same timers, each filed under the expiration
\* the Timer object has: what the assertions on timers_.size() and
\* activeTimers_.size() stand for.
SetsAgree ==
    /\ \A e \in timers_ : e[2] \in DOMAIN heap /\ heap[e[2]].expiration = e[1]
    /\ activeTimers_ = Ids(timers_)

QueuedAdds == {tasks[i].timer : i \in {j \in 1..Len(tasks) : tasks[j].op = "add"}}

\* Every Timer object is reachable from exactly one of timers_, the batch of
\* handleRead() and the functor that will insert it: nothing the queue may
\* still touch has been deleted, nothing is deleted twice, nothing leaks.
OwnedOnce ==
    LET scheduled == {e[2] : e \in timers_}
        batch == {e[2] : e \in expired}
    IN  /\ DOMAIN heap = scheduled \cup batch \cup QueuedAdds
        /\ scheduled \cap batch = {}
        /\ scheduled \cap QueuedAdds = {}
        /\ batch \cap QueuedAdds = {}
        /\ \A i, j \in 1..Len(tasks) :
              i # j /\ tasks[i].op = "add" /\ tasks[j].op = "add"
                 => tasks[i].timer # tasks[j].timer

\* As long as there are timers the timerfd is armed, and for no later than
\* the earliest of them: addTimerInLoop() and reset() never forget it, a
\* cancelled timer leaves at most an early alarm behind.  The wall clock put
\* back makes the alarm early, put forward makes it late by as much.
Armed ==
    pc = "idle" =>
        \A e \in timers_ : timerfd \in 0 .. howMuchTimeFromNow(e[1]) + lag

\* A timer that cancelInLoop() has cancelled is not in the queue any more, or
\* is in the batch that handleRead() is running and marked so that reset()
\* will not restart it.  (Its callback may still run once, in that batch.)
CancelStops ==
    /\ \A id \in activeTimers_ : id[2] \notin cancelled
    /\ \A e \in expired : heap[e[2]].sequence \in cancelled => Id(e[2]) \in cancelingTimers_

\* A timer that was added and not cancelled is still in the queue, or is a
\* one-shot timer that ran: a TimerId of a timer that is gone never cancels
\* the timer that now has its address, and a restart loses nothing.
NotForgotten ==
    \A s \in added \ (cancelled \cup fired) :
        \E id \in activeTimers_ \cup Ids(expired) : id[2] = s

\* A one-shot timer runs once: when its callback has begun it is not in the
\* queue and its batch will not run it again.
OneShotOnce ==
    \A id \in activeTimers_ \cup Ids(unrun) : id[2] \notin fired

\* A timer that addTimer() has created runs, unless it is cancelled, whichever
\* thread created it and wherever the loop was: stated for the one-shot timers
\* whose expiration the clock reaches.
TimersRun ==
    \A s \in Sequence :
        (\E a \in DOMAIN heap : /\ heap[a].sequence = s
                                /\ heap[a].interval = 0
                                /\ heap[a].expiration <= MaxTime)
            ~> (s \in fired \cup cancelled)

\* While addTimer() runs in another thread, the Timer whose sequence() it is
\* about to read for the TimerId is still the one it created.
AddTimerReturnsItsTimer ==
    \A t \in Threads :
        adding[t] # NoTimer =>
            adding[t][1] \in DOMAIN heap /\ Id(adding[t][1]) = adding[t]
=============================================================================
