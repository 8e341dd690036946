-------------------------- MODULE TimerQueueProofs --------------------------
(***************************************************************************)
(* Proofs about TimerQueue, for every heap, every number of threads and    *)
(* timers, every delay and interval and every course of the wall clock.    *)
(***************************************************************************)
EXTENDS TimerQueue, SequenceTheorems, FiniteSetTheorems, WellFoundedInduction, TLAPS

-----------------------------------------------------------------------------
(* The inductive invariant: where the Timer at each address is, and what   *)
(* the history of its sequence number can be there.                        *)

Task == [op : {"add"}, timer : Addr] \cup [op : {"cancel"}, id : ActiveTimer]
Timer == [expiration : Int, interval : Nat, sequence : Sequence]

Adds(q) == {q[i].timer : i \in {j \in 1..Len(q) : q[j].op = "add"}}
AddedOnce(q) ==
    \A i, j \in 1..Len(q) :
        i # j /\ q[i].op = "add" /\ q[j].op = "add" => q[i].timer # q[j].timer

\* The entry a Timer is filed under.
EntryOf(a) == <<heap[a].expiration, a>>

\* TypeOK, with tasks a sequence.
QueueTypes ==
    /\ TypeOK
    /\ tasks \in Seq(Task)
    /\ lag <= steps

\* A Timer is in a functor or in the sets or in the batch, and only there.
Placed ==
    /\ \A e \in timers_ \cup expired :
          e[2] \in DOMAIN heap \ Adds(tasks) /\ e = EntryOf(e[2])
    /\ timers_ \cap expired = {}
    /\ Adds(tasks) \subseteq DOMAIN heap
    /\ \A a \in DOMAIN heap \ Adds(tasks) : EntryOf(a) \in timers_ \cup expired
    /\ AddedOnce(tasks)
    /\ pc # "run" => expired = {}

\* The set that is searched by identity follows the sorted one.
Filed ==
    /\ \A e \in timers_ : Id(e[2]) \in activeTimers_
    /\ \A x \in activeTimers_ :
          x[1] \in DOMAIN heap /\ x = Id(x[1]) /\ EntryOf(x[1]) \in timers_

\* No two Timers have a sequence number in common, and none that is still to
\* be given out has a history.
Numbered ==
    /\ \A a \in DOMAIN heap : heap[a].sequence <= created
    /\ \A a, b \in DOMAIN heap : heap[a].sequence = heap[b].sequence => a = b
    /\ \A s \in added \cup fired \cup cancelled : s <= created

\* Only a Timer of the batch can be alive and cancelled, and cancelingTimers_
\* tells reset() which are.
Cancelled ==
    /\ \A a \in DOMAIN heap :
          heap[a].sequence \in cancelled => EntryOf(a) \in expired /\ Id(a) \in cancelingTimers_
    /\ \A a \in DOMAIN heap :
          EntryOf(a) \in expired /\ Id(a) \in cancelingTimers_ => heap[a].sequence \in cancelled

\* Only a one-shot Timer of the batch whose callback has begun can be alive
\* and fired.
Fired ==
    /\ \A a \in DOMAIN heap :
          heap[a].sequence \in fired =>
             EntryOf(a) \in expired \ unrun /\ heap[a].interval = 0
    /\ \A a \in DOMAIN heap :
          EntryOf(a) \in expired \ unrun /\ heap[a].interval = 0 => heap[a].sequence \in fired

\* An added Timer that was not cancelled and has not fired is alive.
Kept ==
    \A s \in added \ (cancelled \cup fired) :
        \E a \in DOMAIN heap \ Adds(tasks) : heap[a].sequence = s

QueueInv ==
    QueueTypes /\ Placed /\ Filed /\ Numbered /\ Cancelled /\ Fired /\ Kept

-----------------------------------------------------------------------------
(* Operators.                                                              *)

\* What queueInLoop() does to the functors that add timers.
LEMMA AppendTask ==
    ASSUME NEW q \in Seq(Task), NEW r \in Task
    PROVE  /\ Append(q, r) \in Seq(Task)
           /\ r.op = "cancel" => Adds(Append(q, r)) = Adds(q)
           /\ r.op = "cancel" /\ AddedOnce(q) => AddedOnce(Append(q, r))
           /\ r.op = "add" => Adds(Append(q, r)) = Adds(q) \cup {r.timer}
           /\ r.op = "add" /\ AddedOnce(q) /\ r.timer \notin Adds(q)
                 => AddedOnce(Append(q, r))
  <1> DEFINE p == Append(q, r)
  <1>1. /\ p \in Seq(Task) /\ Len(p) = Len(q) + 1 /\ Len(q) \in Nat
        /\ \A i \in 1..Len(q) : p[i] = q[i]
        /\ p[Len(q) + 1] = r
    BY AppendProperties
  <1> HIDE DEF p
  <1>2. /\ \A i \in 1..Len(p) : i \in 1..Len(q) \/ i = Len(q) + 1
        /\ \A i \in 1..Len(q) : i \in 1..Len(p)
        /\ Len(q) + 1 \in 1..Len(p)
    BY <1>1
  <1>3. r.op = "cancel" => r.op # "add"
    OBVIOUS
  <1>4. r.op = "cancel" => Adds(p) = Adds(q)
    BY <1>1, <1>2, <1>3 DEF Adds
  <1>5. r.op = "add" => Adds(p) = Adds(q) \cup {r.timer}
    BY <1>1, <1>2 DEF Adds
  <1>6. r.op = "cancel" /\ AddedOnce(q) => AddedOnce(p)
    BY <1>1, <1>2, <1>3 DEF AddedOnce
  <1>7. r.op = "add" /\ AddedOnce(q) /\ r.timer \notin Adds(q) => AddedOnce(p)
    BY <1>1, <1>2 DEF AddedOnce, Adds
  <1> QED
    BY <1>1, <1>4, <1>5, <1>6, <1>7 DEF p

\* What doPendingFunctors() does to them.
LEMMA TailTasks ==
    ASSUME NEW q \in Seq(Task), q # <<>>
    PROVE  /\ Tail(q) \in Seq(Task) /\ Head(q) \in Task
           /\ Head(q).op = "cancel" => Adds(Tail(q)) = Adds(q)
           /\ AddedOnce(q) => AddedOnce(Tail(q))
           /\ Head(q).op = "add" => Head(q).timer \in Adds(q)
           /\ Head(q).op = "add" /\ AddedOnce(q) => Adds(Tail(q)) = Adds(q) \ {Head(q).timer}
  <1> DEFINE p == Tail(q)
             r == Head(q)
  <1>1. /\ p \in Seq(Task) /\ Len(p) = Len(q) - 1 /\ Len(q) \in Nat /\ Len(q) > 0
        /\ \A i \in 1..Len(p) : p[i] = q[i + 1]
        /\ r = q[1] /\ r \in Task
    BY HeadTailProperties, EmptySeq
  <1> HIDE DEF p, r
  <1>2. /\ \A i \in 1..Len(p) : i + 1 \in 1..Len(q) /\ i + 1 # 1
        /\ \A i \in 1..Len(q) : i = 1 \/ (i - 1 \in 1..Len(p) /\ p[i - 1] = q[i])
        /\ 1 \in 1..Len(q)
        /\ \A i, j \in 1..Len(p) : i # j => i + 1 # j + 1
    BY <1>1
  <1>3. r.op = "cancel" => r.op # "add"
    OBVIOUS
  <1>4. r.op = "cancel" => Adds(p) = Adds(q)
    BY <1>1, <1>2, <1>3, SMTT(40) DEF Adds
  <1>5. AddedOnce(q) => AddedOnce(p)
    BY <1>1, <1>2 DEF AddedOnce
  <1>6. r.op = "add" => r.timer \in Adds(q)
    BY <1>1, <1>2 DEF Adds
  <1>7. r.op = "add" /\ AddedOnce(q) => Adds(p) = Adds(q) \ {r.timer}
    BY <1>1, <1>2 DEF Adds, AddedOnce
  <1> QED
    BY <1>1, <1>4, <1>5, <1>6, <1>7 DEF p, r

\* A finite set of entries has an earliest one.
LEMMA HasEarliest ==
    ASSUME NEW E, IsFiniteSet(E), E # {}, \A e \in E : e[1] \in Int
    PROVE  \E w \in {e[1] : e \in E} : \A e \in E : w <= e[1]
  <1> DEFINE upto(e) == {f \in E : f[1] <= e[1]}
             n(e) == Cardinality(upto(e))
             N == {n(e) : e \in E}
             R == OpToRel(<, Nat)
  <1>1. \A e \in E : IsFiniteSet(upto(e)) /\ n(e) \in Nat
    BY FS_Subset, FS_CardinalityType
  <1>2. N \subseteq Nat /\ N # {}
    BY <1>1
  <1>3. \E x \in N : \A y \in N : ~(<<y, x>> \in R)
    <2>1. IsWellFoundedOn(R, Nat)
      BY NatLessThanWellFounded
    <2> HIDE DEF R, N
    <2> QED
      BY ONLY <1>2, <2>1, WFMin
  <1>4. PICK x \in N : \A y \in N : ~(y < x)
    BY <1>2, <1>3 DEF OpToRel
  <1>5. PICK e \in E : x = n(e)
    OBVIOUS
  <1>6. ASSUME NEW f \in E, f[1] < e[1] PROVE FALSE
    <2>1. upto(f) \in SUBSET upto(e) /\ e \in upto(e) /\ e \notin upto(f)
      BY <1>6
    <2>2. IsFiniteSet(upto(e)) /\ n(e) \in Nat /\ n(f) \in Nat
      BY <1>1
    <2>3. n(f) <= n(e) /\ (n(e) = n(f) => upto(e) = upto(f))
      <3> HIDE DEF upto
      <3> QED
        BY <2>1, <2>2, FS_Subset
    <2>4. n(f) < n(e)
      <3>1. n(e) # n(f)
        BY <2>1, <2>3
      <3> HIDE DEF n
      <3> QED
        BY <2>2, <2>3, <3>1
    <2> QED
      BY <1>4, <1>5, <2>4
  <1> QED
    BY <1>6

\* Entries of different addresses are finitely many.
LEMMA EntriesFinite ==
    ASSUME NEW E, \A e \in E : e[2] \in Addr, \A e, f \in E : e[2] = f[2] => e = f
    PROVE  IsFiniteSet(E)
  <1> DEFINE g == [e \in E |-> e[2]]
  <1>1. g \in Injection(E, Addr)
    BY DEF Injection, IsInjective
  <1> HIDE DEF g
  <1> QED
    BY <1>1, AddrAssumption, FS_Injection

-----------------------------------------------------------------------------
(* The invariant holds at first, and the types are kept.                   *)

LEMMA QueueInvInit == Init => QueueInv
  <1> SUFFICES ASSUME Init PROVE QueueInv
    OBVIOUS
  <1>1. DOMAIN heap = {}
    BY DEF Init
  <1>2. tasks \in Seq(Task) /\ Len(tasks) = 0
    BY EmptySeq DEF Init
  <1>3. Adds(tasks) = {} /\ AddedOnce(tasks)
    BY <1>2 DEF Adds, AddedOnce
  <1>4. TypeOK /\ lag <= steps
    <2>1. /\ created \in 0..MaxTimers /\ cancels \in 0..MaxCancels /\ steps \in 0..MaxSteps
          /\ lag \in 0..MaxSteps /\ timerfd \in Nat \cup {Disarmed} /\ lag <= steps
      BY TimerBoundsAssumption DEF Init, Disarmed
    <2> QED
      BY <1>1, <1>2, <2>1 DEF Init, TypeOK, NoTimer
  <1> QED
    BY <1>1, <1>2, <1>3, <1>4
       DEF Init, QueueInv, QueueTypes, Placed, Filed, Numbered, Cancelled, Fired, Kept

\* A task that is run refers to a Timer or to a TimerId.
LEMMA TaskTypes ==
    ASSUME NEW r \in Task
    PROVE  /\ r.op \in {"add", "cancel"}
           /\ r.op = "add" => r.timer \in Addr
           /\ r.op = "cancel" => r.id \in ActiveTimer
  BY DEF Task

LEMMA AlarmTypes ==
    ASSUME now \in Int, NEW when \in Int
    PROVE  /\ howMuchTimeFromNow(when) \in Nat \ {0}
           /\ resetTimerfd(when) = howMuchTimeFromNow(when)
  BY DEF howMuchTimeFromNow, resetTimerfd

\* NewTimer() is a Timer as long as the bound on their number allows it.
LEMMA NewTimerTypes ==
    ASSUME QueueTypes, created < MaxTimers, NEW d \in Delays, NEW i \in Intervals
    PROVE  /\ NewTimer(d, i) \in Timer
           /\ NewTimer(d, i).expiration = now + d
           /\ NewTimer(d, i).interval = i
           /\ NewTimer(d, i).sequence = created + 1
           /\ created + 1 \in Sequence /\ created \in Nat /\ created + 1 \in 0..MaxTimers
  <1>1. created \in Nat /\ MaxTimers \in Nat /\ now \in Int /\ d \in Int /\ i \in Nat
    BY TimerBoundsAssumption, TimeAssumption DEF QueueTypes, TypeOK
  <1>2. created + 1 \in Sequence /\ created + 1 \in 0..MaxTimers /\ now + d \in Int
    BY <1>1 DEF Sequence
  <1> QED
    BY <1>1, <1>2 DEF NewTimer, Timer

\* cancelInLoop() keeps the types of what it changes.
LEMMA CancelInLoopTypes ==
    ASSUME QueueTypes, NEW id \in ActiveTimer, CancelInLoop(id)
    PROVE  /\ DOMAIN heap' \subseteq Addr /\ \A a \in DOMAIN heap' : heap'[a] \in Timer
           /\ timers_' \subseteq Entries /\ activeTimers_' \subseteq ActiveTimer
           /\ cancelingTimers_' \subseteq ActiveTimer /\ cancelled' \subseteq Sequence
  <1>1. id[2] \in Sequence
    BY DEF ActiveTimer
  <1>2. /\ DOMAIN heap \subseteq Addr /\ \A a \in DOMAIN heap : heap[a] \in Timer
        /\ timers_ \subseteq Entries /\ activeTimers_ \subseteq ActiveTimer
        /\ cancelingTimers_ \subseteq ActiveTimer /\ cancelled \subseteq Sequence
    BY DEF QueueTypes, TypeOK, Timer
  <1>3. /\ heap' = heap \/ heap' = Delete({id[1]})
        /\ timers_' \subseteq timers_ /\ activeTimers_' \subseteq activeTimers_
        /\ cancelingTimers_' \subseteq cancelingTimers_ \cup {id}
        /\ cancelled' \subseteq cancelled \cup {id[2]}
    BY DEF CancelInLoop
  <1>4. DOMAIN heap' \subseteq DOMAIN heap /\ \A a \in DOMAIN heap' : heap'[a] = heap[a]
    BY <1>3 DEF Delete
  <1> QED
    BY <1>1, <1>2, <1>3, <1>4

\* addTimerInLoop() does too.
LEMMA AddTimerInLoopTypes ==
    ASSUME QueueTypes, NEW a \in Addr, NEW timer \in Timer, AddTimerInLoop(a, timer)
    PROVE  /\ timers_' \subseteq Entries /\ activeTimers_' \subseteq ActiveTimer
           /\ timerfd' \in Nat \cup {Disarmed} /\ added' \subseteq Sequence
  <1>1. timer.expiration \in Int /\ timer.sequence \in Sequence /\ now \in Int
    BY DEF Timer, QueueTypes, TypeOK
  <1>2. resetTimerfd(timer.expiration) \in Nat
    BY <1>1, AlarmTypes
  <1>3. timerfd' = timerfd \/ timerfd' = resetTimerfd(timer.expiration)
    BY DEF AddTimerInLoop
  <1> QED
    BY <1>1, <1>2, <1>3 DEF AddTimerInLoop, QueueTypes, TypeOK, Entries, ActiveTimer

\* What reset() does to the heap and to timers_.
LEMMA ResetEffect ==
    ASSUME QueueTypes, Placed, Reset
    PROVE  /\ \A a : a \in Restarted <=> /\ a \in DOMAIN heap
                                         /\ EntryOf(a) \in expired
                                         /\ heap[a].interval > 0
                                         /\ Id(a) \notin cancelingTimers_
           /\ \A a : a \in DOMAIN heap' <=> /\ a \in DOMAIN heap
                                            /\ EntryOf(a) \notin expired \/ a \in Restarted
           /\ \A a \in DOMAIN heap' : /\ heap'[a] \in Timer
                                      /\ heap'[a].sequence = heap[a].sequence
                                      /\ heap'[a].interval = heap[a].interval
           /\ \A a \in DOMAIN heap' \ Restarted : heap'[a] = heap[a]
           /\ \A e \in timers_' : e \in timers_ \/ \E a \in Restarted : e = EntryOf(a)'
           /\ timers_ \subseteq timers_'
           /\ \A a \in Restarted : EntryOf(a)' \in timers_'
           /\ timers_' \subseteq Int \X Addr
           /\ \A e \in timers_' : e[2] \in DOMAIN heap' /\ e = EntryOf(e[2])'
  <1>t. /\ DOMAIN heap \subseteq Addr /\ \A a \in DOMAIN heap : heap[a] \in Timer
        /\ batchNow \in Int /\ timers_ \subseteq Int \X Addr
        /\ \A e \in timers_ \cup expired : e[2] \in DOMAIN heap /\ e = EntryOf(e[2])
        /\ timers_ \cap expired = {}
    BY DEF QueueTypes, TypeOK, Placed, Timer, Entries
  <1>1. \A a : a \in Restarted <=> /\ a \in DOMAIN heap
                                   /\ EntryOf(a) \in expired
                                   /\ heap[a].interval > 0
                                   /\ Id(a) \notin cancelingTimers_
    BY <1>t DEF Restarted, EntryOf
  <1>2. heap' = [a \in DOMAIN heap \ ({e[2] : e \in expired} \ Restarted) |->
                   IF a \in Restarted THEN restart(heap[a], batchNow) ELSE heap[a]]
    BY DEF Reset
  <1>3. \A a : a \in DOMAIN heap' <=> /\ a \in DOMAIN heap
                                      /\ EntryOf(a) \notin expired \/ a \in Restarted
    BY <1>t, <1>2 DEF EntryOf
  <1>4. \A a \in DOMAIN heap : LET r == restart(heap[a], batchNow)
                               IN  /\ r \in Timer /\ r.sequence = heap[a].sequence
                                   /\ r.interval = heap[a].interval
    BY <1>t DEF restart, Timer
  <1>5. \A a \in DOMAIN heap' : /\ heap'[a] \in Timer
                                /\ heap'[a].sequence = heap[a].sequence
                                /\ heap'[a].interval = heap[a].interval
    BY <1>t, <1>2, <1>3, <1>4
  <1>6. \A a \in DOMAIN heap' \ Restarted : heap'[a] = heap[a]
    BY <1>2
  <1>7. /\ \A e \in timers_' : e \in timers_ \/ \E a \in Restarted : e = EntryOf(a)'
        /\ timers_ \subseteq timers_'
        /\ \A a \in Restarted : EntryOf(a)' \in timers_'
    BY DEF Reset, EntryOf
  <1>8. \A a \in Restarted : a \in DOMAIN heap' /\ a \in Addr /\ heap'[a].expiration \in Int
    BY <1>t, <1>1, <1>3, <1>5 DEF Timer
  <1>9. timers_' \subseteq Int \X Addr
    BY <1>t, <1>7, <1>8 DEF EntryOf
  <1>10. ASSUME NEW e \in timers_' PROVE e[2] \in DOMAIN heap' /\ e = EntryOf(e[2])'
    <2>1. CASE e \in timers_
      <3>1. e[2] \in DOMAIN heap /\ e = EntryOf(e[2]) /\ e \notin expired
        BY <1>t, <2>1
      <3>2. e[2] \in DOMAIN heap' /\ e[2] \notin Restarted
        BY <1>1, <1>3, <3>1
      <3>3. heap'[e[2]] = heap[e[2]]
        BY <1>6, <3>2
      <3> QED
        BY <3>1, <3>2, <3>3 DEF EntryOf
    <2>2. CASE \E a \in Restarted : e = EntryOf(a)'
      BY <1>8, <2>2 DEF EntryOf
    <2> QED
      BY <1>7, <2>1, <2>2
  <1> QED
    BY <1>1, <1>3, <1>5, <1>6, <1>7, <1>9, <1>10

\* The alarm reset() arms is that of the earliest timer.
LEMMA NextAlarmEarliest ==
    ASSUME QueueTypes, Placed, Reset
    PROVE  \/ timers_' = {} /\ timerfd' = timerfd
           \/ \E w \in Int : /\ timerfd' = resetTimerfd(w)
                             /\ \A e \in timers_' : w <= e[1]
                             /\ timers_' # {}
  <1> DEFINE E == timers_'
  <1>1. /\ E \subseteq Int \X Addr
        /\ \A e \in E : e = EntryOf(e[2])'
    BY ResetEffect
  <1>2. \A e, f \in E : e[2] = f[2] => e = f
    BY <1>1
  <1>3. timerfd' = NextAlarm(E)
    BY DEF Reset
  <1> HIDE DEF E
  <1>4. IsFiniteSet(E)
    BY <1>1, <1>2, EntriesFinite
  <1>5. ASSUME E # {} PROVE \E w \in Int : timerfd' = resetTimerfd(w) /\ \A e \in E : w <= e[1]
    <2> DEFINE P(w) == \A e \in E : w <= e[1]
               w0 == CHOOSE w \in {e[1] : e \in E} : P(w)
    <2>1. \E w \in {e[1] : e \in E} : P(w)
      BY <1>1, <1>4, <1>5, HasEarliest
    <2>2. w0 \in {e[1] : e \in E} /\ P(w0)
      <3> HIDE DEF P
      <3> QED
        BY <2>1
    <2>3. timerfd' = resetTimerfd(w0)
      BY <1>3, <1>5 DEF NextAlarm
    <2>4. w0 \in Int
      BY <1>1, <2>2
    <2> HIDE DEF w0
    <2> QED
      BY <2>2, <2>3, <2>4
  <1>6. CASE E = {}
    BY <1>3, <1>6 DEF NextAlarm, E
  <1> QED
    BY <1>5, <1>6 DEF E

\* Every step keeps the types.
LEMMA QueueTypesStep == QueueTypes /\ Placed /\ Next => QueueTypes'
  <1> SUFFICES ASSUME QueueTypes, Placed, Next PROVE QueueTypes'
    OBVIOUS
  <1>t. /\ now \in Int /\ DOMAIN heap \subseteq Addr /\ \A a \in DOMAIN heap : heap[a] \in Timer
        /\ created \in 0..MaxTimers /\ MaxTimers \in Nat /\ tasks \in Seq(Task)
        /\ adding \in [Threads -> ActiveTimer \cup {NoTimer}] /\ ids \subseteq ActiveTimer
        /\ cancels \in 0..MaxCancels /\ MaxCancels \in Nat
        /\ timers_ \subseteq Entries /\ activeTimers_ \subseteq ActiveTimer
        /\ steps \in 0..MaxSteps /\ lag \in 0..MaxSteps /\ MaxSteps \in Nat
        /\ timerfd \in Nat \cup {Disarmed}
    BY TimerBoundsAssumption DEF QueueTypes, TypeOK, Timer
  <1>q. tasks' \in Seq(Task) =>
           \A i \in 1..Len(tasks') : \/ tasks'[i] \in [op : {"add"}, timer : Addr]
                                     \/ tasks'[i] \in [op : {"cancel"}, id : ActiveTimer]
    BY DEF Task
  <1>1. ASSUME NEW a \in Addr, NEW d \in Delays, NEW i \in Intervals, AddTimer(a, d, i)
        PROVE  QueueTypes'
    <2>1. /\ NewTimer(d, i) \in Timer /\ created + 1 \in Sequence
          /\ created + 1 \in 0..MaxTimers
      BY <1>1, NewTimerTypes DEF AddTimer
    <2>2. /\ timers_' \subseteq Entries /\ activeTimers_' \subseteq ActiveTimer
          /\ timerfd' \in Nat \cup {Disarmed} /\ added' \subseteq Sequence
      BY <1>1, <2>1, AddTimerInLoopTypes DEF AddTimer
    <2>3. DOMAIN heap' \subseteq Addr /\ \A x \in DOMAIN heap' : heap'[x] \in Timer
      BY <1>1, <1>t, <2>1 DEF AddTimer, Allocate
    <2>4. ids' \subseteq ActiveTimer /\ created' \in 0..MaxTimers
      BY <1>1, <1>t, <2>1 DEF AddTimer, ActiveTimer
    <2> QED
      BY <1>1, <2>2, <2>3, <2>4
         DEF AddTimer, QueueTypes, TypeOK, Timer, clockVars, batchVars
  <1>2. ASSUME NEW id \in ids, Cancel(id) PROVE QueueTypes'
    <2>1. /\ DOMAIN heap' \subseteq Addr /\ \A a \in DOMAIN heap' : heap'[a] \in Timer
          /\ timers_' \subseteq Entries /\ activeTimers_' \subseteq ActiveTimer
          /\ cancelingTimers_' \subseteq ActiveTimer /\ cancelled' \subseteq Sequence
      BY <1>2, <1>t, CancelInLoopTypes DEF Cancel
    <2> QED
      BY <1>2, <2>1 DEF Cancel, QueueTypes, TypeOK, Timer, userVars, clockVars, batchVars
  <1>3. ASSUME NEW t \in Threads, NEW a \in Addr, NEW d \in Delays, NEW i \in Intervals,
               ForeignAddTimer(t, a, d, i)
        PROVE  QueueTypes'
    <2>1. /\ NewTimer(d, i) \in Timer /\ created + 1 \in Sequence
          /\ created + 1 \in 0..MaxTimers
      BY <1>3, NewTimerTypes DEF ForeignAddTimer
    <2>2. DOMAIN heap' \subseteq Addr /\ \A x \in DOMAIN heap' : heap'[x] \in Timer
      BY <1>3, <1>t, <2>1 DEF ForeignAddTimer, Allocate
    <2>3. tasks' \in Seq(Task)
      <3>1. [op |-> "add", timer |-> a] \in Task
        BY DEF Task
      <3> QED
        BY <1>3, <1>t, <3>1, AppendTask DEF ForeignAddTimer
    <2>4. adding' \in [Threads -> ActiveTimer \cup {NoTimer}] /\ created' \in 0..MaxTimers
      BY <1>3, <1>t, <2>1 DEF ForeignAddTimer, ActiveTimer
    <2> QED
      BY <1>3, <1>q, <2>2, <2>3, <2>4
         DEF ForeignAddTimer, QueueTypes, TypeOK, Timer, clockVars, batchVars, historyVars
  <1>4. ASSUME NEW t \in Threads, ForeignAddTimerReturn(t) PROVE QueueTypes'
    <2>1. adding[t] \in ActiveTimer
      BY <1>4, <1>t DEF ForeignAddTimerReturn
    <2>2. PICK s \in IF adding[t][1] \in DOMAIN heap THEN {heap[adding[t][1]].sequence}
                     ELSE 1..created :
             ids' = ids \cup {<<adding[t][1], s>>}
      BY <1>4 DEF ForeignAddTimerReturn
    <2>3. s \in Sequence
      BY <1>t, <2>2 DEF Timer, Sequence
    <2>4. ids' \subseteq ActiveTimer
      BY <1>t, <2>1, <2>2, <2>3 DEF ActiveTimer
    <2>5. adding' \in [Threads -> ActiveTimer \cup {NoTimer}]
      BY <1>4, <1>t DEF ForeignAddTimerReturn
    <2> QED
      BY <1>4, <2>4, <2>5
         DEF ForeignAddTimerReturn, QueueTypes, TypeOK, setVars, clockVars, batchVars,
             historyVars
  <1>5. ASSUME NEW t \in Threads, NEW id \in ids, ForeignCancel(t, id) PROVE QueueTypes'
    <2>1. [op |-> "cancel", id |-> id] \in Task
      BY <1>5, <1>t DEF Task
    <2>2. tasks' \in Seq(Task)
      BY <1>5, <1>t, <2>1, AppendTask DEF ForeignCancel
    <2>3. cancels' \in 0..MaxCancels
      BY <1>5, <1>t DEF ForeignCancel
    <2> QED
      BY <1>5, <1>q, <2>2, <2>3
         DEF ForeignCancel, QueueTypes, TypeOK, setVars, clockVars, batchVars, historyVars
  <1>6. CASE RunTask
    <2>1. tasks' \in Seq(Task) /\ Head(tasks) \in Task
      BY <1>6, <1>t, TailTasks DEF RunTask
    <2>2. CASE /\ Head(tasks).op = "add"
               /\ AddTimerInLoop(Head(tasks).timer, heap[Head(tasks).timer])
               /\ UNCHANGED <<cancelingTimers_, heap, cancelled>>
      <3>1. Head(tasks).timer \in Addr /\ heap[Head(tasks).timer] \in Timer
        BY <1>6, <1>t, <2>2, TailTasks DEF RunTask, Placed
      <3>2. /\ timers_' \subseteq Entries /\ activeTimers_' \subseteq ActiveTimer
            /\ timerfd' \in Nat \cup {Disarmed} /\ added' \subseteq Sequence
        BY <2>2, <3>1, AddTimerInLoopTypes
      <3> QED
        BY <1>6, <1>q, <2>1, <2>2, <3>2
           DEF RunTask, QueueTypes, TypeOK, clockVars, batchVars
    <2>3. CASE /\ Head(tasks).op = "cancel"
               /\ CancelInLoop(Head(tasks).id)
               /\ UNCHANGED <<timerfd, added>>
      <3>1. Head(tasks).id \in ActiveTimer
        BY <2>1, <2>3, TaskTypes
      <3>2. /\ DOMAIN heap' \subseteq Addr /\ \A a \in DOMAIN heap' : heap'[a] \in Timer
            /\ timers_' \subseteq Entries /\ activeTimers_' \subseteq ActiveTimer
            /\ cancelingTimers_' \subseteq ActiveTimer /\ cancelled' \subseteq Sequence
        BY <2>3, <3>1, CancelInLoopTypes
      <3> QED
        BY <1>6, <1>q, <2>1, <2>3, <3>2
           DEF RunTask, QueueTypes, TypeOK, Timer, clockVars, batchVars
    <2> QED
      BY <1>6, <2>2, <2>3 DEF RunTask
  <1>7. CASE PollTimerfd
    BY <1>7 DEF PollTimerfd, QueueTypes, TypeOK, userVars, clockVars, setVars, historyVars
  <1>8. CASE HandleRead
    <2>1. timerfd' \in Nat \cup {Disarmed} /\ expired' \subseteq Entries
      BY <1>8, <1>t DEF HandleRead, readTimerfd, getExpired
    <2> QED
      BY <1>8, <1>t, <2>1
         DEF HandleRead, QueueTypes, TypeOK, Timer, userVars, clockVars, historyVars
  <1>9. CASE RunTimer
    <2>1. PICK e \in unrun :
             /\ unrun' = unrun \ {e}
             /\ fired' = IF heap[e[2]].interval > 0 THEN fired
                         ELSE fired \cup {heap[e[2]].sequence}
      BY <1>9 DEF RunTimer
    <2>2. heap[e[2]].sequence \in Sequence
      BY <1>t DEF Placed, QueueTypes, TypeOK, Timer
    <2>3. unrun' \subseteq expired /\ fired' \subseteq Sequence
      BY <2>1, <2>2 DEF QueueTypes, TypeOK
    <2> QED
      BY <1>9, <2>3 DEF RunTimer, QueueTypes, TypeOK, userVars, clockVars, setVars
  <1>10. CASE Reset
    <2>1. /\ Restarted \subseteq DOMAIN heap
          /\ DOMAIN heap' \subseteq DOMAIN heap
          /\ \A a \in DOMAIN heap' : heap'[a] \in Timer
          /\ timers_' \subseteq Entries
      BY <1>10, <1>t, ResetEffect DEF Entries
    <2>2. activeTimers_' \subseteq ActiveTimer
      BY <1>10, <1>t, <2>1 DEF Reset, Id, ActiveTimer, Timer
    <2>3. timerfd' \in Nat \cup {Disarmed}
      BY <1>10, <1>t, NextAlarmEarliest, AlarmTypes
    <2> QED
      BY <1>10, <1>t, <2>1, <2>2, <2>3
         DEF Reset, QueueTypes, TypeOK, Timer, userVars, clockVars, historyVars
  <1>11. CASE Tick
    <2>1. now' \in Int /\ timerfd' \in Nat \cup {Disarmed}
      BY <1>11, <1>t DEF Tick, Disarmed
    <2> QED
      BY <1>11, <2>1 DEF Tick, QueueTypes, TypeOK, userVars, batchVars, historyVars
  <1>12. CASE AdjustClock
    <2>1. now' \in Int /\ steps' \in 0..MaxSteps /\ lag' \in 0..MaxSteps /\ lag' <= steps'
      BY <1>12, <1>t DEF AdjustClock, QueueTypes
    <2> QED
      BY <1>12, <2>1 DEF AdjustClock, QueueTypes, TypeOK, userVars, batchVars, setVars, historyVars
  <1> QED
    BY <1>1, <1>2, <1>3, <1>4, <1>5, <1>6, <1>7, <1>8, <1>9, <1>10, <1>11, <1>12
       DEF Next, LoopCall, ForeignCall, HandleReadStep

-----------------------------------------------------------------------------
(* The operations on the sets keep the rest of the invariant.              *)

RestInv == Placed /\ Filed /\ Numbered /\ Cancelled /\ Fired /\ Kept

LEMMA CancelInLoopKeeps ==
    ASSUME QueueInv, NEW id \in ActiveTimer, CancelInLoop(id),
           Adds(tasks') = Adds(tasks), AddedOnce(tasks'),
           UNCHANGED <<expired, unrun, pc, created, added, fired>>
    PROVE  RestInv'
  <1>t. /\ \A a \in DOMAIN heap : heap[a] \in Timer
        /\ id = <<id[1], id[2]>> /\ id[2] \in Sequence /\ id[2] \in Int
    BY DEF QueueInv, QueueTypes, TypeOK, Timer, ActiveTimer, Sequence
  <1>1. CASE id \in activeTimers_
    <2> DEFINE b == id[1]
    <2>1. /\ b \in DOMAIN heap /\ id = Id(b) /\ EntryOf(b) \in timers_
          /\ id[2] = heap[b].sequence
      BY <1>1 DEF QueueInv, Filed, Id
    <2>2. /\ timers_' = timers_ \ {EntryOf(b)}
          /\ heap' = Delete({b})
          /\ activeTimers_' = activeTimers_ \ {id}
          /\ cancelled' = cancelled \cup {heap[b].sequence}
          /\ cancelingTimers_' = cancelingTimers_
      BY <1>1, <2>1 DEF CancelInLoop, EntryOf
    <2>3. /\ DOMAIN heap' = DOMAIN heap \ {b}
          /\ \A a \in DOMAIN heap' : heap'[a] = heap[a]
      BY <2>2 DEF Delete
    <2>4. /\ EntryOf(b) \notin expired /\ b \notin Adds(tasks)
          /\ heap[b].sequence <= created
          /\ \A a \in DOMAIN heap' : heap[a].sequence # heap[b].sequence
          /\ heap[b].sequence \notin fired
      BY <2>1, <2>3 DEF QueueInv, Placed, Numbered, Fired, EntryOf
    <2> HIDE DEF b
    <2>5. Placed'
      BY <2>1, <2>2, <2>3, <2>4 DEF QueueInv, Placed, EntryOf
    <2>6. Filed'
      BY <2>1, <2>2, <2>3, <2>4, ZenonT(60) DEF QueueInv, Placed, Filed, EntryOf, Id
    <2>7. Numbered'
      <3>1. \A s \in cancelled' : s \in cancelled \/ s = heap[b].sequence
        BY <2>2
      <3>2. \A s \in added' \cup fired' \cup cancelled' : s <= created'
        BY <2>4, <3>1 DEF QueueInv, Numbered
      <3> QED
        BY <2>3, <3>2 DEF QueueInv, Numbered
    <2>8. Cancelled'
      BY <2>1, <2>2, <2>3, <2>4 DEF QueueInv, Cancelled, EntryOf, Id
    <2>9. Fired'
      BY <2>1, <2>2, <2>3, <2>4 DEF QueueInv, Fired, EntryOf
    <2>10. Kept'
      BY <2>1, <2>2, <2>3, <2>4 DEF QueueInv, Kept
    <2> QED
      BY <2>5, <2>6, <2>7, <2>8, <2>9, <2>10 DEF RestInv
  <1>2. CASE id \notin activeTimers_ /\ callingExpiredTimers_
    <2>1. /\ cancelingTimers_' = cancelingTimers_ \cup {id}
          /\ cancelled' = IF id \in Ids(expired) THEN cancelled \cup {id[2]} ELSE cancelled
          /\ UNCHANGED <<timers_, activeTimers_, heap>>
      BY <1>2 DEF CancelInLoop
    <2>2. ASSUME NEW a \in DOMAIN heap, EntryOf(a) \in expired
          PROVE  id \in Ids(expired) \/ id # Id(a)
      BY <2>2 DEF Ids, EntryOf
    <2>3. id \in Ids(expired) =>
             \E a \in DOMAIN heap : EntryOf(a) \in expired /\ id = Id(a) /\ id[2] = heap[a].sequence
      BY DEF Ids, QueueInv, Placed, Id
    <2>4. Placed' /\ Filed' /\ Fired'
      BY <2>1 DEF QueueInv, Placed, Filed, Fired, EntryOf, Id
    <2>5. Numbered'
      BY <2>1, <2>3 DEF QueueInv, Numbered
    <2>6. Kept'
      BY <2>1 DEF QueueInv, Kept
    <2>7. Cancelled'
      <3>1. \A a, b \in DOMAIN heap : heap[a].sequence = heap[b].sequence => a = b
        BY DEF QueueInv, Numbered
      <3>2. ASSUME NEW a \in DOMAIN heap, heap[a].sequence \in cancelled'
            PROVE  EntryOf(a) \in expired /\ Id(a) \in cancelingTimers_'
        BY <2>1, <2>3, <3>1, <3>2 DEF QueueInv, Cancelled
      <3>3. ASSUME NEW a \in DOMAIN heap, EntryOf(a) \in expired, Id(a) \in cancelingTimers_'
            PROVE  heap[a].sequence \in cancelled'
        BY <2>1, <2>2, <3>3 DEF QueueInv, Cancelled, Id
      <3> QED
        BY <2>1, <3>2, <3>3 DEF Cancelled, EntryOf, Id
    <2> QED
      BY <2>4, <2>5, <2>6, <2>7 DEF RestInv
  <1>3. CASE id \notin activeTimers_ /\ ~callingExpiredTimers_
    <2>1. UNCHANGED <<timers_, activeTimers_, cancelingTimers_, heap, cancelled>>
      BY <1>3 DEF CancelInLoop
    <2> QED
      BY <2>1
         DEF QueueInv, RestInv, Placed, Filed, Numbered, Cancelled, Fired, Kept, EntryOf, Id
  <1> QED
    BY <1>1, <1>2, <1>3

\* addTimerInLoop(), of a Timer that is new or that a functor has held.
LEMMA AddTimerInLoopKeeps ==
    ASSUME QueueInv, NEW a \in Addr, NEW timer \in Timer, AddTimerInLoop(a, timer),
           a \notin DOMAIN heap \ Adds(tasks),
           DOMAIN heap' = DOMAIN heap \cup {a}, heap'[a] = timer,
           \A x \in DOMAIN heap \ {a} : heap'[x] = heap[x],
           timer.sequence \notin fired \cup cancelled,
           \A x \in DOMAIN heap \ {a} : heap[x].sequence # timer.sequence,
           created <= created', timer.sequence <= created', created' \in Nat,
           Adds(tasks') = Adds(tasks) \ {a}, AddedOnce(tasks'),
           UNCHANGED <<cancelingTimers_, expired, unrun, pc, fired, cancelled>>
    PROVE  RestInv'
  <1>1. /\ timers_' = timers_ \cup {EntryOf(a)'}
        /\ activeTimers_' = activeTimers_ \cup {Id(a)'}
        /\ added' = added \cup {timer.sequence}
    BY DEF AddTimerInLoop, EntryOf, Id
  <1>2. /\ \A x \in DOMAIN heap \ {a} : EntryOf(x)' = EntryOf(x) /\ Id(x)' = Id(x)
        /\ EntryOf(a)'[2] = a /\ Id(a)'[1] = a
        /\ \A x \in Adds(tasks) : x \in DOMAIN heap
        /\ \A x \in DOMAIN heap : heap[x] \in Timer
    BY DEF EntryOf, Id, QueueInv, Placed, QueueTypes, TypeOK, Timer
  <1>3. \A e \in timers_ \cup expired : e[2] # a
    BY DEF QueueInv, Placed
  <1>4. EntryOf(a)' \notin expired
    BY <1>2, <1>3
  <1>5. Placed'
    BY <1>1, <1>2, <1>3, <1>4 DEF QueueInv, Placed
  <1>6. Filed'
    <2>1. \A e \in timers_' : Id(e[2])' \in activeTimers_'
      BY <1>1, <1>2, <1>3 DEF QueueInv, Filed, Placed
    <2>2. ASSUME NEW x \in activeTimers_'
          PROVE  x[1] \in DOMAIN heap' /\ x = Id(x[1])' /\ EntryOf(x[1])' \in timers_'
      <3>1. CASE x \in activeTimers_
        <4>1. x[1] \in DOMAIN heap /\ x = Id(x[1]) /\ EntryOf(x[1]) \in timers_
          BY <3>1 DEF QueueInv, Filed
        <4>2. EntryOf(x[1])[2] = x[1]
          BY DEF EntryOf
        <4>3. x[1] # a
          BY <1>3, <4>1, <4>2
        <4> QED
          BY <1>1, <1>2, <4>1, <4>3
      <3>2. CASE x = Id(a)'
        BY <1>1, <1>2, <3>2
      <3> QED
        BY <1>1, <3>1, <3>2
    <2> QED
      BY <2>1, <2>2 DEF Filed
  <1>7. Numbered'
    <2>1. /\ created \in Nat /\ \A x \in DOMAIN heap : heap[x].sequence \in Int
          /\ \A s \in added \cup fired \cup cancelled : s \in Int
      BY <1>2 DEF QueueInv, QueueTypes, TypeOK, Timer, Sequence
    <2>2. \A x \in DOMAIN heap' : heap'[x].sequence <= created'
      BY <2>1 DEF QueueInv, Numbered
    <2>3. \A x, y \in DOMAIN heap' : heap'[x].sequence = heap'[y].sequence => x = y
      BY DEF QueueInv, Numbered
    <2>4. \A s \in added' \cup fired' \cup cancelled' : s <= created'
      BY <1>1, <2>1 DEF QueueInv, Numbered
    <2> QED
      BY <2>2, <2>3, <2>4 DEF Numbered
  <1>8. Cancelled'
    BY <1>2, <1>4 DEF QueueInv, Cancelled
  <1>9. Fired'
    BY <1>2, <1>4 DEF QueueInv, Fired
  <1>10. Kept'
    <2>1. ASSUME NEW s \in added' \ (cancelled' \cup fired')
          PROVE  \E x \in DOMAIN heap' \ Adds(tasks') : heap'[x].sequence = s
      <3>1. CASE s = timer.sequence
        BY <3>1
      <3>2. CASE s # timer.sequence
        <4>1. PICK x \in DOMAIN heap \ Adds(tasks) : heap[x].sequence = s
          BY <1>1, <2>1, <3>2 DEF QueueInv, Kept
        <4>2. x # a
          OBVIOUS
        <4> QED
          BY <4>1, <4>2
      <3> QED
        BY <3>1, <3>2
    <2> QED
      BY <2>1 DEF Kept
  <1> QED
    BY <1>5, <1>6, <1>7, <1>8, <1>9, <1>10 DEF RestInv

-----------------------------------------------------------------------------
(* The steps of handleRead() and of other threads.                         *)

\* addTimer() in another thread.
LEMMA ForeignAddTimerKeeps ==
    ASSUME QueueInv, NEW t \in Threads, NEW a \in Addr, NEW d \in Delays, NEW i \in Intervals,
           ForeignAddTimer(t, a, d, i)
    PROVE  RestInv'
  <1> DEFINE timer == NewTimer(d, i)
             task == [op |-> "add", timer |-> a]
  <1>1. /\ timer \in Timer /\ timer.sequence = created + 1 /\ created \in Nat
    BY NewTimerTypes DEF QueueInv, ForeignAddTimer
  <1>2. /\ a \notin DOMAIN heap /\ created' = created + 1
        /\ heap' = Allocate(a, timer) /\ tasks' = Append(tasks, task)
        /\ UNCHANGED <<timers_, activeTimers_, cancelingTimers_, pc, expired, unrun,
                       added, fired, cancelled>>
    BY DEF ForeignAddTimer, batchVars, historyVars
  <1> HIDE DEF timer
  <1>3. /\ DOMAIN heap' = DOMAIN heap \cup {a} /\ heap'[a] = timer
        /\ \A x \in DOMAIN heap : heap'[x] = heap[x] /\ x # a
    BY <1>2 DEF Allocate
  <1>4. Adds(tasks') = Adds(tasks) \cup {a} /\ AddedOnce(tasks')
    <2>1. task \in Task /\ task.op = "add" /\ task.timer = a
      BY DEF Task
    <2>2. a \notin Adds(tasks) /\ AddedOnce(tasks) /\ tasks \in Seq(Task)
      BY <1>2 DEF QueueInv, Placed, QueueTypes
    <2> HIDE DEF task
    <2> QED
      BY <1>2, <2>1, <2>2, AppendTask
  <1>5. /\ \A x \in DOMAIN heap : heap[x] \in Timer /\ heap[x].sequence \in Int
        /\ \A s \in added \cup fired \cup cancelled : s \in Int
    <2>1. /\ \A x \in DOMAIN heap : heap[x] \in Timer
          /\ added \subseteq Sequence /\ fired \subseteq Sequence /\ cancelled \subseteq Sequence
      BY DEF QueueInv, QueueTypes, TypeOK, Timer
    <2>2. \A x \in DOMAIN heap : heap[x].sequence \in Sequence
      BY <2>1 DEF Timer
    <2>3. Sequence \subseteq Int
      BY TimerBoundsAssumption DEF Sequence
    <2> QED
      BY <2>1, <2>2, <2>3
  <1>6. /\ \A x \in DOMAIN heap : heap[x].sequence < created + 1
        /\ \A s \in added \cup fired \cup cancelled : s < created + 1
    BY <1>1, <1>5 DEF QueueInv, Numbered
  <1>7. \A x \in DOMAIN heap : EntryOf(x)' = EntryOf(x) /\ Id(x)' = Id(x)
    BY <1>3 DEF EntryOf, Id
  <1>8. Placed'
    BY <1>2, <1>3, <1>4, <1>7 DEF QueueInv, Placed
  <1>9. Filed'
    BY <1>2, <1>3, <1>7 DEF QueueInv, Filed, Placed
  <1>10. Numbered'
    <2>1. \A s \in added \cup fired \cup cancelled : s <= created'
      BY <1>1, <1>2, <1>5, <1>6
    <2>2. \A x \in DOMAIN heap' : heap'[x].sequence <= created'
      BY <1>1, <1>2, <1>3, <1>5, <1>6
    <2>3. \A x, y \in DOMAIN heap' : heap'[x].sequence = heap'[y].sequence => x = y
      <3>1. \A x \in DOMAIN heap : heap[x].sequence # created + 1
        BY <1>1, <1>5, <1>6
      <3> QED
        BY <1>1, <1>3, <3>1 DEF QueueInv, Numbered
    <2> QED
      BY <1>2, <2>1, <2>2, <2>3 DEF Numbered
  <1>11. created + 1 \notin cancelled \cup fired /\ \A e \in expired : e # EntryOf(a)'
    <2>1. created + 1 \notin cancelled \cup fired
      BY <1>1, <1>5, <1>6
    <2>2. \A e \in expired : e[2] # a
      BY <1>2 DEF QueueInv, Placed
    <2> QED
      BY <2>1, <2>2 DEF EntryOf
  <1>12. Cancelled'
    BY <1>1, <1>2, <1>3, <1>7, <1>11 DEF QueueInv, Cancelled
  <1>13. Fired'
    BY <1>1, <1>2, <1>3, <1>7, <1>11 DEF QueueInv, Fired
  <1>14. Kept'
    BY <1>2, <1>3, <1>4 DEF QueueInv, Kept
  <1> QED
    BY <1>8, <1>9, <1>10, <1>12, <1>13, <1>14 DEF RestInv

\* handleRead() takes out what has expired.
LEMMA HandleReadKeeps ==
    ASSUME QueueInv, HandleRead
    PROVE  RestInv'
  <1>1. /\ pc' = "run" /\ expired' \subseteq timers_ /\ timers_' = timers_ \ expired'
        /\ unrun' = expired' /\ activeTimers_' = activeTimers_ \ Ids(expired')
        /\ cancelingTimers_' = {} /\ expired = {}
        /\ UNCHANGED <<heap, created, tasks, added, fired, cancelled>>
    BY DEF HandleRead, getExpired, userVars, historyVars, QueueInv, Placed
  <1>2. \A x : EntryOf(x)' = EntryOf(x) /\ Id(x)' = Id(x)
    BY <1>1 DEF EntryOf, Id
  <1>3. \A x \in DOMAIN heap : heap[x].sequence \notin cancelled /\ heap[x].sequence \notin fired
    BY <1>1 DEF QueueInv, Cancelled, Fired
  <1>4. Placed'
    BY <1>1, <1>2 DEF QueueInv, Placed
  <1>5. Filed'
    <2>1. ASSUME NEW e \in timers_' PROVE Id(e[2]) \in activeTimers_'
      <3>1. Id(e[2]) \in activeTimers_
        BY <1>1, <2>1 DEF QueueInv, Filed
      <3>2. ASSUME NEW f \in expired', Id(f[2]) = Id(e[2]) PROVE FALSE
        <4>1. f[2] = e[2]
          BY <3>2 DEF Id
        <4> QED
          BY <1>1, <2>1, <4>1 DEF QueueInv, Placed
      <3> QED
        BY <1>1, <3>1, <3>2 DEF Ids
    <2>2. ASSUME NEW x \in activeTimers_'
          PROVE  x[1] \in DOMAIN heap /\ x = Id(x[1]) /\ EntryOf(x[1]) \in timers_'
      <3>1. x[1] \in DOMAIN heap /\ x = Id(x[1]) /\ EntryOf(x[1]) \in timers_
        BY <1>1, <2>2 DEF QueueInv, Filed
      <3>2. EntryOf(x[1]) \notin expired'
        BY <1>1, <2>2, <3>1 DEF Ids, EntryOf
      <3> QED
        BY <1>1, <3>1, <3>2
    <2> QED
      BY <1>1, <1>2, <2>1, <2>2 DEF Filed
  <1>6. Numbered' /\ Kept'
    BY <1>1 DEF QueueInv, Numbered, Kept
  <1>7. Cancelled' /\ Fired'
    BY <1>1, <1>3 DEF Cancelled, Fired
  <1> QED
    BY <1>4, <1>5, <1>6, <1>7 DEF RestInv

\* A callback begins.
LEMMA RunTimerKeeps ==
    ASSUME QueueInv, RunTimer
    PROVE  RestInv'
  <1>1. PICK e \in unrun :
           /\ unrun' = unrun \ {e}
           /\ fired' = IF heap[e[2]].interval > 0 THEN fired
                       ELSE fired \cup {heap[e[2]].sequence}
    BY DEF RunTimer
  <1>2. UNCHANGED <<pc, expired, tasks, timers_, activeTimers_, cancelingTimers_, heap, created,
                    added, cancelled>>
    BY DEF RunTimer, userVars, setVars
  <1>3. e \in expired /\ e[2] \in DOMAIN heap /\ e = EntryOf(e[2]) /\ heap[e[2]].interval \in Nat
    BY DEF QueueInv, QueueTypes, TypeOK, Placed
  <1>4. \A x : EntryOf(x)' = EntryOf(x) /\ Id(x)' = Id(x)
    BY <1>2 DEF EntryOf, Id
  <1>5. Placed' /\ Filed' /\ Cancelled'
    BY <1>2, <1>4 DEF QueueInv, Placed, Filed, Cancelled
  <1>6. Numbered'
    <2>1. \A s \in fired' : s \in fired \/ s = heap[e[2]].sequence
      BY <1>1
    <2> QED
      BY <1>2, <1>3, <2>1 DEF QueueInv, Numbered
  <1>7. \A x \in DOMAIN heap : /\ EntryOf(x) = e => x = e[2]
                               /\ heap[x].sequence = heap[e[2]].sequence => x = e[2]
    BY <1>3 DEF EntryOf, QueueInv, Numbered
  <1>8. Fired'
    <2>1. ASSUME NEW x \in DOMAIN heap, heap[x].sequence \in fired'
          PROVE  EntryOf(x) \in expired \ unrun' /\ heap[x].interval = 0
      <3>1. CASE heap[x].sequence \in fired
        BY <1>1, <3>1 DEF QueueInv, Fired
      <3>2. CASE x = e[2] /\ ~(heap[e[2]].interval > 0)
        BY <1>1, <1>3, <3>2
      <3> QED
        BY <1>1, <1>7, <2>1, <3>1, <3>2
    <2>2. ASSUME NEW x \in DOMAIN heap, EntryOf(x) \in expired \ unrun', heap[x].interval = 0
          PROVE  heap[x].sequence \in fired'
      <3>1. CASE EntryOf(x) \in expired \ unrun
        BY <1>1, <2>2, <3>1 DEF QueueInv, Fired
      <3>2. CASE x = e[2]
        BY <1>1, <2>2, <3>2
      <3> QED
        BY <1>1, <1>7, <2>2, <3>1, <3>2
    <2> QED
      BY <1>2, <1>4, <2>1, <2>2 DEF Fired
  <1>9. Kept'
    BY <1>1, <1>2 DEF QueueInv, Kept
  <1> QED
    BY <1>5, <1>6, <1>8, <1>9 DEF RestInv

\* reset() restarts and deletes.
LEMMA ResetKeeps ==
    ASSUME QueueInv, Reset
    PROVE  RestInv'
  <1>1. /\ \A a : a \in Restarted <=> /\ a \in DOMAIN heap
                                      /\ EntryOf(a) \in expired
                                      /\ heap[a].interval > 0
                                      /\ Id(a) \notin cancelingTimers_
        /\ \A a : a \in DOMAIN heap' <=> /\ a \in DOMAIN heap
                                         /\ EntryOf(a) \notin expired \/ a \in Restarted
        /\ \A a \in DOMAIN heap' : /\ heap'[a].sequence = heap[a].sequence
                                   /\ heap'[a].interval = heap[a].interval
        /\ \A a \in DOMAIN heap' \ Restarted : heap'[a] = heap[a]
    BY ResetEffect DEF QueueInv
  <1>2. /\ timers_ \subseteq timers_'
        /\ \A a \in Restarted : EntryOf(a)' \in timers_'
        /\ \A e \in timers_' : e[2] \in DOMAIN heap' /\ e = EntryOf(e[2])'
        /\ \A e \in timers_' : e \in timers_ \/ \E a \in Restarted : e = EntryOf(a)'
    BY ResetEffect DEF QueueInv
  <1>3. /\ activeTimers_' = activeTimers_ \cup {Id(a) : a \in Restarted}
        /\ expired' = {} /\ pc' = "idle" /\ unrun = {} /\ unrun' = {}
        /\ UNCHANGED <<cancelingTimers_, created, tasks, added, fired, cancelled>>
    BY DEF Reset, userVars, historyVars
  <1>4. \A a \in DOMAIN heap' : Id(a)' = Id(a)
    BY <1>1 DEF Id
  <1>5. ASSUME NEW a \in Restarted PROVE a \notin Adds(tasks)
    <2>1. EntryOf(a) \in expired /\ EntryOf(a)[2] = a
      BY <1>1 DEF EntryOf
    <2> QED
      BY <2>1 DEF QueueInv, Placed
  <1>6. \A a \in Adds(tasks) : a \in DOMAIN heap'
    <2>1. ASSUME NEW a \in Adds(tasks) PROVE a \in DOMAIN heap /\ EntryOf(a) \notin expired
      BY <2>1 DEF QueueInv, Placed, EntryOf
    <2> QED
      BY <1>1, <2>1
  <1>7. Placed'
    <2>1. \A e \in timers_' : e[2] \notin Adds(tasks)
      BY <1>2, <1>5 DEF QueueInv, Placed, EntryOf
    <2>2. ASSUME NEW a \in DOMAIN heap' \ Adds(tasks) PROVE EntryOf(a)' \in timers_'
      <3>1. CASE a \notin Restarted
        <4>1. EntryOf(a) \in timers_
          BY <1>1, <2>2, <3>1 DEF QueueInv, Placed
        <4>2. EntryOf(a)' = EntryOf(a)
          BY <1>1, <2>2, <3>1 DEF EntryOf
        <4> QED
          BY <1>2, <4>1, <4>2
      <3> QED
        BY <1>2, <3>1
    <2> QED
      BY <1>2, <1>3, <1>6, <2>1, <2>2 DEF QueueInv, Placed
  <1>8. Filed'
    <2>1. ASSUME NEW e \in timers_' PROVE Id(e[2])' \in activeTimers_'
      <3>1. Id(e[2])' = Id(e[2])
        BY <1>2, <1>4
      <3>2. CASE e \in timers_
        BY <1>3, <3>1, <3>2 DEF QueueInv, Filed
      <3>3. CASE \E a \in Restarted : e = EntryOf(a)'
        <4>1. e[2] \in Restarted
          BY <3>3 DEF EntryOf
        <4> QED
          BY <1>3, <3>1, <4>1
      <3> QED
        BY <1>2, <3>2, <3>3
    <2>2. ASSUME NEW x \in activeTimers_'
          PROVE  x[1] \in DOMAIN heap' /\ x = Id(x[1])' /\ EntryOf(x[1])' \in timers_'
      <3>1. CASE x \in activeTimers_
        <4>1. x[1] \in DOMAIN heap /\ x = Id(x[1]) /\ EntryOf(x[1]) \in timers_
          BY <3>1 DEF QueueInv, Filed
        <4>2. EntryOf(x[1]) \notin expired
          BY <4>1 DEF QueueInv, Placed
        <4>3. x[1] \in DOMAIN heap' /\ x[1] \notin Restarted
          BY <1>1, <4>1, <4>2
        <4>4. EntryOf(x[1])' = EntryOf(x[1])
          BY <1>1, <4>3 DEF EntryOf
        <4> QED
          BY <1>2, <1>4, <4>1, <4>3, <4>4
      <3>2. CASE \E a \in Restarted : x = Id(a)
        <4>1. x[1] \in Restarted /\ x = Id(x[1])
          BY <3>2 DEF Id
        <4> QED
          BY <1>1, <1>2, <1>4, <4>1
      <3> QED
        BY <1>3, <3>1, <3>2
    <2> QED
      BY <2>1, <2>2 DEF Filed
  <1>9. Numbered'
    BY <1>1, <1>3 DEF QueueInv, Numbered
  <1>10. \A a \in DOMAIN heap' : heap[a].sequence \notin cancelled /\ heap[a].sequence \notin fired
    <2>1. \A a \in DOMAIN heap : heap[a].interval > 0 => heap[a].interval # 0
      BY DEF QueueInv, QueueTypes, TypeOK
    <2> QED
      BY <1>1, <2>1 DEF QueueInv, Cancelled, Fired
  <1>11. Cancelled' /\ Fired'
    BY <1>1, <1>3, <1>10 DEF Cancelled, Fired
  <1>12. Kept'
    <2>1. ASSUME NEW s \in added \ (cancelled \cup fired)
          PROVE  \E a \in DOMAIN heap' \ Adds(tasks) : heap'[a].sequence = s
      <3>1. PICK a \in DOMAIN heap \ Adds(tasks) : heap[a].sequence = s
        BY DEF QueueInv, Kept
      <3>2. heap[a].interval = 0 \/ heap[a].interval > 0
        BY DEF QueueInv, QueueTypes, TypeOK
      <3>3. CASE EntryOf(a) \in expired
        BY <1>1, <1>3, <2>1, <3>1, <3>2, <3>3 DEF QueueInv, Cancelled, Fired
      <3>4. CASE EntryOf(a) \notin expired
        BY <1>1, <3>1, <3>4
      <3> QED
        BY <3>3, <3>4
    <2> QED
      BY <1>3, <2>1 DEF Kept
  <1> QED
    BY <1>7, <1>8, <1>9, <1>11, <1>12 DEF RestInv

-----------------------------------------------------------------------------
(* The invariant is inductive.                                             *)

LEMMA QueueInvStep == QueueInv /\ [Next]_vars => QueueInv'
  <1> SUFFICES ASSUME QueueInv, [Next]_vars PROVE QueueInv'
    OBVIOUS
  <1>t. /\ ids \subseteq ActiveTimer /\ tasks \in Seq(Task) /\ AddedOnce(tasks)
        /\ \A a \in DOMAIN heap : heap[a] \in Timer /\ heap[a].sequence \in Int
        /\ \A s \in added \cup fired \cup cancelled : s \in Int
        /\ created \in Nat
    BY DEF QueueInv, QueueTypes, TypeOK, Timer, Sequence, Placed
  <1>1. ASSUME NEW a \in Addr, NEW d \in Delays, NEW i \in Intervals, AddTimer(a, d, i)
        PROVE  RestInv'
    <2> DEFINE timer == NewTimer(d, i)
    <2>1. timer \in Timer /\ timer.sequence = created + 1
      BY <1>1, NewTimerTypes DEF AddTimer, QueueInv
    <2>2. /\ a \notin DOMAIN heap /\ created' = created + 1 /\ heap' = Allocate(a, timer)
          /\ AddTimerInLoop(a, timer)
          /\ UNCHANGED <<cancelingTimers_, expired, unrun, pc, fired, cancelled, tasks>>
      BY <1>1 DEF AddTimer, batchVars
    <2> HIDE DEF timer
    <2>3. /\ DOMAIN heap' = DOMAIN heap \cup {a} /\ heap'[a] = timer
          /\ \A x \in DOMAIN heap \ {a} : heap'[x] = heap[x]
      BY <2>2 DEF Allocate
    <2>4. /\ timer.sequence \notin fired \cup cancelled
          /\ \A x \in DOMAIN heap \ {a} : heap[x].sequence # timer.sequence
      <3>1. /\ \A x \in DOMAIN heap : heap[x].sequence <= created
            /\ \A s \in fired \cup cancelled : s <= created
        BY DEF QueueInv, Numbered
      <3> QED
        BY <1>t, <2>1, <3>1
    <2>5. Adds(tasks') = Adds(tasks) \ {a} /\ AddedOnce(tasks')
      BY <1>t, <2>2 DEF QueueInv, Placed
    <2>6. created <= created' /\ timer.sequence <= created' /\ created' \in Nat
      BY <1>t, <2>1, <2>2
    <2> QED
      BY <2>1, <2>2, <2>3, <2>4, <2>5, <2>6, AddTimerInLoopKeeps
  <1>2. ASSUME NEW id \in ids, Cancel(id) PROVE RestInv'
    BY <1>2, <1>t, CancelInLoopKeeps DEF Cancel, userVars, batchVars
  <1>3. ASSUME NEW t \in Threads, NEW a \in Addr, NEW d \in Delays, NEW i \in Intervals,
               ForeignAddTimer(t, a, d, i)
        PROVE  RestInv'
    BY <1>3, ForeignAddTimerKeeps
  <1>4. ASSUME NEW t \in Threads, ForeignAddTimerReturn(t) PROVE RestInv'
    BY <1>4 DEF ForeignAddTimerReturn, QueueInv, RestInv, Placed, Filed, Numbered, Cancelled,
                Fired, Kept, EntryOf, Id, setVars, batchVars, historyVars
  <1>5. ASSUME NEW t \in Threads, NEW id \in ids, ForeignCancel(t, id) PROVE RestInv'
    <2> DEFINE task == [op |-> "cancel", id |-> id]
    <2>1. task \in Task /\ task.op = "cancel"
      BY <1>t DEF Task
    <2>2. tasks' = Append(tasks, task)
      BY <1>5 DEF ForeignCancel
    <2> HIDE DEF task
    <2>3. Adds(tasks') = Adds(tasks) /\ AddedOnce(tasks')
      BY <1>t, <2>1, <2>2, AppendTask
    <2> QED
      BY <1>5, <2>3
         DEF ForeignCancel, QueueInv, RestInv, Placed, Filed, Numbered, Cancelled,
             Fired, Kept, EntryOf, Id, setVars, batchVars, historyVars
  <1>6. ASSUME RunTask PROVE RestInv'
    <2> DEFINE task == Head(tasks)
    <2>1. /\ tasks # <<>> /\ tasks' = Tail(tasks)
          /\ UNCHANGED <<expired, unrun, pc, created, fired>>
      BY <1>6 DEF RunTask, batchVars
    <2>2. CASE /\ task.op = "add"
               /\ AddTimerInLoop(task.timer, heap[task.timer])
               /\ UNCHANGED <<cancelingTimers_, heap, cancelled>>
      <3> DEFINE a == task.timer
      <3>1. /\ a \in Adds(tasks) /\ AddedOnce(tasks') /\ Adds(tasks') = Adds(tasks) \ {a}
        BY <1>t, <2>1, <2>2, TailTasks
      <3>2. a \in DOMAIN heap /\ a \in Addr /\ heap[a] \in Timer
        BY <1>t, <3>1 DEF QueueInv, Placed, QueueTypes, TypeOK
      <3>3. EntryOf(a) \notin expired
        BY <3>1 DEF QueueInv, Placed, EntryOf
      <3>4. /\ heap[a].sequence \notin fired \cup cancelled
            /\ heap[a].sequence <= created
            /\ \A x \in DOMAIN heap \ {a} : heap[x].sequence # heap[a].sequence
        BY <3>2, <3>3 DEF QueueInv, Cancelled, Fired, Numbered
      <3>5. /\ AddTimerInLoop(a, heap[a])
            /\ UNCHANGED <<cancelingTimers_, heap, cancelled>>
        BY <2>2
      <3> HIDE DEF a
      <3>6. DOMAIN heap' = DOMAIN heap \cup {a}
        BY <3>2, <3>5
      <3>7. created <= created' /\ created' \in Nat
        BY <1>t, <2>1
      <3> QED
        BY <1>t, <2>1, <3>1, <3>2, <3>4, <3>5, <3>6, <3>7, AddTimerInLoopKeeps
    <2>3. CASE /\ task.op = "cancel"
               /\ CancelInLoop(task.id)
               /\ UNCHANGED <<timerfd, added>>
      <3>1. AddedOnce(tasks') /\ Adds(tasks') = Adds(tasks) /\ task \in Task
        BY <1>t, <2>1, <2>3, TailTasks
      <3>2. task.id \in ActiveTimer
        BY <2>3, <3>1, TaskTypes
      <3> QED
        BY <2>1, <2>3, <3>1, <3>2, CancelInLoopKeeps
    <2> QED
      BY <1>6, <2>2, <2>3 DEF RunTask
  <1>7. ASSUME PollTimerfd PROVE RestInv'
    BY <1>7 DEF PollTimerfd, QueueInv, RestInv, Placed, Filed, Numbered, Cancelled,
                Fired, Kept, EntryOf, Id, setVars, userVars, historyVars
  <1>8. ASSUME HandleRead PROVE RestInv'
    BY <1>8, HandleReadKeeps
  <1>9. ASSUME RunTimer PROVE RestInv'
    BY <1>9, RunTimerKeeps
  <1>10. ASSUME Reset PROVE RestInv'
    BY <1>10, ResetKeeps
  <1>11. ASSUME Tick PROVE RestInv'
    BY <1>11 DEF Tick, QueueInv, RestInv, Placed, Filed, Numbered, Cancelled,
                 Fired, Kept, EntryOf, Id, batchVars, userVars, historyVars
  <1>12. ASSUME AdjustClock PROVE RestInv'
    BY <1>12 DEF AdjustClock, QueueInv, RestInv, Placed, Filed, Numbered, Cancelled,
                 Fired, Kept, EntryOf, Id, setVars, batchVars, userVars, historyVars
  <1>13. CASE UNCHANGED vars
    BY <1>13 DEF vars, QueueInv, QueueTypes, TypeOK, Placed, Filed, Numbered, Cancelled,
                 Fired, Kept, EntryOf, Id, setVars, batchVars, userVars, clockVars, historyVars
  <1>14. CASE Next
    <2>1. RestInv'
      BY <1>1, <1>2, <1>3, <1>4, <1>5, <1>6, <1>7, <1>8, <1>9, <1>10, <1>11, <1>12, <1>14
         DEF Next, LoopCall, ForeignCall, HandleReadStep
    <2>2. QueueTypes'
      BY <1>14, QueueTypesStep DEF QueueInv
    <2> QED
      BY <2>1, <2>2 DEF QueueInv, RestInv
  <1> QED
    BY <1>13, <1>14

\* The invariant of the timer queue holds in every state.
THEOREM QueueInvariance == Spec => []QueueInv
  BY QueueInvInit, QueueInvStep, PTL DEF Spec

\* timers_ and activeTimers_ hold the same timers, under the expirations they
\* have: the sizes that insert(), cancelInLoop() and getExpired() assert equal
\* are, whatever the callbacks and the other threads do.
THEOREM TimerSetsAgree == Spec => []SetsAgree
  <1>1. QueueInv => SetsAgree
    <2> SUFFICES ASSUME QueueInv PROVE SetsAgree
      OBVIOUS
    <2>1. \A e \in timers_ : e[2] \in DOMAIN heap /\ heap[e[2]].expiration = e[1]
      BY DEF QueueInv, Placed, EntryOf
    <2>2. activeTimers_ = Ids(timers_)
      <3>1. ASSUME NEW x \in activeTimers_ PROVE x \in Ids(timers_)
        <4>1. x = Id(x[1]) /\ EntryOf(x[1]) \in timers_ /\ EntryOf(x[1])[2] = x[1]
          BY DEF QueueInv, Filed, EntryOf
        <4> QED
          BY <4>1 DEF Ids
      <3>2. ASSUME NEW x \in Ids(timers_) PROVE x \in activeTimers_
        BY DEF Ids, QueueInv, Filed
      <3> QED
        BY <3>1, <3>2
    <2> QED
      BY <2>1, <2>2 DEF SetsAgree
  <1> QED
    BY <1>1, QueueInvariance, PTL

\* A Timer object is reachable from one place, and deleted when it is from
\* none: no use after delete, no second delete and no leak, for any
\* interleaving of addTimer(), cancel() and the steps of handleRead().
THEOREM TimersOwnedOnce == Spec => []OwnedOnce
  <1>1. QueueInv => OwnedOnce
    <2> SUFFICES ASSUME QueueInv PROVE OwnedOnce
      OBVIOUS
    <2> DEFINE scheduled == {e[2] : e \in timers_}
               batch == {e[2] : e \in expired}
    <2>1. QueuedAdds = Adds(tasks)
      BY DEF QueuedAdds, Adds
    <2>2. \A a \in scheduled : a \in DOMAIN heap \ Adds(tasks) /\ EntryOf(a) \in timers_
      BY DEF QueueInv, Placed
    <2>3. \A a \in batch : a \in DOMAIN heap \ Adds(tasks) /\ EntryOf(a) \in expired
      BY DEF QueueInv, Placed
    <2>4. \A a \in DOMAIN heap \ Adds(tasks) : a \in scheduled \cup batch
      <3>1. \A a : EntryOf(a)[2] = a
        BY DEF EntryOf
      <3> QED
        BY <3>1 DEF QueueInv, Placed
    <2>5. Adds(tasks) \subseteq DOMAIN heap /\ timers_ \cap expired = {} /\ AddedOnce(tasks)
      BY DEF QueueInv, Placed
    <2> QED
      BY <2>1, <2>2, <2>3, <2>4, <2>5 DEF OwnedOnce, AddedOnce
  <1> QED
    BY <1>1, QueueInvariance, PTL

\* A cancelled timer is out of the queue, or in the running batch and marked
\* so that reset() deletes it.
THEOREM CancelledTimersStop == Spec => []CancelStops
  <1>1. QueueInv => CancelStops
    <2> SUFFICES ASSUME QueueInv PROVE CancelStops
      OBVIOUS
    <2>1. ASSUME NEW id \in activeTimers_ PROVE id[2] \notin cancelled
      <3>1. /\ id[1] \in DOMAIN heap /\ id = Id(id[1]) /\ EntryOf(id[1]) \notin expired
        BY DEF QueueInv, Filed, Placed
      <3>2. id[2] = heap[id[1]].sequence
        BY <3>1 DEF Id
      <3> QED
        BY <3>1, <3>2 DEF QueueInv, Cancelled
    <2>2. ASSUME NEW e \in expired, heap[e[2]].sequence \in cancelled
          PROVE  Id(e[2]) \in cancelingTimers_
      BY <2>2 DEF QueueInv, Placed, Cancelled
    <2> QED
      BY <2>1, <2>2 DEF CancelStops
  <1> QED
    BY <1>1, QueueInvariance, PTL

\* A timer that was neither cancelled nor run once is never lost, though
\* addresses are reused and TimerIds may be stale.
THEOREM TimersNotForgotten == Spec => []NotForgotten
  <1>1. QueueInv => NotForgotten
    <2> SUFFICES ASSUME QueueInv, NEW s \in added \ (cancelled \cup fired)
                 PROVE  \E id \in activeTimers_ \cup Ids(expired) : id[2] = s
      BY DEF NotForgotten
    <2>1. PICK a \in DOMAIN heap \ Adds(tasks) : heap[a].sequence = s
      BY DEF QueueInv, Kept
    <2>2. EntryOf(a) \in timers_ \cup expired /\ EntryOf(a)[2] = a /\ Id(a)[2] = s
      BY <2>1 DEF QueueInv, Placed, EntryOf, Id
    <2>3. Id(a) \in activeTimers_ \cup Ids(expired)
      BY <2>2 DEF QueueInv, Filed, Ids
    <2> QED
      BY <2>2, <2>3
  <1> QED
    BY <1>1, QueueInvariance, PTL

\* The callback of a one-shot timer does not run again.
THEOREM OneShotsRunOnce == Spec => []OneShotOnce
  <1>1. QueueInv => OneShotOnce
    <2> SUFFICES ASSUME QueueInv, NEW id \in activeTimers_ \cup Ids(unrun)
                 PROVE  id[2] \notin fired
      BY DEF OneShotOnce
    <2>1. CASE id \in activeTimers_
      <3>1. /\ id[1] \in DOMAIN heap /\ id = Id(id[1]) /\ EntryOf(id[1]) \notin expired
        BY <2>1 DEF QueueInv, Filed, Placed
      <3>2. id[2] = heap[id[1]].sequence
        BY <3>1 DEF Id
      <3> QED
        BY <3>1, <3>2 DEF QueueInv, Fired
    <2>2. CASE id \in Ids(unrun)
      <3>1. PICK e \in unrun : id = Id(e[2])
        BY <2>2 DEF Ids
      <3>2. e[2] \in DOMAIN heap /\ EntryOf(e[2]) = e /\ id[2] = heap[e[2]].sequence
        BY <3>1 DEF QueueInv, QueueTypes, TypeOK, Placed, Id
      <3> QED
        BY <3>1, <3>2 DEF QueueInv, Fired
    <2> QED
      BY <2>1, <2>2
  <1> QED
    BY <1>1, QueueInvariance, PTL

-----------------------------------------------------------------------------
(* The alarm.                                                              *)

\* A timer that is earlier is no longer away.
LEMMA AlarmsAreOrdered ==
    ASSUME now \in Int, NEW v \in Int, NEW w \in Int, v <= w
    PROVE  howMuchTimeFromNow(v) <= howMuchTimeFromNow(w)
  BY DEF howMuchTimeFromNow

\* addTimerInLoop() keeps the timerfd armed for the earliest timer.
LEMMA AddTimerInLoopArmed ==
    ASSUME QueueInv, Armed, NEW a \in Addr, NEW timer \in Timer, AddTimerInLoop(a, timer),
           UNCHANGED <<now, lag, pc>>
    PROVE  Armed'
  <1> DEFINE when == timer.expiration
             h(w) == howMuchTimeFromNow(w)
  <1>t. /\ now \in Int /\ lag \in Nat /\ when \in Int /\ \A e \in timers_ : e[1] \in Int
        /\ timerfd \in Int /\ h(when) \in Nat
        /\ \A e \in timers_ : h(e[1]) \in Nat
    <2>1. /\ now \in Int /\ lag \in Nat /\ when \in Int /\ \A e \in timers_ : e[1] \in Int
          /\ timerfd \in Int
      BY TimerBoundsAssumption DEF QueueInv, QueueTypes, TypeOK, Timer, Entries, Disarmed
    <2> QED
      BY <2>1, AlarmTypes
  <1>1. \A w : h(w)' = h(w)
    BY DEF howMuchTimeFromNow
  <1> SUFFICES ASSUME pc = "idle", NEW e \in timers_' PROVE timerfd' \in 0 .. h(e[1]) + lag
    BY <1>1 DEF Armed
  <1>2. \A f \in timers_ : timerfd >= 0 /\ timerfd <= h(f[1]) + lag
    BY <1>t DEF Armed
  <1>3. e \in timers_ \/ e[1] = when
    BY DEF AddTimerInLoop
  <1>4. e[1] \in Int /\ h(e[1]) \in Nat
    BY <1>t, <1>3
  <1>5. CASE EarliestChanged(when)
    <2>1. timerfd' = h(when)
      BY <1>5, <1>t, AlarmTypes DEF AddTimerInLoop
    <2>2. when <= e[1]
      BY <1>5, <1>t, <1>3 DEF EarliestChanged
    <2>3. h(when) <= h(e[1])
      BY <1>t, <1>4, <2>2, AlarmsAreOrdered
    <2> HIDE DEF h
    <2> QED
      BY <1>t, <1>4, <2>1, <2>3
  <1>6. CASE ~EarliestChanged(when)
    <2>1. PICK f \in timers_ : ~(when < f[1])
      BY <1>6 DEF EarliestChanged
    <2>2. timerfd' = timerfd
      BY <1>6 DEF AddTimerInLoop
    <2>3. \E g \in timers_ : h(g[1]) <= h(e[1])
      <3>1. CASE e \in timers_
        BY <1>4, <3>1, AlarmsAreOrdered, <1>t
      <3>2. CASE e[1] = when
        <4>1. f[1] <= e[1] /\ f[1] \in Int
          BY <1>t, <2>1, <3>2
        <4> QED
          BY <1>t, <1>4, <4>1, AlarmsAreOrdered
      <3> QED
        BY <1>3, <3>1, <3>2
    <2> HIDE DEF h
    <2>4. PICK g \in timers_ : h(g[1]) <= h(e[1])
      BY <2>3
    <2>5. timerfd >= 0 /\ timerfd <= h(g[1]) + lag /\ h(g[1]) \in Nat
      BY <1>t, <1>2
    <2> QED
      BY <1>t, <1>4, <2>2, <2>4, <2>5
  <1> QED
    BY <1>5, <1>6

\* Every step keeps the alarm early enough.
LEMMA ArmedStep == QueueInv /\ Armed /\ [Next]_vars => Armed'
  <1> SUFFICES ASSUME QueueInv, Armed, [Next]_vars PROVE Armed'
    OBVIOUS
  <1>t. /\ now \in Int /\ lag \in Nat /\ timerfd \in Int /\ \A e \in timers_ : e[1] \in Int
    BY TimerBoundsAssumption DEF QueueInv, QueueTypes, TypeOK, Entries, Disarmed
  <1>r. /\ timers_' \subseteq timers_ /\ UNCHANGED <<now, lag, timerfd>>
        /\ pc' = "idle" => pc = "idle"
        => Armed'
    BY DEF Armed, howMuchTimeFromNow
  <1>c. \A id : CancelInLoop(id) => timers_' \subseteq timers_
    BY DEF CancelInLoop
  <1>1. ASSUME NEW a \in Addr, NEW d \in Delays, NEW i \in Intervals, AddTimer(a, d, i)
        PROVE  Armed'
    <2>1. NewTimer(d, i) \in Timer
      BY <1>1, NewTimerTypes DEF AddTimer, QueueInv
    <2> QED
      BY <1>1, <2>1, AddTimerInLoopArmed DEF AddTimer, clockVars, batchVars
  <1>2. ASSUME NEW id \in ids, Cancel(id) PROVE Armed'
    BY <1>2, <1>c, <1>r DEF Cancel, clockVars, batchVars
  <1>3. CASE ForeignCall
    BY <1>3, <1>r DEF ForeignCall, ForeignAddTimer, ForeignAddTimerReturn, ForeignCancel,
                      setVars, clockVars, batchVars
  <1>4. CASE RunTask
    <2>1. CASE /\ Head(tasks).op = "add"
               /\ AddTimerInLoop(Head(tasks).timer, heap[Head(tasks).timer])
      <3>1. Head(tasks).timer \in DOMAIN heap
        BY <1>4, <2>1, TailTasks DEF RunTask, QueueInv, QueueTypes, Placed
      <3>2. Head(tasks).timer \in Addr /\ heap[Head(tasks).timer] \in Timer
        BY <3>1 DEF QueueInv, QueueTypes, TypeOK, Timer
      <3> QED
        BY <1>4, <2>1, <3>2, AddTimerInLoopArmed DEF RunTask, clockVars, batchVars
    <2>2. CASE CancelInLoop(Head(tasks).id) /\ UNCHANGED timerfd
      BY <1>4, <1>c, <1>r, <2>2 DEF RunTask, clockVars, batchVars
    <2> QED
      BY <1>4, <2>1, <2>2 DEF RunTask
  <1>5. CASE PollTimerfd \/ HandleRead
    BY <1>5 DEF PollTimerfd, HandleRead, Armed
  <1>6. CASE RunTimer
    BY <1>6, <1>r DEF RunTimer, callingExpiredTimers_, clockVars, setVars
  <1>7. CASE Reset
    <2>1. UNCHANGED <<now, lag>>
      BY <1>7 DEF Reset, clockVars
    <2>2. CASE timers_' = {}
      BY <2>2 DEF Armed
    <2>3. CASE \E w \in Int : timerfd' = resetTimerfd(w) /\ \A e \in timers_' : w <= e[1]
      <3>1. PICK w \in Int : timerfd' = resetTimerfd(w) /\ \A e \in timers_' : w <= e[1]
        BY <2>3
      <3>2. \A e \in timers_' : e[1] \in Int
        BY <1>7, ResetEffect DEF QueueInv
      <3>3. ASSUME NEW e \in timers_' PROVE timerfd' \in 0 .. howMuchTimeFromNow(e[1]) + lag
        <4>1. /\ timerfd' = howMuchTimeFromNow(w) /\ howMuchTimeFromNow(w) \in Nat
              /\ howMuchTimeFromNow(e[1]) \in Nat
              /\ howMuchTimeFromNow(w) <= howMuchTimeFromNow(e[1])
          BY <1>t, <3>1, <3>2, AlarmTypes, AlarmsAreOrdered
        <4> QED
          BY <1>t, <4>1
      <3> QED
        BY <2>1, <3>3 DEF Armed, howMuchTimeFromNow
    <2> QED
      BY <1>7, <2>2, <2>3, NextAlarmEarliest DEF QueueInv
  <1>8. CASE Tick
    <2>1. /\ now' = IF now < MaxTime THEN now + 1 ELSE now
          /\ timerfd' = IF timerfd > 0 THEN timerfd - 1 ELSE timerfd
          /\ lag' = lag /\ timers_' = timers_ /\ pc' = pc
      BY <1>8 DEF Tick, batchVars
    <2>2. ASSUME pc = "idle", NEW e \in timers_
          PROVE  timerfd' \in 0 .. howMuchTimeFromNow(e[1])' + lag'
      <3>1. timerfd >= 0 /\ timerfd <= howMuchTimeFromNow(e[1]) + lag /\ e[1] \in Int
        BY <1>t, <2>2, AlarmTypes DEF Armed
      <3> QED
        BY <1>t, <2>1, <3>1 DEF howMuchTimeFromNow
    <2> QED
      BY <2>1, <2>2 DEF Armed
  <1>9. CASE AdjustClock
    <2>1. /\ \/ now' = now + 1 /\ lag' = lag + 1
             \/ now' = now - 1 /\ lag' = lag
          /\ timerfd' = timerfd /\ timers_' = timers_ /\ pc' = pc
      BY <1>9 DEF AdjustClock, setVars, batchVars
    <2>2. ASSUME pc = "idle", NEW e \in timers_
          PROVE  timerfd' \in 0 .. howMuchTimeFromNow(e[1])' + lag'
      <3>1. timerfd >= 0 /\ timerfd <= howMuchTimeFromNow(e[1]) + lag /\ e[1] \in Int
        BY <1>t, <2>2, AlarmTypes DEF Armed
      <3> QED
        BY <1>t, <2>1, <3>1 DEF howMuchTimeFromNow
    <2> QED
      BY <2>1, <2>2 DEF Armed
  <1>10. CASE UNCHANGED vars
    BY <1>10, <1>r DEF vars, setVars, clockVars, batchVars
  <1> QED
    BY <1>1, <1>2, <1>3, <1>4, <1>5, <1>6, <1>7, <1>8, <1>9, <1>10
       DEF Next, LoopCall, HandleReadStep

\* While the loop is in poll() and there are timers, the timerfd goes off no
\* later than the earliest of them is due, as the clock stood when it was
\* armed: whatever was added or cancelled, and by whom.
THEOREM TimerfdArmed == Spec => []Armed
  <1>1. Init => Armed
    BY DEF Init, Armed
  <1> QED
    BY <1>1, ArmedStep, QueueInvariance, PTL DEF Spec

=============================================================================
