------------------------ MODULE TcpConnectionProofs ------------------------
(***************************************************************************)
(* Proofs about TcpConnection, for any number of threads, of calls and of  *)
(* pieces of data, and any high water mark.                                *)
(***************************************************************************)
EXTENDS TcpConnection, SequenceTheorems, TLAPS

-----------------------------------------------------------------------------
(* Types.                                                                  *)

TaskOps == ApiCalls \cup
           {"connectEstablished", "handleRead", "handleError", "handleClose", "closeCallback",
            "connectDestroyed", "remove", "handleWrite", "writeComplete", "highWater", "userCode"}
Tasks == [op : TaskOps, msg : Nat]
Functors == [op : TaskOps, msg : Nat, shared : BOOLEAN]

Types ==
    /\ state_ \in States
    /\ events \subseteq {"R", "W"}
    /\ index \in {"kNew", "kAdded", "kDeleted"}
    /\ outputBuffer_ \in Seq(Nat) /\ wire \in Seq(Nat) /\ accepted \in Seq(Nat)
    /\ wrShut \in BOOLEAN
    /\ lpc \in {"poll", "events", "functors"}
    /\ todo \in Seq(Tasks)
    /\ pending \in Seq(Functors) /\ batch \in Seq(Functors)
    /\ batchHolds \in BOOLEAN /\ owned \in BOOLEAN /\ alive \in BOOLEAN
    /\ hold \in [Threads -> BOOLEAN]
    /\ call \in [Threads -> [op : ApiCalls, msg : Nat] \cup {NoCall}]
    /\ downs \in Nat /\ calls \in Nat

LEMMA TaskFacts ==
    /\ \A op \in TaskOps : /\ Task(op) \in Tasks /\ Task(op).op = op
                           /\ Shared(op) \in Functors /\ Shared(op).op = op /\ Shared(op).shared
                           /\ Shared(op).msg = 0
    /\ \A op \in TaskOps, m \in Nat : /\ [op |-> op, msg |-> m] \in Tasks
                                      /\ Raw(op, m) \in Functors /\ Raw(op, m).op = op
                                      /\ ~Raw(op, m).shared
    /\ \A f \in Functors : f.op \in TaskOps /\ f.msg \in Nat /\ f.shared \in BOOLEAN
    /\ \A t \in Tasks : t.op \in TaskOps /\ t.msg \in Nat
    /\ ApiCalls \subseteq TaskOps
  BY DEF Task, Shared, Raw, Tasks, Functors, TaskOps

\* What follows a handler.
LEMMA ThenTypes ==
    ASSUME todo \in Seq(Tasks), todo # <<>>, NEW more \in Seq(Tasks), Then(more)
    PROVE  todo' \in Seq(Tasks) /\ Tail(todo) \in Seq(Tasks)
  <1>1. Tail(todo) \in Seq(Tasks)
    BY HeadTailProperties
  <1> QED
    BY <1>1, ConcatProperties DEF Then

LEMMA UpdateTypes ==
    ASSUME NEW ev \in SUBSET {"R", "W"}, UpdateChannel(ev)
    PROVE  events' \subseteq {"R", "W"} /\ index' \in {"kAdded", "kDeleted"}
  BY DEF UpdateChannel

\* Writing n units of s, and keeping the rest.
LEMMA Split ==
    ASSUME NEW s \in Seq(Nat), NEW n \in 0..Len(s)
    PROVE  /\ SubSeq(s, 1, n) \in Seq(Nat) /\ SubSeq(s, n + 1, Len(s)) \in Seq(Nat)
           /\ Len(SubSeq(s, 1, n)) = n /\ Len(SubSeq(s, n + 1, Len(s))) = Len(s) - n
           /\ SubSeq(s, 1, n) \o SubSeq(s, n + 1, Len(s)) = s
  <1>1. Len(s) \in Nat /\ n \in Nat /\ n <= Len(s)
    BY LenProperties
  <1>2. \A i \in 1..Len(s) : s[i] \in Nat
    BY ElementOfSeq
  <1>3. /\ SubSeq(s, 1, n) \in Seq(Nat) 
        /\ Len(SubSeq(s, 1, n)) = IF 1 <= n THEN n - 1 + 1 ELSE 0
    <2>1. \A i \in 1..n : s[i] \in Nat
      BY <1>1, <1>2
    <2> QED
      BY <1>1, <2>1, SubSeqProperties
  <1>4. /\ SubSeq(s, n + 1, Len(s)) \in Seq(Nat)
        /\ Len(SubSeq(s, n + 1, Len(s))) = IF n + 1 <= Len(s) THEN Len(s) - (n + 1) + 1 ELSE 0
    <2>1. \A i \in (n + 1)..Len(s) : s[i] \in Nat
      BY <1>1, <1>2
    <2> QED
      BY <1>1, <2>1, SubSeqProperties
  <1>5. SubSeq(s, 1, n) \o SubSeq(s, n + 1, Len(s)) = SubSeq(s, 1, Len(s))
    <2>1. 1 \in 1..(Len(s) + 1) /\ n \in (1 - 1)..Len(s) /\ Len(s) \in n..Len(s)
      BY <1>1
    <2> QED
      BY <2>1, ConcatAdjacentSubSeq
  <1>6. SubSeq(s, 1, Len(s)) = s
    BY SubSeqFull
  <1>7. Len(SubSeq(s, 1, n)) = n /\ Len(SubSeq(s, n + 1, Len(s))) = Len(s) - n
    <2> DEFINE a == Len(SubSeq(s, 1, n))
               b == Len(SubSeq(s, n + 1, Len(s)))
               k == Len(s)
    <2>1. /\ k \in Nat /\ n \in Nat /\ n <= k /\ a = (IF 1 <= n THEN n - 1 + 1 ELSE 0)
          /\ b = (IF n + 1 <= k THEN k - (n + 1) + 1 ELSE 0)
      BY <1>1, <1>3, <1>4
    <2> HIDE DEF a, b, k
    <2>2. a = n /\ b = k - n
      BY ONLY <2>1
    <2> QED
      BY <2>2 DEF a, b, k
  <1> QED
    BY <1>3, <1>4, <1>5, <1>6, <1>7

\* What sendInLoop() does to the data and to the channel.
LEMMA SendCases ==
    ASSUME Types, NEW n \in 0..2, sendInLoop(n)
    PROVE  /\ Head(todo).op = "send" /\ todo # <<>> /\ Then(<<>>)
           /\ \/ UNCHANGED <<dataVars, chanVars, pending>>
              \/ \E u \in Seq(Nat) \ {<<>>}, rest \in Seq(Nat) :
                   /\ state_ # "kDisconnected"
                   /\ WriteDirectly => ~wrShut
                   /\ accepted' = accepted \o u
                   /\ outputBuffer_' = outputBuffer_ \o rest
                   /\ \/ WriteDirectly /\ \E w \in Seq(Nat) : w \o rest = u /\ wire' = wire \o w
                      \/ ~WriteDirectly /\ rest = u /\ wire' = wire
                   /\ \/ rest = <<>> /\ UNCHANGED chanVars
                      \/ rest # <<>> /\ isWriting /\ UNCHANGED chanVars
                      \/ rest # <<>> /\ ~isWriting /\ enableWriting
                   /\ \/ pending' = pending
                      \/ pending' = Append(pending, Shared("writeComplete"))
                      \/ pending' = Append(pending, Shared("highWater"))
           /\ UNCHANGED <<connVars, wrShut, owned, failed, downs, Outside>>
  <1>1. /\ Head(todo).op = "send" /\ todo # <<>> /\ Then(<<>>)
        /\ UNCHANGED <<connVars, wrShut, owned, failed, downs, Outside>>
    BY DEF sendInLoop, Do
  <1>2. PICK u : u = Units(Head(todo).msg)
    OBVIOUS
  <1>3. u \in Seq(Nat) /\ Len(u) = 2 /\ u # <<>>
    <2>1. Head(todo).msg \in Nat
      BY <1>1, HeadTailProperties, TaskFacts DEF Types
    <2> QED
      BY <1>2, <2>1 DEF Units
  <1>4. PICK rest : rest = IF WriteDirectly THEN SubSeq(u, n + 1, Len(u)) ELSE u
    OBVIOUS
  <1>5. /\ SubSeq(u, 1, n) \in Seq(Nat) /\ SubSeq(u, n + 1, Len(u)) \in Seq(Nat)
        /\ SubSeq(u, 1, n) \o SubSeq(u, n + 1, Len(u)) = u
    BY <1>3, Split
  <1>6. rest \in Seq(Nat)
    BY <1>3, <1>4, <1>5
  <1>7. ~WriteDirectly => SubSeq(u, 1, n) = <<>>
    BY <1>2, SubSeqEmpty DEF sendInLoop
  <1>8. /\ ~WriteDirectly => n = 0
        /\ \/ UNCHANGED <<dataVars, chanVars, pending>>
           \/ /\ state_ # "kDisconnected"
              /\ WriteDirectly => ~wrShut
              /\ wire' = wire \o SubSeq(u, 1, n)
              /\ outputBuffer_' = outputBuffer_ \o rest
              /\ accepted' = accepted \o u
              /\ \/ rest = <<>> /\ UNCHANGED chanVars
                 \/ rest # <<>> /\ isWriting /\ UNCHANGED chanVars
                 \/ rest # <<>> /\ ~isWriting /\ enableWriting
              /\ \/ pending' = pending
                 \/ pending' = Append(pending, Shared("writeComplete"))
                 \/ pending' = Append(pending, Shared("highWater"))
    BY <1>2, <1>4 DEF sendInLoop
  <1>9. ~WriteDirectly => wire \o SubSeq(u, 1, n) = wire
    BY <1>7, ConcatEmptySeq DEF Types
  <1> QED
    BY <1>1, <1>3, <1>4, <1>5, <1>6, <1>8, <1>9

LEMMA TypesInit == Init => Types
  <1> SUFFICES ASSUME Init PROVE Types
    OBVIOUS
  <1>1. pending \in Seq(Functors)
    BY TaskFacts DEF Init, TaskOps
  <1>2. /\ hold \in [Threads -> BOOLEAN]
        /\ call \in [Threads -> [op : ApiCalls, msg : Nat] \cup {NoCall}]
    BY DEF Init
  <1>3. /\ <<>> \in Seq(Nat) /\ <<>> \in Seq(Tasks) /\ <<>> \in Seq(Functors)
    BY EmptySeq
  <1> QED
    BY <1>1, <1>2, <1>3 DEF Init, Types, States

\* The handlers that only pass on to others.
Passing == handleRead \/ handleError \/ forceCloseInLoop \/ userCallback \/ userCodeReturns

LEMMA PassingCases ==
    ASSUME Passing
    PROVE  /\ todo # <<>> /\ failed = {}
           /\ \/ Then(<<>>) \/ Then(<<Task("userCode")>>)
              \/ Head(todo).op \in {"handleRead", "forceClose"} /\ Then(<<Task("handleClose")>>)
           /\ Head(todo).op \in {"handleRead", "handleError", "forceClose", "writeComplete",
                                 "highWater", "userCode"}
           /\ UNCHANGED <<connVars, chanVars, dataVars, wrShut, pending, owned, failed, downs,
                          Outside>>
  BY DEF Passing, handleRead, handleError, forceCloseInLoop, userCallback, userCodeReturns, Do,
         Running

\* What the handlers and the other steps do to the types.
LEMMA TypesHandler ==
    ASSUME Types, Handler
    PROVE  Types'
  <1> DEFINE Ts(s) == s \in Seq(Tasks)
  <1>0. /\ <<>> \in Seq(Tasks)
        /\ \A op \in TaskOps : <<Task(op)>> \in Seq(Tasks)
        /\ \A op, p \in TaskOps : <<Task(op), Task(p)>> \in Seq(Tasks)
    BY TaskFacts
  <1>1. ASSUME todo # <<>>, NEW more \in Seq(Tasks), Then(more) PROVE todo' \in Seq(Tasks)
    BY <1>1, ThenTypes DEF Types
  <1>2. /\ {"connectEstablished", "userCode", "closeCallback", "connectDestroyed", "remove",
            "handleClose", "shutdown", "writeComplete", "highWater"} \subseteq TaskOps
    BY DEF TaskOps, ApiCalls
  <1>3. ASSUME NEW op \in TaskOps PROVE Append(pending, Shared(op)) \in Seq(Functors)
    BY TaskFacts, AppendProperties DEF Types
  <1>4. CASE Passing
    <2>1. todo' \in Seq(Tasks)
      BY <1>0, <1>1, <1>2, <1>4, PassingCases
    <2> QED
      BY <1>4, <2>1, PassingCases DEF Types, connVars, chanVars, dataVars, Outside, countVars
  <1>5. CASE connectEstablished
    <2>1. todo' \in Seq(Tasks)
      BY <1>0, <1>1, <1>2, <1>5 DEF connectEstablished, Do
    <2>2. events' \subseteq {"R", "W"} /\ index' \in {"kAdded", "kDeleted"}
      BY <1>5, UpdateTypes DEF connectEstablished, enableReading, Types
    <2> QED
      BY <1>5, <2>1, <2>2 DEF connectEstablished, Types, dataVars, queueVars, sockVars, countVars, States
  <1>6. CASE handleClose
    <2>1. todo' \in Seq(Tasks)
      BY <1>0, <1>1, <1>2, <1>6 DEF handleClose, Do
    <2>2. events' \subseteq {"R", "W"} /\ index' \in {"kAdded", "kDeleted"}
      BY <1>6, UpdateTypes DEF handleClose, disableAll, Types
    <2> QED
      BY <1>6, <2>1, <2>2 DEF handleClose, Types, dataVars, Outside, countVars, States
  <1>7. CASE closeCallback
    <2>1. todo' \in Seq(Tasks)
      BY <1>0, <1>1, <1>7 DEF closeCallback, Do
    <2>2. pending' \in Seq(Functors)
      BY <1>2, <1>3, <1>7 DEF closeCallback
    <2> QED
      BY <1>7, <2>1, <2>2 DEF closeCallback, Types, connVars, chanVars, dataVars, Outside, countVars
  <1>8. CASE connectDestroyed
    <2>1. todo' \in Seq(Tasks)
      BY <1>0, <1>1, <1>2, <1>8 DEF connectDestroyed, Do
    <2>2. events' \subseteq {"R", "W"} /\ index' \in {"kNew", "kAdded", "kDeleted"}
      BY <1>8, UpdateTypes DEF connectDestroyed, disableAll, Types, chanVars
    <2> QED
      BY <1>8, <2>1, <2>2 DEF connectDestroyed, Types, dataVars, Outside, countVars, States
  <1>9. CASE removeChannel
    <2>1. todo' \in Seq(Tasks)
      BY <1>0, <1>1, <1>9 DEF removeChannel, Do
    <2> QED
      BY <1>9, <2>1 DEF removeChannel, Types, connVars, dataVars, Outside, countVars
  <1>10. ASSUME NEW n \in 0..2, sendInLoop(n) PROVE Types'
    <2>1. todo' \in Seq(Tasks)
      BY <1>0, <1>1, <1>10, SendCases
    <2>2. events' \subseteq {"R", "W"} /\ index' \in {"kNew", "kAdded", "kDeleted"}
      BY <1>10, SendCases, UpdateTypes DEF enableWriting, Types, chanVars
    <2>3. pending' \in Seq(Functors)
      BY <1>2, <1>3, <1>10, SendCases DEF Types
    <2>4. outputBuffer_' \in Seq(Nat) /\ wire' \in Seq(Nat) /\ accepted' \in Seq(Nat)
      <3>1. CASE UNCHANGED dataVars
        BY <3>1 DEF Types, dataVars
      <3>2. ASSUME NEW u \in Seq(Nat), NEW rest \in Seq(Nat), NEW w \in Seq(Nat),
                   accepted' = accepted \o u, outputBuffer_' = outputBuffer_ \o rest,
                   wire' = wire \/ wire' = wire \o w
            PROVE  outputBuffer_' \in Seq(Nat) /\ wire' \in Seq(Nat) /\ accepted' \in Seq(Nat)
        <4>1. outputBuffer_ \in Seq(Nat) /\ wire \in Seq(Nat) /\ accepted \in Seq(Nat)
          BY DEF Types
        <4>2. outputBuffer_ \o rest \in Seq(Nat)
          BY ONLY <3>2, <4>1, ConcatProperties
        <4>3. accepted \o u \in Seq(Nat)
          BY ONLY <3>2, <4>1, ConcatProperties
        <4>4. wire \o w \in Seq(Nat)
          BY ONLY <3>2, <4>1, ConcatProperties
        <4> QED
          BY <3>2, <4>1, <4>2, <4>3, <4>4
      <3> QED
        BY <1>10, <3>1, <3>2, SendCases
    <2> QED
      BY <1>10, <2>1, <2>2, <2>3, <2>4, SendCases DEF Types, connVars, Outside, countVars
  <1>11. ASSUME NEW n \in 0..Len(outputBuffer_), handleWrite(n) PROVE Types'
    <2>1. todo' \in Seq(Tasks)
      BY <1>0, <1>1, <1>2, <1>11 DEF handleWrite, Do, Drained
    <2>2. events' \subseteq {"R", "W"} /\ index' \in {"kNew", "kAdded", "kDeleted"}
      BY <1>11, UpdateTypes DEF handleWrite, Drained, disableWriting, Types, chanVars
    <2>3. pending' \in Seq(Functors)
      BY <1>2, <1>3, <1>11 DEF handleWrite, Drained, Types
    <2>4. outputBuffer_' \in Seq(Nat) /\ wire' \in Seq(Nat)
      BY <1>11, Split, ConcatProperties DEF handleWrite, Retrieve, Types
    <2> QED
      BY <1>11, <2>1, <2>2, <2>3, <2>4 DEF handleWrite, Types, connVars, Outside, countVars
  <1>12. CASE shutdownInLoop
    <2>1. todo' \in Seq(Tasks)
      BY <1>0, <1>1, <1>12 DEF shutdownInLoop, Do
    <2> QED
      BY <1>12, <2>1 DEF shutdownInLoop, Types, connVars, chanVars, dataVars, Outside, countVars
  <1>13. CASE startReadInLoop
    <2>1. todo' \in Seq(Tasks)
      BY <1>0, <1>1, <1>13 DEF startReadInLoop, Do
    <2>2. events' \subseteq {"R", "W"} /\ index' \in {"kNew", "kAdded", "kDeleted"}
      BY <1>13, UpdateTypes DEF startReadInLoop, enableReading, Types, chanVars
    <2> QED
      BY <1>13, <2>1, <2>2 DEF startReadInLoop, Types, dataVars, Outside, countVars
  <1>14. CASE stopReadInLoop
    <2>1. todo' \in Seq(Tasks)
      BY <1>0, <1>1, <1>14 DEF stopReadInLoop, Do
    <2>2. events' \subseteq {"R", "W"} /\ index' \in {"kNew", "kAdded", "kDeleted"}
      BY <1>14, UpdateTypes DEF stopReadInLoop, disableReading, Types, chanVars
    <2> QED
      BY <1>14, <2>1, <2>2 DEF stopReadInLoop, Types, dataVars, Outside, countVars
  <1> QED
    BY <1>4, <1>5, <1>6, <1>7, <1>8, <1>9, <1>10, <1>11, <1>12, <1>13, <1>14
    DEF Handler, Passing

\* Every other step.
Other == \/ doPendingFunctors \/ RunFunctor \/ EndFunctors
         \/ \E w \in BOOLEAN : Poll(w)
         \/ \E op \in LoopCalls : LoopCall(op)
         \/ Foreign \/ Peer \/ DestroyOwner

LEMMA HandleEventTypes ==
    ASSUME NEW revents
    PROVE  /\ handleEvent(revents) \in Seq(Tasks)
           /\ revents = {} => handleEvent(revents) = <<>>
           /\ \A i \in 1..Len(handleEvent(revents)) :
                 handleEvent(revents)[i].op
                    \in {"handleClose", "handleError", "handleRead", "handleWrite"}
  <1> DEFINE Evs == {Task("handleClose"), Task("handleError"), Task("handleRead"),
                     Task("handleWrite")}
             cb(p, op) == IF p THEN <<Task(op)>> ELSE <<>>
             a == cb("HUP" \in revents /\ "IN" \notin revents, "handleClose")
             b == cb("ERR" \in revents, "handleError")
             c == cb("IN" \in revents, "handleRead")
             d == cb("OUT" \in revents, "handleWrite")
  <1>1. a \in Seq(Evs) /\ b \in Seq(Evs) /\ c \in Seq(Evs) /\ d \in Seq(Evs)
    <2>1. ASSUME NEW e \in Evs PROVE <<e>> \in Seq(Evs)
      OBVIOUS
    <2>2. <<>> \in Seq(Evs)
      BY EmptySeq
    <2>3. /\ <<Task("handleClose")>> \in Seq(Evs) /\ <<Task("handleError")>> \in Seq(Evs)
          /\ <<Task("handleRead")>> \in Seq(Evs) /\ <<Task("handleWrite")>> \in Seq(Evs)
      BY <2>1
    <2> HIDE DEF Evs
    <2> QED
      BY <2>2, <2>3
  <1>2. handleEvent(revents) = a \o b \o c \o d
    BY DEF handleEvent
  <1>3. revents = {} => handleEvent(revents) = <<>>
    <2>1. ASSUME revents = {} PROVE a = <<>> /\ b = <<>> /\ c = <<>> /\ d = <<>>
      BY <2>1
    <2>2. <<>> \o <<>> \o <<>> \o <<>> = <<>>
      BY ConcatEmptySeq, EmptySeq
    <2> QED
      BY <1>2, <2>1, <2>2
  <1> HIDE DEF a, b, c, d, Evs
  <1>4. a \o b \in Seq(Evs)
    BY <1>1, ConcatProperties
  <1>5. a \o b \o c \in Seq(Evs)
    BY <1>1, <1>4, ConcatProperties
  <1>6. a \o b \o c \o d \in Seq(Evs)
    BY <1>1, <1>5, ConcatProperties
  <1>7. /\ Evs \subseteq Tasks
        /\ \A e \in Evs : e.op \in {"handleClose", "handleError", "handleRead", "handleWrite"}
    BY TaskFacts DEF Evs, TaskOps
  <1>8. handleEvent(revents) \in Seq(Tasks)
    BY <1>2, <1>6, <1>7, SeqMonotonic
  <1>9. \A i \in 1..Len(handleEvent(revents)) : handleEvent(revents)[i] \in Evs
    BY <1>2, <1>6, ElementOfSeq
  <1> QED
    BY <1>3, <1>7, <1>8, <1>9

LEMMA TypesOther ==
    ASSUME Types, Other
    PROVE  Types'
  <1>1. CASE doPendingFunctors
    BY <1>1 DEF doPendingFunctors, Types, connVars, chanVars, dataVars, sockVars, refVars, countVars
  <1>2. CASE RunFunctor
    <2>1. Head(batch) \in Functors /\ Tail(batch) \in Seq(Functors)
      BY <1>2, HeadTailProperties DEF RunFunctor, Types
    <2>2. todo' \in Seq(Tasks)
      <3>1. PICK x : x = [op |-> Head(batch).op, msg |-> Head(batch).msg]
        OBVIOUS
      <3>2. x \in Tasks
        BY <2>1, <3>1, TaskFacts
      <3>3. todo' = <<x>>
        BY <1>2, <3>1 DEF RunFunctor
      <3> QED
        BY <3>2, <3>3
    <2> QED
      BY <1>2, <2>1, <2>2
      DEF RunFunctor, Types, connVars, chanVars, dataVars, sockVars, refVars, countVars
  <1>3. CASE EndFunctors
    <2>1. alive' \in BOOLEAN
      BY <1>3 DEF EndFunctors, Destroy
    <2> QED
      BY <1>3, <2>1
      DEF EndFunctors, Types, connVars, chanVars, dataVars, sockVars, refVars, countVars
  <1>4. ASSUME NEW w \in BOOLEAN, Poll(w) PROVE Types'
    BY <1>4, HandleEventTypes
    DEF Poll, Types, connVars, chanVars, dataVars, sockVars, refVars, countVars
  <1>5. ASSUME NEW op \in LoopCalls, LoopCall(op) PROVE Types'
    <2>0. op \in ApiCalls /\ op \in TaskOps /\ calls + 1 \in Nat /\ calls' = calls + 1
      BY <1>5, CallsAssumption, TaskFacts DEF Types, LoopCall
    <2>1. todo' \in Seq(Tasks)
      <3>1. <<[op |-> op, msg |-> calls + 1]>> \in Seq(Tasks)
        BY <2>0, TaskFacts
      <3>2. <<[op |-> op, msg |-> calls + 1]>> \o todo \in Seq(Tasks)
        BY <3>1, ConcatProperties DEF Types
      <3> QED
        BY <1>5, <3>2 DEF LoopCall, Types
    <2>2. pending' \in Seq(Functors)
      BY <1>5, <2>0, TaskFacts, AppendProperties DEF LoopCall, Types
    <2>3. state_' \in States
      BY <1>5 DEF LoopCall, SetState, Types, States
    <2> QED
      BY <1>5, <2>0, <2>1, <2>2, <2>3
      DEF LoopCall, Types, connVars, chanVars, dataVars, sockVars, refVars, countVars
  <1>6. CASE Foreign
    <2>1. ASSUME NEW t \in Threads, NEW op \in ForeignCalls, ForeignTest(t, op) PROVE Types'
      <3>1. [op |-> op, msg |-> calls + 1] \in [op : ApiCalls, msg : Nat] /\ calls + 1 \in Nat
        BY <2>1, CallsAssumption DEF Types
      <3>2. call' \in [Threads -> [op : ApiCalls, msg : Nat] \cup {NoCall}] /\ calls' \in Nat
        BY <2>1, <3>1 DEF ForeignTest, Types
      <3> QED
        BY <2>1, <3>2 DEF ForeignTest, Types, connVars, chanVars, dataVars, sockVars, refVars,
                           queueVars
    <2>2. ASSUME NEW t \in Threads, ForeignQueue(t) PROVE Types'
      <3>1. call[t] \in [op : ApiCalls, msg : Nat]
        BY <2>2 DEF ForeignQueue, Types
      <3>2. call' \in [Threads -> [op : ApiCalls, msg : Nat] \cup {NoCall}]
        BY <2>2 DEF ForeignQueue, Types
      <3>3. call[t].op \in TaskOps /\ call[t].msg \in Nat /\ call[t].op \in ApiCalls
        BY <3>1, TaskFacts
      <3>4. pending' \in Seq(Functors)
        <4>1. Shared(call[t].op) \in Functors /\ Raw(call[t].op, call[t].msg) \in Functors
          BY <3>3, TaskFacts
        <4>2. /\ Append(pending, Shared(call[t].op)) \in Seq(Functors)
              /\ Append(pending, Raw(call[t].op, call[t].msg)) \in Seq(Functors)
          BY <4>1, AppendProperties DEF Types
        <4>3. \/ pending' = pending \/ pending' = Append(pending, Shared(call[t].op))
              \/ pending' = Append(pending, Raw(call[t].op, call[t].msg))
          BY <2>2 DEF ForeignQueue
        <4> QED
          BY <4>2, <4>3 DEF Types
      <3>5. state_' \in States
        BY <2>2 DEF ForeignQueue, SetState, Types, States
      <3> QED
        BY <2>2, <3>2, <3>4, <3>5
        DEF ForeignQueue, Types, chanVars, dataVars, sockVars, refVars, countVars
    <2>3. ASSUME NEW t \in Threads, Release(t) PROVE Types'
      <3>1. alive' \in BOOLEAN /\ hold' \in [Threads -> BOOLEAN]
        BY <2>3 DEF Release, Destroy, Types
      <3> QED
        BY <2>3, <3>1
        DEF Release, Types, connVars, chanVars, dataVars, sockVars, queueVars, countVars
    <2> QED
      BY <1>6, <2>1, <2>2, <2>3 DEF Foreign
  <1>7. CASE Peer
    BY <1>7 DEF Peer, PeerSends, PeerFinishes, PeerResets, Types, connVars, chanVars, dataVars,
                queueVars, refVars, countVars
  <1>8. CASE DestroyOwner
    <2>1. todo' \in Seq(Tasks)
      BY <1>8, TaskFacts DEF DestroyOwner, TaskOps
    <2> QED
      BY <1>8, <2>1 DEF DestroyOwner, Types, connVars, chanVars, dataVars, sockVars, queueVars,
                        countVars
  <1> QED
    BY <1>1, <1>2, <1>3, <1>4, <1>5, <1>6, <1>7, <1>8 DEF Other

LEMMA NextCases == Next <=> Handler \/ Other
  BY DEF Next, LoopStep, Other

\* The members keep their types, whatever is called and whoever calls it.
LEMMA TypesInvariance == Spec => []Types
  <1>1. Types /\ [Next]_vars => Types'
    <2> SUFFICES ASSUME Types, [Next]_vars PROVE Types'
      OBVIOUS
    <2>1. CASE UNCHANGED vars
      BY <2>1 DEF vars, Types, connVars, chanVars, dataVars, sockVars, queueVars, refVars, countVars
    <2>2. CASE Next
      BY <2>2, NextCases, TypesHandler, TypesOther
    <2> QED
      BY <2>1, <2>2
  <1> QED
    BY <1>1, TypesInit, PTL DEF Spec

-----------------------------------------------------------------------------
(* The stream.                                                             *)

LEMMA ConcatUnits == \A s, t, u \in Seq(Nat) : (s \o t) \o u = s \o (t \o u)
  <1>1. ASSUME NEW S PROVE \A s, t, u \in Seq(S) : (s \o t) \o u = s \o (t \o u)
    BY ConcatAssociative
  <1> QED
    BY <1>1, SMTT(40)

\* However the calls, the events and the threads interleave, and even when
\* other threads close the connection: sendInLoop() and handleWrite() neither
\* lose nor repeat nor reorder a unit.
THEOREM StreamStaysIntact == Spec => []StreamIntact
  <1>1. Init => StreamIntact
    <2> SUFFICES ASSUME Init PROVE <<>> \o <<>> = <<>>
      BY DEF Init, StreamIntact
    <2> QED
      BY ConcatEmptySeq, EmptySeq
  <1>2. Types /\ StreamIntact /\ [Next]_vars => StreamIntact'
    <2> SUFFICES ASSUME Types, StreamIntact, [Next]_vars PROVE StreamIntact'
      OBVIOUS
    <2>0. outputBuffer_ \in Seq(Nat) /\ wire \in Seq(Nat) /\ accepted \in Seq(Nat)
      BY DEF Types
    <2>1. CASE UNCHANGED dataVars
      BY <2>1 DEF dataVars, StreamIntact
    <2>2. ASSUME NEW n \in 0..2, sendInLoop(n) PROVE StreamIntact'
      <3>1. SUFFICES ASSUME NEW u \in Seq(Nat), NEW rest \in Seq(Nat), NEW w \in Seq(Nat),
                            accepted' = accepted \o u, outputBuffer_' = outputBuffer_ \o rest,
                            \/ WriteDirectly /\ w \o rest = u /\ wire' = wire \o w
                            \/ rest = u /\ wire' = wire
                     PROVE  StreamIntact'
        BY <2>1, <2>2, SendCases
      <3>2. (wire \o outputBuffer_) \o u = wire \o (outputBuffer_ \o u)
        BY <2>0, ConcatUnits, ZenonT(60)
      <3>3. CASE rest = u /\ wire' = wire
        BY <3>1, <3>2, <3>3 DEF StreamIntact
      <3>4. CASE WriteDirectly /\ w \o rest = u /\ wire' = wire \o w
        <4>1. outputBuffer_ = <<>>
          BY <3>4 DEF WriteDirectly
        <4>2. outputBuffer_ \o rest = rest /\ outputBuffer_ \o u = u
          BY <3>1, <4>1, ConcatEmptySeq
        <4>3. (wire \o w) \o rest = wire \o (w \o rest)
          BY <2>0, ConcatUnits, ZenonT(60)
        <4> QED
          BY <3>1, <3>2, <3>4, <4>2, <4>3 DEF StreamIntact
      <3> QED
        BY <3>1, <3>3, <3>4
    <2>3. ASSUME NEW n \in 0..Len(outputBuffer_), handleWrite(n) PROVE StreamIntact'
      <3> DEFINE a == SubSeq(outputBuffer_, 1, n)
                 b == SubSeq(outputBuffer_, n + 1, Len(outputBuffer_))
      <3>1. wire' = wire \o a /\ outputBuffer_' = b /\ accepted' = accepted
        BY <2>3 DEF handleWrite, Retrieve
      <3>2. a \in Seq(Nat) /\ b \in Seq(Nat) /\ a \o b = outputBuffer_
        BY <2>0, Split
      <3> HIDE DEF a, b
      <3>3. (wire \o a) \o b = wire \o (a \o b)
        BY <2>0, <3>2, ConcatUnits, ZenonT(60)
      <3> QED
        BY <3>1, <3>2, <3>3 DEF StreamIntact
    <2>4. CASE Other
      <3>1. UNCHANGED dataVars
        BY <2>4 DEF Other, doPendingFunctors, RunFunctor, EndFunctors, Poll, LoopCall, Foreign,
                    ForeignTest, ForeignQueue, Release, Peer, PeerSends, PeerFinishes, PeerResets,
                    DestroyOwner
      <3> QED
        BY <2>1, <3>1
    <2>5. CASE /\ Handler /\ ~(\E n \in 0..2 : sendInLoop(n))
               /\ ~(\E n \in 0..Len(outputBuffer_) : handleWrite(n))
      <3>1. UNCHANGED dataVars
        BY <2>5 DEF Handler, connectEstablished, handleRead, handleError, handleClose,
                    closeCallback, connectDestroyed, removeChannel, shutdownInLoop,
                    forceCloseInLoop, startReadInLoop, stopReadInLoop, userCallback,
                    userCodeReturns
      <3> QED
        BY <2>1, <3>1
    <2> QED
      BY <2>1, <2>2, <2>3, <2>4, <2>5, NextCases DEF vars
  <1> QED
    BY <1>1, <1>2, TypesInvariance, PTL DEF Spec

-----------------------------------------------------------------------------
(* Which tasks are where.                                                  *)

\* No entry of s, or none but the first, is one of the operations ops.
Avoids(s, ops) == \A i \in 1..Len(s) : s[i].op \notin ops
HeadOnly(s, ops) == \A i \in 2..Len(s) : s[i].op \notin ops

\* Exactly one entry of s is.
Once(s, ops) == \E i \in 1..Len(s) : /\ s[i].op \in ops
                                     /\ \A j \in 1..Len(s) : s[j].op \in ops => j = i

LEMMA ShortFacts ==
    /\ \A ops : Avoids(<<>>, ops) /\ HeadOnly(<<>>, ops) /\ ~Once(<<>>, ops)
    /\ \A e, ops : /\ Avoids(<<e>>, ops) <=> e.op \notin ops
                   /\ Once(<<e>>, ops) <=> e.op \in ops
                   /\ HeadOnly(<<e>>, ops)
    /\ \A e, f, ops : /\ Avoids(<<e, f>>, ops) <=> e.op \notin ops /\ f.op \notin ops
                      /\ e.op \notin ops /\ f.op \in ops => Once(<<e, f>>, ops)
  BY DEF Avoids, HeadOnly, Once

LEMMA ConcatFacts ==
    ASSUME NEW S, NEW s \in Seq(S), NEW t \in Seq(S), NEW ops
    PROVE  /\ Avoids(s \o t, ops) <=> Avoids(s, ops) /\ Avoids(t, ops)
           /\ Once(s \o t, ops) <=> \/ Once(s, ops) /\ Avoids(t, ops)
                                    \/ Avoids(s, ops) /\ Once(t, ops)
  <1> DEFINE c == s \o t
             m == Len(s)
             n == Len(t)
  <1>1. /\ m \in Nat /\ n \in Nat /\ Len(c) = m + n
        /\ \A i \in 1..(m + n) : c[i] = IF i <= m THEN s[i] ELSE t[i - m]
    BY ConcatProperties, LenProperties
  <1> HIDE DEF c, m, n
  <1>2. /\ \A i \in 1..m : i \in 1..Len(c) /\ c[i] = s[i]
        /\ \A i \in 1..n : i + m \in 1..Len(c) /\ c[i + m] = t[i]
        /\ \A i \in 1..Len(c) : i \in 1..m \/ (i - m \in 1..n /\ c[i] = t[i - m] /\ i > m)
    BY <1>1
  <1>3. Avoids(c, ops) <=> Avoids(s, ops) /\ Avoids(t, ops)
    BY <1>2 DEF Avoids, m, n
  <1>4. ASSUME Once(c, ops)
        PROVE  (Once(s, ops) /\ Avoids(t, ops)) \/ (Avoids(s, ops) /\ Once(t, ops))
    <2>1. PICK i \in 1..Len(c) : /\ c[i].op \in ops
                                 /\ \A j \in 1..Len(c) : c[j].op \in ops => j = i
      BY <1>4 DEF Once
    <2>2. CASE i \in 1..m
      <3>1. s[i].op \in ops /\ \A j \in 1..m : s[j].op \in ops => j = i
        BY <1>2, <2>1, <2>2
      <3>2. ASSUME NEW j \in 1..n, t[j].op \in ops PROVE FALSE
        BY <1>1, <1>2, <2>1, <2>2, <3>2
      <3> QED
        BY <2>2, <3>1, <3>2 DEF Once, Avoids, m, n
    <2>3. CASE i - m \in 1..n /\ c[i] = t[i - m] /\ i > m
      <3>1. ASSUME NEW j \in 1..n, t[j].op \in ops PROVE j = i - m
        BY <1>1, <1>2, <2>1, <3>1
      <3>2. ASSUME NEW j \in 1..m, s[j].op \in ops PROVE FALSE
        BY <1>1, <1>2, <2>1, <2>3, <3>2
      <3>3. Once(t, ops)
        BY <2>1, <2>3, <3>1 DEF Once, n
      <3> QED
        BY <3>2, <3>3 DEF Avoids, m
    <2> QED
      BY <1>2, <2>2, <2>3
  <1>5. ASSUME Once(s, ops), Avoids(t, ops) PROVE Once(c, ops)
    <2>1. PICK i \in 1..m : s[i].op \in ops /\ \A j \in 1..m : s[j].op \in ops => j = i
      BY <1>5 DEF Once, m
    <2>2. ASSUME NEW j \in 1..Len(c), c[j].op \in ops PROVE j = i
      BY <1>2, <1>5, <2>1, <2>2 DEF Avoids, n
    <2> QED
      BY <1>2, <2>1, <2>2 DEF Once
  <1>6. ASSUME Avoids(s, ops), Once(t, ops) PROVE Once(c, ops)
    <2>1. PICK i \in 1..n : t[i].op \in ops /\ \A j \in 1..n : t[j].op \in ops => j = i
      BY <1>6 DEF Once, n
    <2>2. ASSUME NEW j \in 1..Len(c), c[j].op \in ops PROVE j = i + m
      <3>1. j \notin 1..m
        BY <1>2, <1>6, <2>2 DEF Avoids, m
      <3>2. j - m \in 1..n /\ t[j - m].op \in ops
        BY <1>2, <2>2, <3>1
      <3> QED
        BY <1>1, <2>1, <3>2
    <2> QED
      BY <1>2, <2>1, <2>2 DEF Once
  <1> QED
    BY <1>3, <1>4, <1>5, <1>6 DEF c

LEMMA AppendFacts ==
    ASSUME NEW S, NEW s \in Seq(S), NEW e \in S, NEW ops
    PROVE  /\ Avoids(Append(s, e), ops) <=> Avoids(s, ops) /\ e.op \notin ops
           /\ Once(Append(s, e), ops) <=> \/ Once(s, ops) /\ e.op \notin ops
                                          \/ Avoids(s, ops) /\ e.op \in ops
  <1>1. Append(s, e) = s \o <<e>> /\ <<e>> \in Seq(S)
    BY AppendIsConcat
  <1>2. PICK q : q = <<e>>
    OBVIOUS
  <1>3. /\ Avoids(s \o q, ops) <=> Avoids(s, ops) /\ Avoids(q, ops)
        /\ Once(s \o q, ops) <=> \/ Once(s, ops) /\ Avoids(q, ops)
                                 \/ Avoids(s, ops) /\ Once(q, ops)
    BY <1>1, <1>2, ConcatFacts
  <1>4. (Avoids(q, ops) <=> e.op \notin ops) /\ (Once(q, ops) <=> e.op \in ops)
    BY <1>2, ShortFacts
  <1> QED
    BY <1>1, <1>2, <1>3, <1>4

LEMMA TailFacts ==
    ASSUME NEW S, NEW s \in Seq(S), s # <<>>, NEW ops
    PROVE  /\ Head(s) \in S /\ Tail(s) \in Seq(S)
           /\ Avoids(s, ops) <=> Head(s).op \notin ops /\ Avoids(Tail(s), ops)
           /\ Once(s, ops) <=> \/ Head(s).op \in ops /\ Avoids(Tail(s), ops)
                               \/ Head(s).op \notin ops /\ Once(Tail(s), ops)
           /\ HeadOnly(s, ops) <=> Avoids(Tail(s), ops)
  <1>1. /\ Head(s) \in S /\ Tail(s) \in Seq(S) /\ Len(s) \in Nat /\ Len(s) > 0 /\ Head(s) = s[1]
        /\ Len(Tail(s)) = Len(s) - 1 /\ \A i \in 1..Len(Tail(s)) : Tail(s)[i] = s[i + 1]
    BY HeadTailProperties, LenProperties, EmptySeq
  <1>2. s = <<Head(s)>> \o Tail(s)
    <2>1. <<Head(s)>> \in Seq(S) /\ Len(<<Head(s)>>) = 1
      BY <1>1
    <2>2. /\ <<Head(s)>> \o Tail(s) \in Seq(S) /\ Len(<<Head(s)>> \o Tail(s)) = Len(s)
          /\ \A i \in 1..Len(s) : (<<Head(s)>> \o Tail(s))[i] =
                IF i <= 1 THEN <<Head(s)>>[i] ELSE Tail(s)[i - 1]
      BY <1>1, <2>1, ConcatProperties
    <2>3. \A i \in 1..Len(s) : (<<Head(s)>> \o Tail(s))[i] = s[i]
      <3>1. ASSUME NEW i \in 1..Len(s), i # 1 PROVE Tail(s)[i - 1] = s[i] /\ i > 1
        <4>1. i - 1 \in 1..Len(Tail(s)) /\ i - 1 + 1 = i /\ i > 1
          BY <1>1, <3>1
        <4> QED
          BY <1>1, <4>1
      <3> QED
        BY <1>1, <2>2, <3>1
    <2> QED
      BY <2>2, <2>3, SeqEqual
  <1>3. <<Head(s)>> \in Seq(S)
    BY <1>1
  <1>4. HeadOnly(s, ops) <=> Avoids(Tail(s), ops)
    <2>1. /\ \A i \in 2..Len(s) : i - 1 \in 1..Len(Tail(s)) /\ Tail(s)[i - 1] = s[i]
          /\ \A i \in 1..Len(Tail(s)) : i + 1 \in 2..Len(s) /\ Tail(s)[i] = s[i + 1]
      BY <1>1
    <2> QED
      BY <2>1 DEF HeadOnly, Avoids
  <1>5. PICK q : q = <<Head(s)>>
    OBVIOUS
  <1>6. /\ Avoids(q \o Tail(s), ops) <=> Avoids(q, ops) /\ Avoids(Tail(s), ops)
        /\ Once(q \o Tail(s), ops) <=> \/ Once(q, ops) /\ Avoids(Tail(s), ops)
                                       \/ Avoids(q, ops) /\ Once(Tail(s), ops)
    BY <1>1, <1>3, <1>5, ConcatFacts
  <1>7. (Avoids(q, ops) <=> Head(s).op \notin ops) /\ (Once(q, ops) <=> Head(s).op \in ops)
    BY <1>5, ShortFacts
  <1>8. q \o Tail(s) = s
    BY <1>2, <1>5
  <1> QED
    BY <1>1, <1>4, <1>6, <1>7, <1>8

-----------------------------------------------------------------------------
(* The life of a connection that other threads do not close.               *)

Up == {"kConnected", "kDisconnecting"}
NoClosers == {"send", "startRead", "stopRead"}

\* shutdownInLoop() runs at once or not at all.
Places ==
    /\ lpc = "poll" => todo = <<>>
    /\ lpc # "functors" => batch = <<>>
    /\ \A t \in Threads : call[t] # NoCall => call[t].op \in NoClosers
    /\ Avoids(pending, {"shutdown"}) /\ Avoids(batch, {"shutdown"})
    /\ HeadOnly(todo, {"shutdown"})
    /\ todo # <<>> /\ Head(todo).op = "shutdown" => state_ \in Up

\* Until connectEstablished() nothing happens but that its functor comes nearer,
\* or that the owner goes.
Unborn ==
    state_ = "kConnecting" =>
        /\ events = {} /\ index = "kNew" /\ outputBuffer_ = <<>> /\ ~wrShut /\ downs = 0 /\ alive
        /\ \A t \in Threads : ~hold[t] /\ call[t] = NoCall
        /\ \/ /\ lpc # "functors" /\ pending = <<Shared("connectEstablished")>>
              /\ todo = <<>>
           \/ /\ lpc = "functors" /\ pending = <<>> /\ batch = <<Shared("connectEstablished")>>
              /\ todo \in {<<>>, <<Task("connectDestroyed")>>, <<Task("remove")>>}
           \/ /\ lpc = "functors" /\ pending = <<>> /\ batch = <<>>
              /\ todo = <<Task("connectEstablished")>>
    
\* It comes once.
Born ==
    state_ # "kConnecting" =>
        /\ Avoids(pending, {"connectEstablished"}) /\ Avoids(batch, {"connectEstablished"})
        /\ Avoids(todo, {"connectEstablished"})

Connected == Places /\ Unborn /\ Born

OpenInv == Types /\ Connected /\ WritingWhileBuffered /\ FinAfterData /\ DownOnce

Closers == {"closeCallback", "connectDestroyed", "remove"}
Readers == {"startRead", "stopRead"}

\* Exactly one of the closers is on its way.
OneCloser == \/ Once(todo, Closers) /\ Avoids(batch, Closers) /\ Avoids(pending, Closers)
             \/ Avoids(todo, Closers) /\ Once(batch, Closers) /\ Avoids(pending, Closers)
             \/ Avoids(todo, Closers) /\ Avoids(batch, Closers) /\ Once(pending, Closers)
NoCloser == Avoids(todo, Closers) /\ Avoids(batch, Closers) /\ Avoids(pending, Closers)

\* How far the connection has been closed, and what will close it further.
Stages ==
    /\ state_ = "kConnecting" => owned /\ Avoids(todo, Closers)
    /\ state_ \in Up => index # "kNew"
    /\ state_ \in Up /\ owned => NoCloser
    /\ state_ \in Up /\ ~owned =>
         /\ state_ = "kConnected" /\ todo = <<Task("connectDestroyed")>>
         /\ Avoids(batch, Closers) /\ Avoids(pending, Closers)
    /\ state_ = "kDisconnected" => events = {}
    /\ state_ = "kDisconnected" /\ owned =>
         /\ index # "kNew"
         /\ Once(todo, {"closeCallback"}) /\ Avoids(todo, {"connectDestroyed", "remove"})
         /\ Avoids(batch, Closers) /\ Avoids(pending, Closers)
    /\ state_ = "kDisconnected" /\ ~owned /\ index # "kNew" =>
         OneCloser /\ Avoids(todo, {"closeCallback"})
    /\ state_ = "kDisconnected" /\ ~owned /\ index = "kNew" => NoCloser

\* A connection that is down is not registered again.
Reading ==
    /\ Avoids(pending, Readers) /\ Avoids(batch, Readers) /\ HeadOnly(todo, Readers)
    /\ todo # <<>> /\ Head(todo).op \in Readers => state_ # "kDisconnected"

\* Who keeps the connection alive.
Holders ==
    /\ \A t \in Threads : call[t] # NoCall => hold[t] /\ call[t].op = "send"
    /\ \A t \in Threads : hold[t] => alive
    /\ \A f \in Range(pending) \cup Range(batch) :
          ~f.shared => f.op = "send" /\ \E t \in Threads : hold[t]
    /\ \A f \in Range(pending) \cup Range(batch) : 
          f.op \notin {"closeCallback", "remove"}
    /\ \A f \in Range(batch) : f.shared => batchHolds

LifeInv == Running => Stages /\ Reading /\ Holders

LEMMA HeadTask ==
    ASSUME Types, Connected, todo # <<>>
    PROVE  /\ lpc # "poll" /\ Head(todo) \in Tasks /\ Tail(todo) \in Seq(Tasks)
           /\ Avoids(Tail(todo), {"shutdown"})
           /\ state_ = "kConnecting" => /\ Tail(todo) = <<>>
                                        /\ Head(todo).op \in {"connectEstablished",
                                                              "connectDestroyed", "remove"}
           /\ state_ # "kConnecting" => /\ Head(todo).op # "connectEstablished"
                                        /\ Avoids(Tail(todo), {"connectEstablished"})
  <1>1. todo \in Seq(Tasks)
    BY DEF Types
  <1>2. /\ Head(todo) \in Tasks /\ Tail(todo) \in Seq(Tasks)
        /\ HeadOnly(todo, {"shutdown"}) <=> Avoids(Tail(todo), {"shutdown"})
        /\ Avoids(todo, {"connectEstablished"}) <=>
             Head(todo).op \notin {"connectEstablished"} /\ Avoids(Tail(todo), {"connectEstablished"})
    BY <1>1, TailFacts
  <1>3. ASSUME state_ = "kConnecting"
        PROVE  /\ Tail(todo) = <<>>
               /\ Head(todo).op \in {"connectEstablished", "connectDestroyed", "remove"}
    <2>1. PICK op : todo = <<Task(op)>> /\ op \in {"connectEstablished", "connectDestroyed", "remove"}
      BY <1>3 DEF Connected, Unborn
    <2>2. Task(op).op = op
      BY DEF Task
    <2> QED
      BY <2>1, <2>2
  <1> QED
    BY <1>2, <1>3 DEF Connected, Places, Born

\* A handler that is done, but for what it leaves to others to do.
LEMMA PlainHandler ==
    ASSUME Types, Connected, todo # <<>>, NEW more \in Seq(Tasks), Then(more),
           state_ # "kConnecting", state_' # "kConnecting",
           Avoids(more, {"connectEstablished"}),
           \/ Avoids(more, {"shutdown"})
           \/ more = <<Task("shutdown")>> /\ state_' \in Up,
           \/ pending' = pending
           \/ \E op \in TaskOps \ {"shutdown", "connectEstablished"} :
                 pending' = Append(pending, Shared(op)),
           UNCHANGED <<lpc, batch, call>>
    PROVE  Connected'
  <1> DEFINE t == Tail(todo)
  <1>1. /\ t \in Seq(Tasks) /\ Avoids(t, {"shutdown"}) /\ Avoids(t, {"connectEstablished"})
        /\ lpc # "poll" /\ todo' = more \o t
    BY HeadTask DEF Then
  <1> HIDE DEF t
  <1>2. /\ Avoids(more \o t, {"connectEstablished"})
        /\ Avoids(more, {"shutdown"}) => Avoids(more \o t, {"shutdown"})
        /\ more \o t \in Seq(Tasks)
    BY <1>1, ConcatFacts, ConcatProperties
  <1>3. Avoids(pending', {"shutdown"}) /\ Avoids(pending', {"connectEstablished"})
    <2>1. /\ Avoids(pending, {"shutdown"}) /\ Avoids(pending, {"connectEstablished"})
          /\ pending \in Seq(Functors)
      BY DEF Connected, Places, Born, Types
    <2>2. ASSUME NEW op \in TaskOps \ {"shutdown", "connectEstablished"}
          PROVE  /\ Avoids(Append(pending, Shared(op)), {"shutdown"})
                 /\ Avoids(Append(pending, Shared(op)), {"connectEstablished"})
      <3>1. Shared(op) \in Functors /\ Shared(op).op = op
        BY TaskFacts
      <3> QED
        BY <2>1, <3>1, AppendFacts
    <2> QED
      BY <2>1, <2>2
  <1>4. HeadOnly(todo', {"shutdown"}) /\ (todo' # <<>> /\ Head(todo').op = "shutdown" => state_' \in Up)
    <2>1. CASE Avoids(more, {"shutdown"})
      <3>1. todo' \in Seq(Tasks) /\ Avoids(todo', {"shutdown"})
        BY <1>1, <1>2, <2>1
      <3>2. todo' # <<>> => Head(todo').op # "shutdown" /\ HeadOnly(todo', {"shutdown"})
        BY <3>1, TailFacts
      <3>3. HeadOnly(<<>>, {"shutdown"})
        BY ShortFacts
      <3> QED
        BY <3>2, <3>3
    <2>2. CASE more = <<Task("shutdown")>> /\ state_' \in Up
      <3>1. /\ todo' \in Seq(Tasks) /\ todo' # <<>> /\ Tail(todo') = t
        BY <1>1, <1>2, <2>2
      <3>2. HeadOnly(todo', {"shutdown"}) <=> Avoids(Tail(todo'), {"shutdown"})
        BY <3>1, TailFacts
      <3> QED
        BY <1>1, <2>2, <3>1, <3>2
    <2> QED
      BY <2>1, <2>2
  <1> QED
    BY <1>1, <1>2, <1>3, <1>4 DEF Connected, Places, Unborn, Born

LEMMA OpNames ==
    {"connectEstablished", "userCode", "closeCallback", "connectDestroyed", "remove", "handleClose",
     "handleRead", "handleError", "handleWrite", "send", "shutdown", "forceClose", "startRead",
     "stopRead", "writeComplete", "highWater"} \subseteq TaskOps
  BY DEF TaskOps, ApiCalls

LEMMA ConnectedHandler ==
    ASSUME Types, Connected, Handler
    PROVE  Connected'
  <1>0. /\ <<>> \in Seq(Tasks)
        /\ \A op \in TaskOps : <<Task(op)>> \in Seq(Tasks)
        /\ \A op, p \in TaskOps : <<Task(op), Task(p)>> \in Seq(Tasks)
    BY TaskFacts
  <1>1. /\ Avoids(<<>>, {"shutdown"}) /\ Avoids(<<>>, {"connectEstablished"})
        /\ \A op \in TaskOps \ {"connectEstablished"} :
              /\ Avoids(<<Task(op)>>, {"connectEstablished"})
              /\ op # "shutdown" => Avoids(<<Task(op)>>, {"shutdown"})
        /\ \A op, p \in TaskOps \ {"connectEstablished", "shutdown"} :
              /\ Avoids(<<Task(op), Task(p)>>, {"connectEstablished"})
              /\ Avoids(<<Task(op), Task(p)>>, {"shutdown"})
    <2>1. \A op \in TaskOps : Task(op).op = op
      BY TaskFacts
    <2> QED
      BY <2>1, ShortFacts
  <1>2. todo # <<>>
    BY DEF Handler, connectEstablished, handleRead, handleError, handleClose, closeCallback,
           connectDestroyed, removeChannel, sendInLoop, handleWrite, shutdownInLoop,
           forceCloseInLoop, startReadInLoop, stopReadInLoop, userCallback, userCodeReturns, Do
  <1>3. /\ state_ = "kConnecting" => /\ Tail(todo) = <<>>
                                     /\ Head(todo).op \in {"connectEstablished",
                                                           "connectDestroyed", "remove"}
        /\ state_ # "kConnecting" => Head(todo).op # "connectEstablished"
    BY <1>2, HeadTask
  <1>4. CASE Passing
    <2>1. /\ state_ # "kConnecting" /\ state_' = state_ /\ pending' = pending
          /\ UNCHANGED <<lpc, batch, call>>
          /\ Then(<<>>) \/ Then(<<Task("userCode")>>) \/ Then(<<Task("handleClose")>>)
      BY <1>3, <1>4, PassingCases DEF connVars, Outside
    <2> QED
      BY <1>0, <1>1, <1>2, <2>1, OpNames, PlainHandler
  <1>5. CASE connectEstablished
    <2>1. state_ = "kConnecting" /\ Tail(todo) = <<>>
      BY <1>3, <1>5 DEF connectEstablished, Do
    <2>2. /\ lpc = "functors" /\ pending = <<>> /\ batch = <<>>
      <3>1. /\ Head(todo).op = "connectEstablished" /\ todo # <<>>
        BY <1>5 DEF connectEstablished, Do
      <3>2. /\ Head(<<Task("connectDestroyed")>>).op = "connectDestroyed"
            /\ Head(<<Task("remove")>>).op = "remove"
        BY DEF Task
      <3> QED
        BY <2>1, <3>1, <3>2 DEF Connected, Unborn
    <2>3. /\ state_' = "kConnected" /\ todo' = <<Task("userCode")>>
          /\ UNCHANGED <<lpc, pending, batch, call>>
      <3>1. <<Task("userCode")>> \o <<>> = <<Task("userCode")>>
        BY <1>0, ConcatEmptySeq, OpNames
      <3> QED
        BY <1>5, <2>1, <3>1 DEF connectEstablished, Then, queueVars
    <2>4. /\ Avoids(pending', {"connectEstablished"}) /\ Avoids(batch', {"connectEstablished"})
          /\ Avoids(todo', {"connectEstablished"}) /\ HeadOnly(todo', {"shutdown"})
          /\ Avoids(pending', {"shutdown"}) /\ Avoids(batch', {"shutdown"})
          /\ Head(todo').op # "shutdown"
      <3>1. Head(<<Task("userCode")>>) = Task("userCode") /\ Task("userCode").op = "userCode"
        BY DEF Task
      <3> QED
        BY <1>1, <2>2, <2>3, <3>1, OpNames, ShortFacts
    <2> QED
      BY <2>2, <2>3, <2>4 DEF Connected, Places, Unborn, Born
  <1>6. CASE handleClose
    <2>1. /\ state_ # "kConnecting" /\ state_' = "kDisconnected" /\ pending' = pending
          /\ UNCHANGED <<lpc, batch, call>> /\ Then(<<Task("userCode"), Task("closeCallback")>>)
      BY <1>3, <1>6 DEF handleClose, Do, Outside
    <2> QED
      BY <1>0, <1>1, <1>2, <2>1, OpNames, PlainHandler
  <1>7. CASE closeCallback
    <2>1. /\ state_ # "kConnecting" /\ state_' = state_
          /\ pending' = Append(pending, Shared("connectDestroyed"))
          /\ UNCHANGED <<lpc, batch, call>> /\ Then(<<>>)
      BY <1>3, <1>7 DEF closeCallback, Do, Outside, connVars
    <2> QED
      BY <1>0, <1>1, <1>2, <2>1, OpNames, PlainHandler
  <1>8. ASSUME state_ = "kConnecting", connectDestroyed \/ removeChannel PROVE Connected'
    <2>1. /\ UNCHANGED <<state_, lpc, batch, call, pending, events, outputBuffer_, wrShut, downs,
                         alive, hold>>
          /\ index' = "kNew"
          /\ \/ connectDestroyed /\ todo' = <<Task("remove")>> \o <<>>
             \/ removeChannel /\ todo' = <<>> \o <<>>
          /\ Head(todo).op # "connectEstablished"
      <3>1. index = "kNew"
        BY <1>8 DEF Connected, Unborn
      <3> QED
        BY <1>3, <1>8, <3>1 DEF connectDestroyed, removeChannel, Then, Do, Outside, connVars,
                                chanVars, dataVars
    <2>2. todo' = <<Task("remove")>> \/ todo' = <<>>
      BY <1>0, <2>1, ConcatEmptySeq, OpNames
    <2>3. lpc = "functors" /\ pending = <<>> /\ batch = <<Shared("connectEstablished")>>
      <3>1. Head(<<Task("connectEstablished")>>).op = "connectEstablished"
        BY DEF Task
      <3> QED
        BY <1>2, <1>8, <2>1, <3>1 DEF Connected, Unborn
    <2>4. HeadOnly(todo', {"shutdown"}) /\ (todo' # <<>> => Head(todo').op # "shutdown")
      <3>1. Head(<<Task("remove")>>).op = "remove"
        BY DEF Task
      <3> QED
        BY <2>2, <3>1, ShortFacts
    <2> QED
      BY <1>8, <2>1, <2>2, <2>3, <2>4 DEF Connected, Places, Unborn, Born
  <1>9. ASSUME state_ # "kConnecting", connectDestroyed \/ removeChannel PROVE Connected'
    <2>1. /\ state_' # "kConnecting" /\ pending' = pending /\ UNCHANGED <<lpc, batch, call>>
          /\ Then(<<>>) \/ Then(<<Task("remove")>>) \/ Then(<<Task("userCode"), Task("remove")>>)
      BY <1>9 DEF connectDestroyed, removeChannel, Outside, connVars
    <2> QED
      BY <1>0, <1>1, <1>2, <1>9, <2>1, OpNames, PlainHandler
  <1>10. ASSUME NEW n \in 0..2, sendInLoop(n) PROVE Connected'
    <2>1. /\ state_ # "kConnecting" /\ state_' = state_ /\ UNCHANGED <<lpc, batch, call>>
          /\ Then(<<>>)
          /\ \/ pending' = pending
             \/ \E op \in TaskOps \ {"shutdown", "connectEstablished"} :
                   pending' = Append(pending, Shared(op))
      BY <1>3, <1>10, SendCases, OpNames DEF connVars, Outside
    <2> QED
      BY <1>0, <1>1, <1>2, <2>1, PlainHandler
  <1>11. ASSUME NEW n \in 0..Len(outputBuffer_), handleWrite(n) PROVE Connected'
    <2>1. /\ state_ # "kConnecting" /\ state_' = state_ /\ UNCHANGED <<lpc, batch, call>>
          /\ Then(<<>>) \/ (Then(<<Task("shutdown")>>) /\ state_' \in Up)
          /\ \/ pending' = pending
             \/ \E op \in TaskOps \ {"shutdown", "connectEstablished"} :
                   pending' = Append(pending, Shared(op))
      BY <1>3, <1>11, OpNames DEF handleWrite, Drained, Do, connVars, Outside, Up
    <2> QED
      BY <1>0, <1>1, <1>2, <2>1, OpNames, PlainHandler
  <1>12. CASE shutdownInLoop \/ startReadInLoop \/ stopReadInLoop
    <2>1. /\ state_ # "kConnecting" /\ state_' = state_ /\ pending' = pending
          /\ UNCHANGED <<lpc, batch, call>> /\ Then(<<>>)
      BY <1>3, <1>12 DEF shutdownInLoop, startReadInLoop, stopReadInLoop, Do, Outside, connVars
    <2> QED
      BY <1>0, <1>1, <1>2, <2>1, PlainHandler
  <1> QED
    BY <1>4, <1>5, <1>6, <1>7, <1>8, <1>9, <1>10, <1>11, <1>12 DEF Handler, Passing

LEMMA ConnectedOther ==
    ASSUME Types, Connected, Other, ForeignCalls \subseteq NoClosers
    PROVE  Connected'
  <1>0. /\ todo \in Seq(Tasks) /\ pending \in Seq(Functors) /\ batch \in Seq(Functors)
        /\ call \in [Threads -> [op : ApiCalls, msg : Nat] \cup {NoCall}]
        /\ hold \in [Threads -> BOOLEAN] /\ state_ \in States
    BY DEF Types
  <1>1. ASSUME UNCHANGED <<state_, events, index, outputBuffer_, wrShut, downs, alive, hold, call,
                           lpc, todo, pending, batch>>
        PROVE  Connected'
    BY <1>1 DEF Connected, Places, Unborn, Born
  <1>2. CASE doPendingFunctors
    <2>1. /\ lpc = "events" /\ lpc' = "functors" /\ todo = <<>> /\ batch' = pending /\ pending' = <<>>
          /\ UNCHANGED <<state_, events, index, outputBuffer_, wrShut, downs, alive, hold, call, todo>>
      BY <1>2 DEF doPendingFunctors, connVars, chanVars, dataVars, sockVars, refVars
    <2>2. Avoids(pending', {"shutdown"}) /\ Avoids(pending', {"connectEstablished"})
      BY <2>1, ShortFacts
    <2>3. Places' /\ Born'
      BY <2>1, <2>2 DEF Connected, Places, Born
    <2>4. Unborn'
      BY <2>1 DEF Connected, Unborn
    <2> QED
      BY <2>3, <2>4 DEF Connected
  <1>3. CASE RunFunctor
    <2>1. /\ lpc = "functors" /\ todo = <<>> /\ batch # <<>> /\ batch' = Tail(batch)
          /\ UNCHANGED <<state_, events, index, outputBuffer_, wrShut, downs, alive, hold, call, lpc,
                         pending>>
      BY <1>3 DEF RunFunctor, connVars, chanVars, dataVars, sockVars, refVars
    <2>2. PICK x : x = [op |-> Head(batch).op, msg |-> Head(batch).msg] /\ todo' = <<x>>
      BY <1>3 DEF RunFunctor
    <2>3. x.op = Head(batch).op /\ Head(<<x>>) = x
      BY <2>2
    <2>4. /\ Avoids(batch, {"shutdown"}) <=>
               Head(batch).op \notin {"shutdown"} /\ Avoids(Tail(batch), {"shutdown"})
          /\ Avoids(batch, {"connectEstablished"}) <=>
               Head(batch).op \notin {"connectEstablished"} /\ Avoids(Tail(batch), {"connectEstablished"})
      BY <1>0, <2>1, TailFacts
    <2>5. /\ HeadOnly(<<x>>, {"shutdown"})
          /\ Avoids(<<x>>, {"connectEstablished"}) <=> x.op \notin {"connectEstablished"}
      BY ShortFacts
    <2>6. Places' /\ Born'
      BY <2>1, <2>2, <2>3, <2>4, <2>5 DEF Connected, Places, Born
    <2>7. Unborn'
      <3>1. ASSUME state_ = "kConnecting" PROVE batch = <<Shared("connectEstablished")>> /\ pending = <<>>
        BY <2>1, <3>1 DEF Connected, Unborn
      <3>2. ASSUME state_ = "kConnecting" PROVE x = Task("connectEstablished") /\ batch' = <<>>
        BY <2>1, <2>2, <3>1, <3>2, SMTT(40) DEF Shared, Task
      <3> QED
        BY <2>1, <2>2, <3>1, <3>2 DEF Connected, Unborn
    <2> QED
      BY <2>6, <2>7 DEF Connected
  <1>4. CASE EndFunctors
    <2>1. /\ lpc = "functors" /\ lpc' = "poll" /\ todo = <<>> /\ batch = <<>>
          /\ UNCHANGED <<state_, events, index, outputBuffer_, wrShut, downs, hold, call, pending, todo,
                         batch>>
      BY <1>4 DEF EndFunctors, connVars, chanVars, dataVars, sockVars
    <2>2. state_ # "kConnecting"
      BY <2>1 DEF Connected, Unborn
    <2> QED
      BY <2>1, <2>2 DEF Connected, Places, Unborn, Born
  <1>5. ASSUME NEW w \in BOOLEAN, Poll(w) PROVE Connected'
    <2> DEFINE evs == handleEvent(Revents(w))
    <2>1. /\ lpc = "poll" /\ lpc' = "events" /\ todo' = evs
          /\ UNCHANGED <<state_, events, index, outputBuffer_, wrShut, downs, alive, hold, call, pending,
                         batch>>
      BY <1>5 DEF Poll, connVars, chanVars, dataVars, sockVars, refVars
    <2>2. /\ evs \in Seq(Tasks) /\ (Revents(w) = {} => evs = <<>>)
          /\ \A i \in 1..Len(evs) :
                evs[i].op \in {"handleClose", "handleError", "handleRead", "handleWrite"}
      BY HandleEventTypes
    <2> HIDE DEF evs
    <2>3. /\ Avoids(evs, {"connectEstablished"}) /\ Avoids(evs, {"shutdown"})
      BY <2>2 DEF Avoids
    <2>4. HeadOnly(evs, {"shutdown"}) /\ (evs # <<>> => Head(evs).op # "shutdown")
      <3>1. evs # <<>> => HeadOnly(evs, {"shutdown"}) /\ Head(evs).op # "shutdown"
        BY <2>2, <2>3, TailFacts
      <3> QED
        BY <3>1, ShortFacts
    <2>5. Places' /\ Born'
      BY <2>1, <2>3, <2>4 DEF Connected, Places, Born
    <2>6. state_ = "kConnecting" => evs = <<>>
      BY <2>2 DEF Connected, Unborn, Revents
    <2>7. Unborn'
      BY <2>1, <2>6 DEF Connected, Unborn
    <2> QED
      BY <2>5, <2>7 DEF Connected
  <1>6. ASSUME NEW op \in LoopCalls, LoopCall(op) PROVE Connected'
    <2>1. /\ todo # <<>> /\ Head(todo).op = "userCode" /\ UNCHANGED <<lpc, batch, call>>
      BY <1>6 DEF LoopCall, Do
    <2>2. state_ # "kConnecting" /\ lpc # "poll"
      BY <2>1, HeadTask
    <2>3. state_' # "kConnecting" /\ (op = "shutdown" => state_' \in Up)
      BY <1>6, <2>2 DEF LoopCall, SetState, Up
    <2>4. op \in TaskOps /\ op # "connectEstablished"
      BY CallsAssumption, TaskFacts DEF ApiCalls
    <2>5. /\ Avoids(todo, {"shutdown"}) /\ Avoids(todo, {"connectEstablished"})
      <3>1. /\ Avoids(todo, {"shutdown"}) <=>
                 Head(todo).op \notin {"shutdown"} /\ Avoids(Tail(todo), {"shutdown"})
            /\ HeadOnly(todo, {"shutdown"}) <=> Avoids(Tail(todo), {"shutdown"})
        BY <1>0, <2>1, TailFacts
      <3> QED
        BY <2>1, <2>2, <3>1 DEF Connected, Places, Born
    <2>6. /\ Avoids(pending', {"shutdown"}) /\ Avoids(pending', {"connectEstablished"})
      <3>1. /\ Avoids(pending, {"shutdown"}) /\ Avoids(pending, {"connectEstablished"})
        BY <2>2 DEF Connected, Places, Born
      <3>2. Shared("forceClose") \in Functors /\ Shared("forceClose").op = "forceClose"
        BY TaskFacts, OpNames
      <3>3. /\ Avoids(Append(pending, Shared("forceClose")), {"shutdown"})
            /\ Avoids(Append(pending, Shared("forceClose")), {"connectEstablished"})
        BY <1>0, <3>1, <3>2, AppendFacts
      <3> QED
        BY <1>6, <3>1, <3>3 DEF LoopCall
    <2>7. /\ HeadOnly(todo', {"shutdown"}) /\ Avoids(todo', {"connectEstablished"})
          /\ todo' # <<>> /\ Head(todo').op = "shutdown" => state_' \in Up
      <3>1. CASE todo' = todo
        BY <2>1, <2>5, <3>1 DEF Connected, Places
      <3>2. CASE todo' = <<[op |-> op, msg |-> calls + 1]>> \o todo
        <4>1. PICK x : x = [op |-> op, msg |-> calls + 1]
          OBVIOUS
        <4>2. x \in Tasks /\ x.op = op /\ <<x>> \in Seq(Tasks)
          <5>1. calls + 1 \in Nat
            BY DEF Types
          <5>2. x \in Tasks /\ x.op = op
            BY <2>4, <4>1, <5>1, TaskFacts
          <5> QED
            BY <5>2
        <4>3. /\ todo' \in Seq(Tasks) /\ todo' # <<>> /\ Head(todo') = x /\ Tail(todo') = todo
          BY <1>0, <3>2, <4>1, <4>2
        <4>4. /\ HeadOnly(todo', {"shutdown"}) <=> Avoids(Tail(todo'), {"shutdown"})
              /\ Avoids(todo', {"connectEstablished"}) <=>
                   /\ Head(todo').op \notin {"connectEstablished"}
                   /\ Avoids(Tail(todo'), {"connectEstablished"})
          BY <4>3, TailFacts
        <4> QED
          BY <2>3, <2>4, <2>5, <4>2, <4>3, <4>4
      <3> QED
        BY <1>6, <3>1, <3>2 DEF LoopCall
    <2> QED
      BY <2>1, <2>2, <2>3, <2>6, <2>7 DEF Connected, Places, Unborn, Born
  <1>7. ASSUME NEW t \in Threads, NEW op \in ForeignCalls, ForeignTest(t, op) PROVE Connected'
    <2>1. /\ hold[t] /\ call' = [call EXCEPT ![t] = [op |-> op, msg |-> calls + 1]]
          /\ UNCHANGED <<state_, lpc, todo, pending, batch>>
      BY <1>7 DEF ForeignTest, connVars, queueVars
    <2>2. state_ # "kConnecting"
      BY <2>1 DEF Connected, Unborn
    <2>3. ASSUME NEW s \in Threads, call'[s] # NoCall PROVE call'[s].op \in NoClosers
      BY <1>0, <2>1, <2>3 DEF Connected, Places
    <2> QED
      BY <2>1, <2>2, <2>3 DEF Connected, Places, Unborn, Born
  <1>8. ASSUME NEW t \in Threads, ForeignQueue(t) PROVE Connected'
    <2>1. /\ call[t] # NoCall /\ call' = [call EXCEPT ![t] = NoCall]
          /\ UNCHANGED <<lpc, todo, batch>>
      BY <1>8 DEF ForeignQueue
    <2>2. state_ # "kConnecting" /\ call[t].op \in NoClosers /\ call[t] \in [op : ApiCalls, msg : Nat]
      BY <1>0, <2>1 DEF Connected, Unborn, Places
    <2>3. PICK f : f = Raw(call[t].op, call[t].msg)
      OBVIOUS
    <2>4. f \in Functors /\ f.op = call[t].op
      BY <2>2, <2>3, TaskFacts
    <2>5. state_' = state_ /\ pending' = Append(pending, f)
      BY <1>8, <2>2, <2>3 DEF ForeignQueue, SetState, NoClosers
    <2>6. /\ Avoids(Append(pending, f), {"shutdown"})
          /\ Avoids(Append(pending, f), {"connectEstablished"})
      BY <1>0, <2>2, <2>4, AppendFacts DEF Connected, Places, Born, NoClosers
    <2>7. ASSUME NEW s \in Threads, call'[s] # NoCall PROVE call'[s].op \in NoClosers
      BY <1>0, <2>1, <2>7 DEF Connected, Places
    <2> QED
      BY <2>1, <2>2, <2>5, <2>6, <2>7 DEF Connected, Places, Unborn, Born
  <1>9. ASSUME NEW t \in Threads, Release(t) PROVE Connected'
    <2>1. hold[t] /\ UNCHANGED <<state_, lpc, todo, pending, batch, call>>
      BY <1>9 DEF Release, connVars, queueVars
    <2>2. state_ # "kConnecting"
      BY <2>1 DEF Connected, Unborn
    <2> QED
      BY <2>1, <2>2 DEF Connected, Places, Unborn, Born
  <1>10. CASE Peer
    BY <1>1, <1>10 DEF Peer, PeerSends, PeerFinishes, PeerResets, connVars, chanVars, dataVars,
                       queueVars, refVars
  <1>11. CASE DestroyOwner
    <2>1. /\ lpc = "functors" /\ todo = <<>> /\ todo' = <<Task("connectDestroyed")>>
          /\ UNCHANGED <<state_, events, index, outputBuffer_, wrShut, downs, alive, hold, call, lpc,
                         pending, batch>>
      BY <1>11 DEF DestroyOwner, connVars, chanVars, dataVars, sockVars, queueVars
    <2>2. Head(<<Task("connectDestroyed")>>) = Task("connectDestroyed")
          /\ Task("connectDestroyed").op = "connectDestroyed"
      BY DEF Task
    <2>3. /\ HeadOnly(todo', {"shutdown"}) /\ Avoids(todo', {"connectEstablished"})
          /\ Head(todo').op # "shutdown"
      BY <2>1, <2>2, ShortFacts
    <2>4. Places' /\ Born'
      BY <2>1, <2>3 DEF Connected, Places, Born
    <2>5. Unborn'
      BY <2>1 DEF Connected, Unborn
    <2> QED
      BY <2>4, <2>5 DEF Connected
  <1> QED
    BY <1>2, <1>3, <1>4, <1>5, <1>6, <1>7, <1>8, <1>9, <1>10, <1>11 DEF Other, Foreign

\* What the other steps leave alone.
LEMMA OtherFrame ==
    ASSUME Types, Connected, Other, ForeignCalls \subseteq NoClosers
    PROVE  /\ UNCHANGED <<events, outputBuffer_, wrShut, downs, index>>
           /\ state_' = state_ \/ (state_ \in Up /\ state_' = "kDisconnecting")
           /\ failed = {}
           /\ alive' = alive \/ (state_' = state_ /\ (failed' = {} /\ ~alive' => state_ = "kDisconnected"))
  <1>1. UNCHANGED <<events, outputBuffer_, wrShut, downs, index>> /\ failed = {}
    BY DEF Other, doPendingFunctors, RunFunctor, EndFunctors, Poll, LoopCall, Foreign,
           ForeignTest, ForeignQueue, Release, Peer, PeerSends, PeerFinishes, PeerResets,
           DestroyOwner, Do, Running, dataVars, sockVars, chanVars
  <1>2. ASSUME NEW op \in LoopCalls, LoopCall(op)
        PROVE  alive' = alive /\ (state_' = state_ \/ (state_ \in Up /\ state_' = "kDisconnecting"))
    BY <1>2 DEF LoopCall, SetState, Accepts, Up, refVars
  <1>3. ASSUME NEW t \in Threads, ForeignQueue(t)
        PROVE  alive' = alive /\ state_' = state_
    <2>1. call[t].op \in NoClosers
      BY <1>3 DEF ForeignQueue, Connected, Places
    <2> QED
      BY <1>3, <2>1 DEF ForeignQueue, SetState, NoClosers, refVars
  <1>4. ASSUME NEW last \in BOOLEAN, Destroy(last)
        PROVE  alive' = alive \/ (failed' = {} /\ ~alive' => state_ = "kDisconnected")
    BY <1>1, <1>4 DEF Destroy, Types
  <1>5. CASE EndFunctors
    <2>1. /\ Destroy(~owned /\ ~QueuedPtr /\ \A t \in Threads : ~hold[t]) /\ state_' = state_
      BY <1>5 DEF EndFunctors, connVars
    <2>2. (~owned /\ ~QueuedPtr /\ \A t \in Threads : ~hold[t]) \in BOOLEAN
      BY Zenon
    <2> QED
      BY <1>1, <1>4, <2>1, <2>2
  <1>6. ASSUME NEW t \in Threads, Release(t)
        PROVE  /\ state_' = state_
               /\ alive' = alive \/ (failed' = {} /\ ~alive' => state_ = "kDisconnected")
    <2>1. /\ state_' = state_
          /\ Destroy(/\ ~owned /\ ~QueuedPtr /\ ~batchHolds /\ todo = <<>>
                     /\ \A s \in Threads \ {t} : ~hold[s])
      BY <1>6 DEF Release, connVars
    <2>2. (/\ ~owned /\ ~QueuedPtr /\ ~batchHolds /\ todo = <<>>
           /\ \A s \in Threads \ {t} : ~hold[s]) \in BOOLEAN
      BY Zenon
    <2> QED
      BY <1>4, <2>1, <2>2
  <1>7. CASE \/ doPendingFunctors \/ RunFunctor \/ Peer \/ DestroyOwner
             \/ \E w \in BOOLEAN : Poll(w)
             \/ \E t \in Threads : \E op \in ForeignCalls : ForeignTest(t, op)
    BY <1>1, <1>7 DEF doPendingFunctors, RunFunctor, Poll, ForeignTest, Peer, PeerSends,
       PeerFinishes, PeerResets, DestroyOwner, connVars, refVars
  <1> QED
    BY <1>1, <1>2, <1>3, <1>5, <1>6, <1>7 DEF Other, Foreign

\* What handleWrite() does.
LEMMA WriteCases ==
    ASSUME Types, NEW n \in 0..Len(outputBuffer_), handleWrite(n)
    PROVE  /\ \/ outputBuffer_' = outputBuffer_ /\ UNCHANGED chanVars
              \/ isWriting /\ outputBuffer_' # <<>> /\ outputBuffer_ # <<>> /\ UNCHANGED chanVars
              \/ isWriting /\ outputBuffer_' = <<>> /\ disableWriting
           /\ UNCHANGED <<state_, wrShut, downs, failed, alive>> /\ failed = {}
  <1>0. outputBuffer_ \in Seq(Nat) /\ Len(outputBuffer_) \in Nat
    BY LenProperties DEF Types
  <1>1. outputBuffer_' = SubSeq(outputBuffer_, n + 1, Len(outputBuffer_))
        /\ UNCHANGED <<state_, wrShut, downs, failed, alive>> /\ failed = {}
    BY DEF handleWrite, Retrieve, connVars, Outside, Do, Running
  <1>2. CASE n = 0
    <2>1. outputBuffer_' = outputBuffer_
      BY <1>0, <1>1, <1>2, SubSeqFull
    <2> QED
      BY <1>1, <1>2, <2>1 DEF handleWrite
  <1>3. CASE n # 0
    <2>1. isWriting /\ n > 0
      BY <1>3 DEF handleWrite
    <2>2. outputBuffer_ # <<>>
      <3>1. Len(outputBuffer_) # 0
        BY <1>0, <1>3
      <3> QED
        BY <3>1, EmptySeq
    <2> QED
      BY <1>1, <2>1, <2>2 DEF handleWrite, Drained
  <1> QED
    BY <1>2, <1>3

\* What the handlers do to the channel, to the buffer and to the write side.
LEMMA HandlerData ==
    ASSUME Types, Connected, Handler
    PROVE  \/ UNCHANGED <<state_, outputBuffer_, wrShut, downs>> /\ (isWriting' <=> isWriting)
           \/ removeChannel
           \/ connectEstablished
           \/ handleClose
           \/ connectDestroyed
           \/ \E n \in 0..2 : sendInLoop(n)
           \/ \E n \in 0..Len(outputBuffer_) : handleWrite(n)
           \/ shutdownInLoop
  <1>1. CASE Passing
    BY <1>1, PassingCases DEF connVars, chanVars, dataVars, isWriting
  <1>2. CASE startReadInLoop \/ stopReadInLoop
    <2>1. UNCHANGED <<state_, outputBuffer_, wrShut, downs>>
      BY <1>2 DEF startReadInLoop, stopReadInLoop, dataVars
    <2>2. isWriting' <=> isWriting
      <3>1. events' = events \/ events' = events \cup {"R"} \/ events' = events \ {"R"}
        BY <1>2 DEF startReadInLoop, stopReadInLoop, enableReading, disableReading, UpdateChannel,
                    chanVars
      <3> QED
        BY <3>1 DEF isWriting
    <2> QED
      BY <2>1, <2>2
  <1>3. CASE closeCallback
    BY <1>3 DEF closeCallback, connVars, chanVars, dataVars, isWriting
  <1> QED
    BY <1>1, <1>2, <1>3 DEF Handler, Passing

\* Every step keeps what OpenInv says of the buffer, of the write side and of
\* the "down" callback.
LEMMA OpenInvStep ==
    ASSUME OpenInv, Next, ForeignCalls \subseteq NoClosers
    PROVE  OpenInv'
  <1>0. /\ Types /\ Connected /\ outputBuffer_ \in Seq(Nat) /\ downs \in Nat /\ state_ \in States
        /\ alive \in BOOLEAN
    BY DEF OpenInv, Types
  <1>1. Types' /\ Connected'
    BY <1>0, NextCases, TypesHandler, TypesOther, ConnectedHandler, ConnectedOther
  <1>2. CASE Other
    <2>1. /\ UNCHANGED <<events, outputBuffer_, wrShut, downs>> /\ failed = {}
          /\ state_' = state_ \/ (state_ \in Up /\ state_' = "kDisconnecting")
          /\ alive' = alive \/ (state_' = state_ /\ (failed' = {} /\ ~alive' => state_ = "kDisconnected"))
      BY <1>0, <1>2, OtherFrame
    <2>2. WritingWhileBuffered' /\ FinAfterData'
      BY <2>1 DEF OpenInv, WritingWhileBuffered, FinAfterData, isWriting, Up
    <2>3. DownOnce'
      BY <2>1 DEF OpenInv, DownOnce, Running, Up
    <2> QED
      BY <1>1, <2>2, <2>3 DEF OpenInv
  <1>3. CASE Handler
    <2>0. alive' = alive /\ failed = {}
      BY <1>3 DEF Handler, connectEstablished, handleRead, handleError, handleClose, closeCallback,
             connectDestroyed, removeChannel, sendInLoop, handleWrite, shutdownInLoop,
             forceCloseInLoop, startReadInLoop, stopReadInLoop, userCallback, userCodeReturns,
             Outside, Do, Running
    <2>1. ASSUME UNCHANGED <<state_, outputBuffer_, wrShut, downs>>, isWriting' <=> isWriting
          PROVE  OpenInv'
      BY <1>1, <2>0, <2>1 DEF OpenInv, WritingWhileBuffered, FinAfterData, DownOnce, Running
    <2>2. CASE connectEstablished
      <3>1. /\ state_ = "kConnecting"
        BY <1>0, <2>2, HeadTask DEF connectEstablished, Do
      <3>2. /\ events = {} /\ outputBuffer_ = <<>> /\ ~wrShut /\ downs = 0 /\ alive
        BY <1>0, <3>1 DEF Connected, Unborn
      <3>3. /\ state_' = "kConnected" /\ events' = {"R"}
            /\ UNCHANGED <<outputBuffer_, wrShut, downs>>
        BY <2>2, <3>2 DEF connectEstablished, enableReading, UpdateChannel, dataVars, sockVars
      <3> QED
        BY <1>1, <2>0, <3>2, <3>3
        DEF OpenInv, WritingWhileBuffered, FinAfterData, DownOnce, isWriting
    <2>3. CASE handleClose
      <3>1. /\ state_' = "kDisconnected" /\ downs' = downs + 1 /\ UNCHANGED <<outputBuffer_, wrShut>>
            /\ failed' = {} => state_ \in {"kConnected", "kDisconnecting"}
        BY <2>0, <2>3 DEF handleClose, dataVars, Asserts
      <3>2. Running' => downs' = 1
        BY <1>0, <2>0, <3>1 DEF OpenInv, DownOnce, Running
      <3> QED
        BY <1>1, <2>0, <3>1, <3>2 DEF OpenInv, WritingWhileBuffered, FinAfterData, DownOnce
    <2>4. CASE connectDestroyed
      <3>1. CASE state_ = "kConnected"
        <4>1. /\ state_' = "kDisconnected" /\ downs' = downs + 1
              /\ UNCHANGED <<outputBuffer_, wrShut, failed>>
          BY <2>4, <3>1 DEF connectDestroyed, dataVars
        <4>2. downs' = 1
          BY <1>0, <2>0, <3>1, <4>1 DEF OpenInv, DownOnce, Running
        <4> QED
          BY <1>1, <2>0, <4>1, <4>2 DEF OpenInv, WritingWhileBuffered, FinAfterData, DownOnce
      <3>2. CASE state_ # "kConnected"
        <4>1. UNCHANGED <<state_, outputBuffer_, wrShut, downs, events>>
          BY <2>4, <3>2 DEF connectDestroyed, dataVars, chanVars
        <4> QED
          BY <2>1, <4>1 DEF isWriting
      <3> QED
        BY <3>1, <3>2
    <2>5. ASSUME NEW n \in 0..2, sendInLoop(n) PROVE OpenInv'
      <3>0. UNCHANGED <<state_, wrShut, downs, failed>> /\ state_ # "kConnecting"
        BY <1>0, <2>5, SendCases, HeadTask DEF connVars
      <3>1. CASE UNCHANGED <<dataVars, chanVars, pending>>
        BY <2>1, <3>0, <3>1 DEF dataVars, chanVars, isWriting
      <3>2. ASSUME NEW u \in Seq(Nat) \ {<<>>}, NEW rest \in Seq(Nat),
                   state_ # "kDisconnected", WriteDirectly => ~wrShut,
                   outputBuffer_' = outputBuffer_ \o rest,
                   WriteDirectly \/ rest = u,
                   \/ rest = <<>> /\ UNCHANGED chanVars
                   \/ rest # <<>> /\ isWriting /\ UNCHANGED chanVars
                   \/ rest # <<>> /\ ~isWriting /\ enableWriting
            PROVE  OpenInv'
        <4>1. state_ \in {"kConnected", "kDisconnecting"}
          BY <1>0, <3>0, <3>2 DEF States
        <4>2. isWriting <=> outputBuffer_ # <<>>
          BY <4>1 DEF OpenInv, WritingWhileBuffered
        <4>3. (outputBuffer_' = <<>>) <=> (outputBuffer_ = <<>> /\ rest = <<>>)
          BY <1>0, <3>2, ConcatEqualIffEmpty
        <4>4. isWriting' <=> outputBuffer_' # <<>>
          <5>1. rest # <<>> => isWriting'
            BY <3>2 DEF enableWriting, UpdateChannel, isWriting, chanVars
          <5>2. rest = <<>> => (isWriting' <=> isWriting)
            BY <3>2 DEF isWriting, chanVars
          <5> QED
            BY <4>2, <4>3, <5>1, <5>2
        <4>5. wrShut' => outputBuffer_' = <<>>
          <5>1. wrShut => outputBuffer_ = <<>> /\ ~isWriting
            BY <4>2 DEF OpenInv, FinAfterData
          <5> QED
            BY <3>0, <3>2, <5>1 DEF WriteDirectly
        <4> QED
          BY <1>1, <2>0, <3>0, <4>4, <4>5
          DEF OpenInv, WritingWhileBuffered, FinAfterData, DownOnce, Running
      <3> QED
        BY <1>0, <2>5, <3>1, <3>2, SendCases
    <2>6. ASSUME NEW n \in 0..Len(outputBuffer_), handleWrite(n) PROVE OpenInv'
      <3>1. /\ \/ outputBuffer_' = outputBuffer_ /\ UNCHANGED chanVars
               \/ isWriting /\ outputBuffer_' # <<>> /\ outputBuffer_ # <<>> /\ UNCHANGED chanVars
               \/ isWriting /\ outputBuffer_' = <<>> /\ disableWriting
            /\ UNCHANGED <<state_, wrShut, downs, failed, alive>> /\ failed = {}
        BY <1>0, <2>6, WriteCases
      <3>2. WritingWhileBuffered'
        BY <3>1 DEF OpenInv, WritingWhileBuffered, isWriting, chanVars, disableWriting, UpdateChannel
      <3> QED
        BY <1>1, <3>1, <3>2 DEF OpenInv, FinAfterData, DownOnce, Running
    <2>7. CASE shutdownInLoop
      <3>1. /\ state_ \in Up
        BY <1>0, <2>7 DEF shutdownInLoop, Do, Connected, Places
      <3>2. /\ wrShut' = (wrShut \/ ~isWriting)
            /\ UNCHANGED <<state_, outputBuffer_, events, downs>>
        BY <2>7 DEF shutdownInLoop, connVars, chanVars, dataVars
      <3>3. ~isWriting => outputBuffer_ = <<>>
        BY <3>1 DEF OpenInv, WritingWhileBuffered, Up
      <3>4. FinAfterData'
        BY <3>2, <3>3 DEF OpenInv, FinAfterData
      <3>5. WritingWhileBuffered'
        BY <3>2 DEF OpenInv, WritingWhileBuffered, isWriting
      <3> QED
        BY <1>1, <2>0, <3>2, <3>4, <3>5 DEF OpenInv, DownOnce, Running
    <2>8. CASE removeChannel
      BY <2>1, <2>8 DEF removeChannel, connVars, dataVars, isWriting
    <2> QED
      BY <1>0, <1>3, <2>1, <2>2, <2>3, <2>4, <2>5, <2>6, <2>7, <2>8, HandlerData
  <1> QED
    BY <1>2, <1>3, NextCases

LEMMA OpenInvInit == Init => OpenInv
  <1> SUFFICES ASSUME Init PROVE OpenInv
    OBVIOUS
  <1>1. Types
    BY TypesInit
  <1>2. Places
    <2>1. /\ Avoids(<<Shared("connectEstablished")>>, {"shutdown"})
      BY ShortFacts DEF Shared
    <2> QED
      BY <2>1, ShortFacts DEF Init, Places
  <1>3. Unborn /\ Born
    BY DEF Init, Unborn, Born
  <1> QED
    BY <1>1, <1>2, <1>3
    DEF Init, OpenInv, Connected, WritingWhileBuffered, FinAfterData, DownOnce, isWriting

LEMMA OpenInvariance ==
    ASSUME ForeignCalls \subseteq NoClosers
    PROVE  Spec => []OpenInv
  <1>1. OpenInv /\ [Next]_vars => OpenInv'
    <2> SUFFICES ASSUME OpenInv, [Next]_vars PROVE OpenInv'
      OBVIOUS
    <2>1. CASE UNCHANGED vars
      BY <2>1 DEF vars, OpenInv, Types, Connected, Places, Unborn, Born, WritingWhileBuffered,
         FinAfterData, DownOnce, Running, isWriting, connVars, chanVars, dataVars, sockVars,
         queueVars, refVars, countVars
    <2>2. CASE Next
      BY <2>2, OpenInvStep
    <2> QED
      BY <2>1, <2>2
  <1> QED
    BY <1>1, OpenInvInit, PTL DEF Spec

\* As long as other threads do not close the connection, and whatever they
\* send and the user calls in the loop thread: handleWrite() is asked for
\* exactly while there is something to write,
THEOREM WritesWhileBuffered ==
    ASSUME ForeignCalls \subseteq NoClosers
    PROVE  Spec => []WritingWhileBuffered
  <1>1. OpenInv => WritingWhileBuffered
    BY DEF OpenInv
  <1> QED
    BY <1>1, OpenInvariance, PTL

\* shutdownInLoop() lets nothing that was accepted stay unwritten,
THEOREM ShutdownAfterData ==
    ASSUME ForeignCalls \subseteq NoClosers
    PROVE  Spec => []FinAfterData
  <1>1. OpenInv => FinAfterData
    BY DEF OpenInv
  <1> QED
    BY <1>1, OpenInvariance, PTL

\* and the user is told once that the connection is down.
THEOREM DownCallbackOnce ==
    ASSUME ForeignCalls \subseteq NoClosers
    PROVE  Spec => []DownOnce
  <1>1. OpenInv => DownOnce
    BY DEF OpenInv
  <1> QED
    BY <1>1, OpenInvariance, PTL

-----------------------------------------------------------------------------
(* The assertions.                                                         *)

LEMMA AvoidsParts ==
    ASSUME NEW s
    PROVE  Avoids(s, Closers) <=> Avoids(s, {"closeCallback"}) /\ Avoids(s, {"connectDestroyed", "remove"})
  BY DEF Avoids, Closers

\* What a handler that follows with more does to the closers in todo.
LEMMA TodoFacts ==
    ASSUME Types, todo # <<>>, NEW more \in Seq(Tasks), Then(more), NEW ops, Avoids(more, ops)
    PROVE  /\ Avoids(todo', ops) <=> Avoids(Tail(todo), ops)
           /\ Once(todo', ops) <=> Once(Tail(todo), ops)
           /\ Head(todo).op \notin ops => /\ Avoids(todo, ops) <=> Avoids(Tail(todo), ops)
                                          /\ Once(todo, ops) <=> Once(Tail(todo), ops)
           /\ Head(todo).op \in ops => ~Avoids(todo, ops) /\ (Once(todo, ops) <=> Avoids(Tail(todo), ops))
  <1>0. todo \in Seq(Tasks)
    BY DEF Types
  <1>1. /\ Tail(todo) \in Seq(Tasks)
        /\ Avoids(todo, ops) <=> Head(todo).op \notin ops /\ Avoids(Tail(todo), ops)
        /\ Once(todo, ops) <=> \/ Head(todo).op \in ops /\ Avoids(Tail(todo), ops)
                               \/ Head(todo).op \notin ops /\ Once(Tail(todo), ops)
    BY <1>0, TailFacts
  <1>2. /\ Avoids(more \o Tail(todo), ops) <=> Avoids(more, ops) /\ Avoids(Tail(todo), ops)
        /\ Once(more \o Tail(todo), ops) <=> \/ Once(more, ops) /\ Avoids(Tail(todo), ops)
                                             \/ Avoids(more, ops) /\ Once(Tail(todo), ops)
    BY <1>1, ConcatFacts
  <1>3. ~(Once(more, ops) /\ Avoids(more, ops))
    BY DEF Once, Avoids
  <1> QED
    BY <1>1, <1>2, <1>3 DEF Then

\* What appending a functor does.
LEMMA PendingFacts ==
    ASSUME Types, NEW f \in Functors, NEW ops
    PROVE  /\ Avoids(Append(pending, f), ops) <=> Avoids(pending, ops) /\ f.op \notin ops
           /\ f.op \notin ops => (Once(Append(pending, f), ops) <=> Once(pending, ops))
           /\ f.op \in ops => (Once(Append(pending, f), ops) <=> Avoids(pending, ops))
           /\ Range(Append(pending, f)) = Range(pending) \cup {f}
  <1>0. pending \in Seq(Functors)
    BY DEF Types
  <1>1. /\ Avoids(Append(pending, f), ops) <=> Avoids(pending, ops) /\ f.op \notin ops
        /\ Once(Append(pending, f), ops) <=> \/ Once(pending, ops) /\ f.op \notin ops
                                             \/ Avoids(pending, ops) /\ f.op \in ops
    BY <1>0, AppendFacts
  <1>2. Range(Append(pending, f)) = Range(pending) \cup {f}
    <2> DEFINE p == Append(pending, f)
               n == Len(pending)
    <2>1. /\ n \in Nat /\ DOMAIN pending = 1..n /\ DOMAIN p = 1..(n + 1)
          /\ \A i \in 1..n : p[i] = pending[i]
          /\ p[n + 1] = f
      BY <1>0, AppendProperties, LenProperties
    <2> HIDE DEF p, n
    <2>2. /\ \A i \in 1..(n + 1) : i \in 1..n \/ i = n + 1
          /\ \A i \in 1..n : i \in 1..(n + 1)
          /\ n + 1 \in 1..(n + 1)
      BY <2>1
    <2>3. Range(p) = {p[i] : i \in 1..(n + 1)} /\ Range(pending) = {pending[i] : i \in 1..n}
      BY <2>1 DEF Range
    <2>4. Range(p) = Range(pending) \cup {f}
      BY <2>1, <2>2, <2>3
    <2> QED
      BY <2>4 DEF p
  <1> QED
    BY <1>1, <1>2

\* The shape of every handler.
LEMMA HandlerShape ==
    ASSUME Types, Handler
    PROVE  /\ todo # <<>> /\ Running
           /\ \E more \in Seq(Tasks) : Then(more) /\ Avoids(more, Readers)
           /\ \/ pending' = pending
              \/ \E op \in {"connectDestroyed", "writeComplete", "highWater"} :
                    pending' = Append(pending, Shared(op))
           /\ UNCHANGED <<lpc, batch, batchHolds, call, alive>>
           /\ hold' = hold \/ connectEstablished
  <1>0. /\ <<>> \in Seq(Tasks) /\ Avoids(<<>>, Readers)
        /\ \A op \in TaskOps \ Readers : <<Task(op)>> \in Seq(Tasks) /\ Avoids(<<Task(op)>>, Readers)
        /\ \A op, p \in TaskOps \ Readers : /\ <<Task(op), Task(p)>> \in Seq(Tasks)
                                            /\ Avoids(<<Task(op), Task(p)>>, Readers)
    <2>1. \A op \in TaskOps : Task(op).op = op /\ Task(op) \in Tasks
      BY TaskFacts
    <2> QED
      BY <2>1, ShortFacts
  <1>1. {"userCode", "closeCallback", "connectDestroyed", "remove", "handleClose", "shutdown"}
          \subseteq TaskOps \ Readers
    BY OpNames DEF Readers
  <1>2. CASE Passing
    <2>1. Then(<<>>) \/ Then(<<Task("userCode")>>) \/ Then(<<Task("handleClose")>>)
      BY <1>2, PassingCases
    <2>2. \E more \in Seq(Tasks) : Then(more) /\ Avoids(more, Readers)
      BY <1>0, <1>1, <2>1
    <2> QED
      BY <1>2, <2>2, PassingCases DEF Outside, Running
  <1>3. CASE connectEstablished
    <2>1. \E more \in Seq(Tasks) : Then(more) /\ Avoids(more, Readers)
      BY <1>0, <1>1, <1>3 DEF connectEstablished
    <2> QED
      BY <1>3, <2>1 DEF connectEstablished, Do, queueVars
  <1>4. CASE handleClose
    <2>1. \E more \in Seq(Tasks) : Then(more) /\ Avoids(more, Readers)
      BY <1>0, <1>1, <1>4 DEF handleClose
    <2> QED
      BY <1>4, <2>1 DEF handleClose, Do, Outside
  <1>5. CASE closeCallback
    <2>1. \E more \in Seq(Tasks) : Then(more) /\ Avoids(more, Readers)
      BY <1>0, <1>5 DEF closeCallback
    <2> QED
      BY <1>5, <2>1 DEF closeCallback, Do, Outside
  <1>6. CASE connectDestroyed
    <2>1. \E more \in Seq(Tasks) : Then(more) /\ Avoids(more, Readers)
      BY <1>0, <1>1, <1>6 DEF connectDestroyed
    <2> QED
      BY <1>6, <2>1 DEF connectDestroyed, Do, Outside
  <1>7. ASSUME NEW n \in 0..2, sendInLoop(n)
        PROVE  /\ todo # <<>> /\ Running
               /\ Then(<<>>)
               /\ \/ pending' = pending
                  \/ \E op \in {"connectDestroyed", "writeComplete", "highWater"} :
                        pending' = Append(pending, Shared(op))
               /\ UNCHANGED <<lpc, batch, batchHolds, call, alive, hold>>
    <2>1. Running
      BY <1>7 DEF sendInLoop, Do
    <2> QED
      BY <1>7, <2>1, SendCases DEF Outside
  <1>8. ASSUME NEW n \in 0..Len(outputBuffer_), handleWrite(n)
        PROVE  /\ todo # <<>> /\ Running
               /\ Then(<<>>) \/ Then(<<Task("shutdown")>>)
               /\ \/ pending' = pending
                  \/ pending' = Append(pending, Shared("writeComplete"))
               /\ UNCHANGED <<lpc, batch, batchHolds, call, alive, hold>>
    BY <1>8 DEF handleWrite, Do, Drained, Outside
  <1>9. CASE shutdownInLoop \/ startReadInLoop \/ stopReadInLoop \/ removeChannel
    <2>1. /\ todo # <<>> /\ Running /\ Then(<<>>) /\ pending' = pending
          /\ UNCHANGED <<lpc, batch, batchHolds, call, alive, hold>>
      BY <1>9 DEF shutdownInLoop, startReadInLoop, stopReadInLoop, removeChannel, Do, Outside
    <2> QED
      BY <1>0, <2>1
  <1>10. CASE \E n \in 0..2 : sendInLoop(n)
    BY <1>0, <1>7, <1>10
  <1>11. CASE \E n \in 0..Len(outputBuffer_) : handleWrite(n)
    BY <1>0, <1>1, <1>8, <1>11
  <1> QED
    BY <1>2, <1>3, <1>4, <1>5, <1>6, <1>9, <1>10, <1>11 DEF Handler, Passing

LEMMA ReadingHandler ==
    ASSUME Types, Connected, Reading, Holders, Handler
    PROVE  Reading' /\ Holders'
  <1>0. PICK more \in Seq(Tasks) : Then(more) /\ Avoids(more, Readers)
    BY HandlerShape
  <1>1. /\ todo # <<>> /\ UNCHANGED <<lpc, batch, batchHolds, call, alive>>
        /\ todo \in Seq(Tasks)
        /\ hold' = hold \/ connectEstablished
    BY HandlerShape DEF Types
  <1>2. Avoids(todo', Readers)
    <2>1. HeadOnly(todo, Readers) <=> Avoids(Tail(todo), Readers)
      BY <1>1, TailFacts
    <2> QED
      BY <1>0, <1>1, <2>1, TodoFacts DEF Reading
  <1>3. HeadOnly(todo', Readers) /\ ~(todo' # <<>> /\ Head(todo').op \in Readers)
    <2>1. todo' \in Seq(Tasks)
      BY <1>0, <1>1, ThenTypes
    <2>2. todo' # <<>> => HeadOnly(todo', Readers) /\ Head(todo').op \notin Readers
      BY <1>2, <2>1, TailFacts
    <2> QED
      BY <2>2, ShortFacts
  <1>4. PICK new \in SUBSET Functors :
          /\ Range(pending') = Range(pending) \cup new
          /\ \A f \in new : f.shared /\ f.op \in {"connectDestroyed", "writeComplete", "highWater"}
          /\ Avoids(pending', Readers) <=> Avoids(pending, Readers)
    <2>1. CASE pending' = pending
      <3>1. /\ {} \in SUBSET Functors /\ Range(pending') = Range(pending) \cup {}
        BY <2>1
      <3> QED
        BY <2>1, <3>1
    <2>2. ASSUME NEW op \in {"connectDestroyed", "writeComplete", "highWater"},
                 pending' = Append(pending, Shared(op))
          PROVE  \E new \in SUBSET Functors :
                    /\ Range(pending') = Range(pending) \cup new
                    /\ \A f \in new : f.shared /\ f.op \in {"connectDestroyed", "writeComplete", "highWater"}
                    /\ Avoids(pending', Readers) <=> Avoids(pending, Readers)
      <3>1. Shared(op) \in Functors /\ Shared(op).op = op /\ Shared(op).shared
        BY OpNames, TaskFacts
      <3>2. op \notin Readers
        BY DEF Readers
      <3>3. /\ Range(pending') = Range(pending) \cup {Shared(op)}
            /\ Avoids(pending', Readers) <=> Avoids(pending, Readers)
        BY <2>2, <3>1, <3>2, PendingFacts
      <3>4. /\ {Shared(op)} \in SUBSET Functors
            /\ \A f \in {Shared(op)} :
                  f.shared /\ f.op \in {"connectDestroyed", "writeComplete", "highWater"}
        BY <3>1
      <3> QED
        BY <3>3, <3>4
    <2> QED
      BY <2>1, <2>2, HandlerShape
  <1>5. Reading'
    BY <1>1, <1>3, <1>4 DEF Reading
  <1>h. ASSUME \A t \in Threads : call[t] # NoCall => hold'[t],
               \A t \in Threads : hold'[t] => alive,
               (\E t \in Threads : hold[t]) => (\E t \in Threads : hold'[t])
        PROVE  Holders'
    <2>1. \A f \in Range(pending') \cup Range(batch') :
              /\ ~f.shared => f.op = "send" /\ \E t \in Threads : hold'[t]
              /\ f.op \notin {"closeCallback", "remove"}
      <3>1. ASSUME NEW f \in Range(pending') \cup Range(batch')
            PROVE  /\ ~f.shared => f.op = "send" /\ \E t \in Threads : hold'[t]
                   /\ f.op \notin {"closeCallback", "remove"}
        <4>1. CASE f \in new
          BY <1>4, <4>1
        <4>2. CASE f \in Range(pending) \cup Range(batch)
          BY <1>h, <4>2 DEF Holders
        <4> QED
          BY <1>1, <1>4, <4>1, <4>2
      <3> QED
        BY <3>1
    <2>2. \A f \in Range(batch') : f.shared => batchHolds'
      BY <1>1 DEF Holders
    <2>3. \A t \in Threads : /\ call'[t] # NoCall => hold'[t] /\ call'[t].op = "send"
                             /\ hold'[t] => alive'
      BY <1>1, <1>h DEF Holders
    <2> QED
      BY <2>1, <2>2, <2>3 DEF Holders
  <1>6. CASE hold' = hold
    <2>1. \A t \in Threads : (call[t] # NoCall => hold[t]) /\ (hold[t] => alive)
      BY DEF Holders
    <2>2. /\ \A t \in Threads : call[t] # NoCall => hold'[t]
          /\ \A t \in Threads : hold'[t] => alive
          /\ (\E t \in Threads : hold[t]) => (\E t \in Threads : hold'[t])
      BY <1>6, <2>1
    <2> QED
      BY <1>5, <1>h, <2>2
  <1>7. CASE connectEstablished
    <2>1. state_ = "kConnecting" /\ hold' = [t \in Threads |-> TRUE]
      BY <1>7, HeadTask DEF connectEstablished, Do
    <2>2. /\ alive /\ \A t \in Threads : call[t] = NoCall /\ hold'[t] /\ ~hold[t]
      BY <2>1 DEF Connected, Unborn
    <2>3. /\ \A t \in Threads : call[t] # NoCall => hold'[t]
          /\ \A t \in Threads : hold'[t] => alive
          /\ (\E t \in Threads : hold[t]) => (\E t \in Threads : hold'[t])
      BY <2>2
    <2> QED
      BY <1>5, <1>h, <2>3
  <1> QED
    BY <1>1, <1>5, <1>6, <1>7

\* A handler that is not about closing the connection.
LEMMA StagesPlain ==
    ASSUME Types, Connected, Stages, todo # <<>>, Head(todo).op \notin Closers,
           state_ # "kConnecting", NEW more \in Seq(Tasks), Then(more), Avoids(more, Closers),
           \/ pending' = pending
           \/ \E op \in {"writeComplete", "highWater"} : pending' = Append(pending, Shared(op)),
           UNCHANGED <<state_, owned, batch>>,
           index' = "kNew" <=> index = "kNew",
           state_ = "kDisconnected" => events' = {}
    PROVE  Stages'
  <1>1. ASSUME NEW ops \in {Closers, {"closeCallback"}, {"connectDestroyed", "remove"}}
        PROVE  /\ Avoids(todo', ops) <=> Avoids(todo, ops)
               /\ Once(todo', ops) <=> Once(todo, ops)
               /\ Avoids(pending', ops) <=> Avoids(pending, ops)
               /\ Once(pending', ops) <=> Once(pending, ops)
    <2>1. Avoids(more, ops) /\ Head(todo).op \notin ops
      BY AvoidsParts DEF Closers
    <2>2. /\ Avoids(todo', ops) <=> Avoids(todo, ops)
          /\ Once(todo', ops) <=> Once(todo, ops)
      BY <2>1, TodoFacts
    <2>3. ASSUME NEW op \in {"writeComplete", "highWater"}
          PROVE  /\ Avoids(Append(pending, Shared(op)), ops) <=> Avoids(pending, ops)
                 /\ Once(Append(pending, Shared(op)), ops) <=> Once(pending, ops)
      <3>1. Shared(op) \in Functors /\ Shared(op).op = op
        BY TaskFacts, OpNames
      <3>2. op \notin ops
        BY DEF Closers
      <3> QED
        BY <3>1, <3>2, PendingFacts
    <2> QED
      BY <2>2, <2>3
  <1>2. /\ NoCloser' <=> NoCloser
        /\ OneCloser' <=> OneCloser
        /\ Avoids(pending', Closers) <=> Avoids(pending, Closers)
        /\ Avoids(todo', {"closeCallback"}) <=> Avoids(todo, {"closeCallback"})
        /\ Once(todo', {"closeCallback"}) <=> Once(todo, {"closeCallback"})
        /\ Avoids(todo', {"connectDestroyed", "remove"}) <=> Avoids(todo, {"connectDestroyed", "remove"})
    BY <1>1 DEF NoCloser, OneCloser
  <1>3. ~(state_ \in Up /\ ~owned)
    <2>1. Head(<<Task("connectDestroyed")>>).op = "connectDestroyed"
      BY DEF Task
    <2> QED
      BY <2>1 DEF Stages, Closers
  <1> QED
    BY <1>2, <1>3 DEF Stages

LEMMA StagesHandler ==
    ASSUME OpenInv, Stages, Reading, Handler
    PROVE  /\ Running' => Stages'
           /\ failed' \subseteq {"shutdownWrite", "handleClose"}
  <1>0. Types /\ Connected /\ failed = {} /\ todo # <<>> /\ state_ \in States /\ todo \in Seq(Tasks)
    BY HandlerShape DEF OpenInv, Types, Running
  <1>1. /\ <<>> \in Seq(Tasks) /\ \A ops : Avoids(<<>>, ops)
        /\ \A op \in TaskOps : <<Task(op)>> \in Seq(Tasks)
        /\ \A op \in TaskOps \ Closers : Avoids(<<Task(op)>>, Closers)
    <2>1. \A op \in TaskOps : Task(op).op = op /\ Task(op) \in Tasks
      BY TaskFacts
    <2> QED
      BY <2>1, ShortFacts
  <1>2. {"userCode", "handleClose", "shutdown"} \subseteq TaskOps \ Closers
    BY OpNames DEF Closers
  <1>3. /\ state_ = "kConnecting" => Head(todo).op \in {"connectEstablished", "connectDestroyed", "remove"}
        /\ state_ # "kConnecting" => Head(todo).op # "connectEstablished"
    BY <1>0, HeadTask
  <1>4. ASSUME state_ \in Up, Head(todo).op # "connectDestroyed" PROVE owned /\ NoCloser
    <2>1. Head(<<Task("connectDestroyed")>>).op = "connectDestroyed"
      BY DEF Task
    <2> QED
      BY <1>4, <2>1 DEF Stages
  <1>5. CASE Passing
    <2>1. /\ Then(<<>>) \/ Then(<<Task("userCode")>>) \/ Then(<<Task("handleClose")>>)
          /\ Head(todo).op \notin Closers \cup {"connectEstablished"}
          /\ UNCHANGED <<state_, owned, batch, pending, index, events, failed>>
      BY <1>5, PassingCases DEF connVars, chanVars, Outside, Closers
    <2>2. state_ # "kConnecting"
      BY <1>3, <2>1 DEF Closers
    <2>3. state_ = "kDisconnected" => events' = {}
      BY <2>1 DEF Stages
    <2> QED
      BY <1>0, <1>1, <1>2, <2>1, <2>2, <2>3, StagesPlain
  <1>6. CASE connectEstablished
    <2>1. state_ = "kConnecting" /\ Head(todo).op = "connectEstablished"
      BY <1>3, <1>6 DEF connectEstablished, Do
    <2>2. /\ pending = <<>> /\ batch = <<>> /\ todo = <<Task("connectEstablished")>> /\ events = {}
          /\ owned
      <3>1. /\ Head(<<Task("connectDestroyed")>>).op = "connectDestroyed"
            /\ Head(<<Task("remove")>>).op = "remove"
        BY DEF Task
      <3> QED
        BY <1>0, <2>1, <3>1 DEF Connected, Unborn, Stages
    <2>3. /\ state_' = "kConnected" /\ failed' = failed /\ index' = "kAdded"
          /\ UNCHANGED <<pending, batch, owned>> /\ todo' = <<Task("userCode")>> \o Tail(todo)
      BY <1>6, <2>1, <2>2
      DEF connectEstablished, Asserts, enableReading, UpdateChannel, queueVars, Then
    <2>4. Avoids(todo', Closers)
      <3>1. Then(<<Task("userCode")>>)
        BY <2>3 DEF Then
      <3>2. Tail(todo) = <<>>
        BY <2>2
      <3> QED
        BY <1>0, <1>1, <1>2, <3>1, <3>2, TodoFacts
    <2>5. NoCloser'
      BY <1>1, <2>2, <2>3, <2>4 DEF NoCloser
    <2> QED
      BY <1>0, <2>2, <2>3, <2>5 DEF Stages, Up
  <1>7. CASE handleClose
    <2>0. /\ Head(todo).op = "handleClose" /\ state_' = "kDisconnected"
          /\ events' = {} /\ index' # "kNew" /\ UNCHANGED <<owned, batch, pending>>
          /\ Then(<<Task("userCode"), Task("closeCallback")>>)
      BY <1>7 DEF handleClose, Do, disableAll, UpdateChannel, Outside
    <2>1. CASE state_ \notin {"kConnected", "kDisconnecting"}
      BY <1>0, <1>7, <2>1 DEF handleClose, Asserts, Running
    <2>2. CASE state_ \in {"kConnected", "kDisconnecting"}
      <3>1. failed' = {}
        BY <1>0, <1>7, <2>2 DEF handleClose, Asserts
      <3>2. owned /\ NoCloser
        BY <1>4, <2>0, <2>2 DEF Up
      <3> DEFINE t == Tail(todo)
                 m == <<Task("userCode"), Task("closeCallback")>>
      <3>3. t \in Seq(Tasks) /\ Avoids(t, {"closeCallback"}) /\ Avoids(t, {"connectDestroyed", "remove"})
        <4>1. /\ Tail(todo) \in Seq(Tasks)
              /\ Avoids(todo, Closers) <=> Head(todo).op \notin Closers /\ Avoids(Tail(todo), Closers)
          BY <1>0, TailFacts
        <4> QED
          BY <3>2, <4>1, AvoidsParts DEF NoCloser
      <3>4. /\ m \in Seq(Tasks) /\ Once(m, {"closeCallback"})
            /\ Avoids(m, {"connectDestroyed", "remove"})
        <4>1. /\ Task("userCode") \in Tasks /\ Task("userCode").op = "userCode"
              /\ Task("closeCallback") \in Tasks /\ Task("closeCallback").op = "closeCallback"
          BY TaskFacts, OpNames
        <4> QED
          BY <4>1, ShortFacts
      <3>5. todo' = m \o t
        BY <2>0 DEF Then
      <3> HIDE DEF t, m
      <3>6. Once(todo', {"closeCallback"}) /\ Avoids(todo', {"connectDestroyed", "remove"})
        BY <3>3, <3>4, <3>5, ConcatFacts
      <3> QED
        BY <2>0, <3>1, <3>2, <3>6 DEF Stages, NoCloser, Up
    <2> QED
      BY <2>1, <2>2
  <1>8. CASE closeCallback
    <2>0. /\ Head(todo).op = "closeCallback" /\ owned' = FALSE /\ UNCHANGED <<state_, index, events, batch>>
          /\ pending' = Append(pending, Shared("connectDestroyed")) /\ Then(<<>>)
          /\ failed' = IF owned THEN failed ELSE failed \cup {"removeConnection"}
      BY <1>8 DEF closeCallback, Do, connVars, chanVars, Outside, Asserts
    <2>1. /\ \A ops : "closeCallback" \in ops => ~Avoids(todo, ops)
          /\ \A ops : Avoids(todo', ops) <=> Avoids(Tail(todo), ops)
          /\ Once(todo, {"closeCallback"}) => Avoids(Tail(todo), {"closeCallback"})
          /\ Avoids(todo, {"connectDestroyed", "remove"}) => Avoids(Tail(todo), {"connectDestroyed", "remove"})
      BY <1>0, <1>1, <2>0, TodoFacts
    <2>2. "closeCallback" \in Closers
      BY DEF Closers
    <2>3. state_ = "kDisconnected" /\ owned
      BY <1>0, <1>3, <1>4, <2>0, <2>1, <2>2 DEF Stages, States, Up, NoCloser
    <2>4. /\ Avoids(todo', {"closeCallback"}) /\ Avoids(todo', Closers)
          /\ Avoids(batch, Closers) /\ Avoids(pending, Closers) /\ events = {} /\ index # "kNew"
      BY <2>1, <2>3, AvoidsParts DEF Stages
    <2>5. Once(pending', Closers)
      <3>1. /\ Shared("connectDestroyed") \in Functors /\ Shared("connectDestroyed").op \in Closers
        BY TaskFacts, OpNames DEF Closers
      <3> QED
        BY <1>0, <2>0, <2>4, <3>1, PendingFacts
    <2>6. OneCloser' /\ failed' = {}
      BY <1>0, <2>0, <2>3, <2>4, <2>5 DEF OneCloser
    <2> QED
      BY <2>0, <2>3, <2>4, <2>6 DEF Stages, Up
  <1>9. CASE connectDestroyed
    <2>0. /\ Head(todo).op = "connectDestroyed" /\ UNCHANGED <<owned, batch, pending, failed>>
      BY <1>9 DEF connectDestroyed, Do, Outside
    <2>1. ~Avoids(todo, Closers) /\ ~Avoids(todo, {"connectDestroyed", "remove"})
      BY <1>0, <1>1, <2>0, TailFacts DEF Closers
    <2>2. ~owned /\ index # "kNew" /\ (state_ = "kConnected" \/ (state_ = "kDisconnected" /\ OneCloser))
      <3>1. state_ # "kConnecting"
        BY <2>1 DEF Stages
      <3>2. state_ \in Up => ~owned /\ state_ = "kConnected" /\ index # "kNew"
        BY <2>1 DEF Stages, NoCloser
      <3>3. state_ = "kDisconnected" => ~owned /\ index # "kNew" /\ OneCloser
        BY <2>1 DEF Stages, NoCloser
      <3> QED
        BY <1>0, <3>1, <3>2, <3>3 DEF States, Up
    <2>3. /\ Avoids(batch, Closers) /\ Avoids(pending, Closers)
          /\ Avoids(Tail(todo), Closers)
      <3>1. /\ "connectDestroyed" \in Closers
            /\ Once(todo, Closers) <=> Avoids(Tail(todo), Closers)
        <4>1. /\ Once(todo, Closers) <=>
                   \/ Head(todo).op \in Closers /\ Avoids(Tail(todo), Closers)
                   \/ Head(todo).op \notin Closers /\ Once(Tail(todo), Closers)
          BY <1>0, TailFacts
        <4> QED
          BY <2>0, <4>1 DEF Closers
      <3>2. CASE state_ = "kConnected"
        <4>1. todo = <<Task("connectDestroyed")>> /\ Avoids(batch, Closers) /\ Avoids(pending, Closers)
          BY <2>2, <3>2 DEF Stages, Up
        <4>2. Tail(todo) = <<>>
          BY <4>1
        <4> QED
          BY <1>1, <4>1, <4>2
      <3>3. CASE OneCloser
        BY <2>1, <3>1, <3>3 DEF OneCloser
      <3> QED
        BY <2>2, <3>2, <3>3
    <2>4. /\ state_' = "kDisconnected" /\ events' = {} /\ index' # "kNew"
          /\ \/ Then(<<Task("remove")>>) \/ Then(<<Task("userCode"), Task("remove")>>)
      <3>1. CASE state_ = "kConnected"
        BY <1>9, <3>1 DEF connectDestroyed, disableAll, UpdateChannel
      <3>2. CASE state_ = "kDisconnected"
        BY <1>9, <2>2, <3>2 DEF connectDestroyed, chanVars, Stages
      <3> QED
        BY <2>2, <3>1, <3>2
    <2>5. Once(todo', Closers) /\ Avoids(todo', {"closeCallback"})
      <3>1. PICK m \in Seq(Tasks) : /\ todo' = m \o Tail(todo) /\ Once(m, Closers)
                                    /\ Avoids(m, {"closeCallback"})
        <4>1. /\ Task("userCode") \in Tasks /\ Task("userCode").op = "userCode"
              /\ Task("remove") \in Tasks /\ Task("remove").op = "remove"
          BY TaskFacts, OpNames
        <4>2. /\ <<Task("remove")>> \in Seq(Tasks)
              /\ <<Task("userCode"), Task("remove")>> \in Seq(Tasks)
          BY <4>1
        <4>3. /\ Once(<<Task("remove")>>, Closers) /\ Avoids(<<Task("remove")>>, {"closeCallback"})
              /\ Once(<<Task("userCode"), Task("remove")>>, Closers)
              /\ Avoids(<<Task("userCode"), Task("remove")>>, {"closeCallback"})
          BY <4>1, ShortFacts DEF Closers
        <4> QED
          BY <2>4, <4>2, <4>3 DEF Then
      <3>2. Tail(todo) \in Seq(Tasks) /\ Avoids(Tail(todo), {"closeCallback"})
        BY <1>0, <2>3, HeadTask, AvoidsParts
      <3> QED
        BY <2>3, <3>1, <3>2, ConcatFacts
    <2>6. OneCloser'
      BY <2>0, <2>3, <2>5 DEF OneCloser
    <2> QED
      BY <1>0, <2>0, <2>2, <2>4, <2>5, <2>6 DEF Stages, Up
  <1>10. CASE removeChannel
    <2>0. /\ Head(todo).op = "remove" /\ UNCHANGED <<state_, events, owned, batch, pending>>
          /\ index' = "kNew" /\ Then(<<>>)
          /\ failed' = failed \cup (IF events # {} THEN {"Channel::remove"} ELSE {})
                               \cup (IF index = "kNew" THEN {"removeChannel"} ELSE {})
      BY <1>10 DEF removeChannel, Do, connVars, Outside
    <2>1. /\ ~Avoids(todo, Closers) /\ ~Avoids(todo, {"connectDestroyed", "remove"})
          /\ Once(todo, Closers) => Avoids(Tail(todo), Closers)
          /\ Avoids(todo', Closers) <=> Avoids(Tail(todo), Closers)
      <3>1. Head(todo).op \in Closers /\ Head(todo).op \in {"connectDestroyed", "remove"}
        BY <2>0 DEF Closers
      <3> QED
        BY <1>0, <1>1, <2>0, <3>1, TodoFacts
    <2>2. state_ = "kDisconnected" /\ ~owned /\ index # "kNew" /\ OneCloser /\ events = {}
      <3>1. state_ # "kConnecting"
        BY <2>1 DEF Stages
      <3>2. state_ \notin Up
        BY <1>4, <2>0, <2>1 DEF NoCloser
      <3>3. state_ = "kDisconnected"
        BY <1>0, <3>1, <3>2 DEF States, Up
      <3> QED
        BY <2>1, <3>3 DEF Stages, NoCloser
    <2>3. NoCloser' /\ failed' = {}
      BY <1>0, <2>0, <2>1, <2>2 DEF OneCloser, NoCloser
    <2> QED
      BY <2>0, <2>2, <2>3 DEF Stages, Up
  <1>11. ASSUME NEW n \in 0..2, sendInLoop(n)
         PROVE  (Running' => Stages') /\ failed' \subseteq {"shutdownWrite", "handleClose"}
    <2>1. /\ Head(todo).op = "send" /\ Then(<<>>) /\ UNCHANGED <<state_, owned, batch, failed>>
      BY <1>0, <1>11, SendCases DEF connVars, Outside
    <2>2. state_ # "kConnecting" /\ Head(todo).op \notin Closers
      BY <1>3, <2>1 DEF Closers
    <2>3. \/ UNCHANGED <<events, index, pending>>
          \/ /\ state_ # "kDisconnected"
             /\ \/ UNCHANGED <<events, index>>
                \/ enableWriting
             /\ \/ pending' = pending
                \/ pending' = Append(pending, Shared("writeComplete"))
                \/ pending' = Append(pending, Shared("highWater"))
      BY <1>0, <1>11, SendCases DEF chanVars
    <2>4. state_ = "kDisconnected" => events' = {}
      BY <2>3 DEF Stages
    <2>5. index' = "kNew" <=> index = "kNew"
      <3>1. CASE index' = index
        BY <3>1
      <3>2. CASE enableWriting /\ state_ # "kDisconnected"
        BY <1>0, <2>2, <3>2 DEF enableWriting, UpdateChannel, Stages, Up, States
      <3> QED
        BY <2>3, <3>1, <3>2
    <2>6. \/ pending' = pending
          \/ \E op \in {"writeComplete", "highWater"} : pending' = Append(pending, Shared(op))
      BY <2>3
    <2> QED
      BY <1>0, <1>1, <2>1, <2>2, <2>4, <2>5, <2>6, StagesPlain
  <1>12. ASSUME NEW n \in 0..Len(outputBuffer_), handleWrite(n)
         PROVE  (Running' => Stages') /\ failed' \subseteq {"shutdownWrite", "handleClose"}
    <2>1. /\ Head(todo).op = "handleWrite"
          /\ Then(<<>>) \/ Then(<<Task("shutdown")>>)
          /\ UNCHANGED <<state_, owned, batch, failed>>
          /\ pending' = pending \/ pending' = Append(pending, Shared("writeComplete"))
      BY <1>12 DEF handleWrite, Do, Drained, connVars, Outside
    <2>2. state_ # "kConnecting" /\ Head(todo).op \notin Closers
      BY <1>3, <2>1 DEF Closers
    <2>3. UNCHANGED <<events, index>> \/ (isWriting /\ disableWriting)
      BY <1>0, <1>12, WriteCases DEF chanVars
    <2>4. state_ = "kDisconnected" => events' = {} /\ index' = index
      BY <2>3 DEF Stages, isWriting
    <2>5. index' = "kNew" <=> index = "kNew"
      <3>1. CASE index' = index
        BY <3>1
      <3>2. CASE disableWriting /\ state_ # "kDisconnected"
        BY <1>0, <2>2, <3>2 DEF disableWriting, UpdateChannel, Stages, Up, States
      <3> QED
        BY <2>3, <2>4, <3>1, <3>2
    <2>6. \/ pending' = pending
          \/ \E op \in {"writeComplete", "highWater"} : pending' = Append(pending, Shared(op))
      BY <2>1
    <2> QED
      BY <1>0, <1>1, <1>2, <2>1, <2>2, <2>4, <2>5, <2>6, StagesPlain
  <1>13. CASE shutdownInLoop
    <2>1. /\ Head(todo).op = "shutdown" /\ Then(<<>>)
          /\ UNCHANGED <<state_, owned, batch, pending, index, events>>
          /\ failed' \subseteq {"shutdownWrite"}
      BY <1>0, <1>13 DEF shutdownInLoop, Do, connVars, chanVars, Outside, Asserts
    <2>2. state_ # "kConnecting" /\ Head(todo).op \notin Closers
      BY <1>3, <2>1 DEF Closers
    <2>3. state_ = "kDisconnected" => events' = {}
      BY <2>1 DEF Stages
    <2> QED
      BY <1>0, <1>1, <2>1, <2>2, <2>3, StagesPlain
  <1>14. CASE startReadInLoop \/ stopReadInLoop
    <2>1. /\ Head(todo).op \in Readers /\ Then(<<>>)
          /\ UNCHANGED <<state_, owned, batch, pending, failed>>
          /\ UNCHANGED index \/ enableReading \/ disableReading
      BY <1>14 DEF startReadInLoop, stopReadInLoop, Do, chanVars, Outside, Readers
    <2>2. state_ # "kConnecting" /\ Head(todo).op \notin Closers /\ state_ # "kDisconnected"
      BY <1>0, <1>3, <2>1 DEF Closers, Readers, Reading
    <2>3. index # "kNew" /\ index' # "kNew"
      BY <1>0, <2>1, <2>2 DEF enableReading, disableReading, UpdateChannel, Stages, Up, States
    <2> QED
      BY <1>0, <1>1, <2>1, <2>2, <2>3, StagesPlain
  <1>15. CASE \E n \in 0..2 : sendInLoop(n)
    BY <1>11, <1>15
  <1>16. CASE \E n \in 0..Len(outputBuffer_) : handleWrite(n)
    BY <1>12, <1>16
  <1> QED
    BY <1>5, <1>6, <1>7, <1>8, <1>9, <1>10, <1>13, <1>14, <1>15, <1>16 DEF Handler, Passing


LEMMA BatchFacts ==
    ASSUME Types, batch # <<>>
    PROVE  /\ Head(batch) \in Range(batch) /\ Range(Tail(batch)) \subseteq Range(batch)
           /\ Head(batch) \in Functors
  <1>0. /\ batch \in Seq(Functors) /\ Len(batch) \in Nat /\ Len(batch) > 0
        /\ DOMAIN batch = 1..Len(batch)
    BY LenProperties, EmptySeq DEF Types
  <1>1. /\ Tail(batch) \in Seq(Functors) /\ Len(Tail(batch)) = Len(batch) - 1
        /\ \A i \in 1..Len(Tail(batch)) : Tail(batch)[i] = batch[i + 1]
        /\ DOMAIN Tail(batch) = 1..Len(Tail(batch))
        /\ Head(batch) = batch[1] /\ Head(batch) \in Functors
    BY <1>0, HeadTailProperties, LenProperties
  <1>2. 1 \in DOMAIN batch /\ \A i \in DOMAIN Tail(batch) : i + 1 \in DOMAIN batch
    BY <1>0, <1>1
  <1>3. /\ Range(batch) = {batch[i] : i \in DOMAIN batch}
        /\ Range(Tail(batch)) = {Tail(batch)[i] : i \in DOMAIN Tail(batch)}
    BY DEF Range
  <1> QED
    BY <1>1, <1>2, <1>3

\* The last pointer goes only when the connection is down and its channel is
\* out of the poller.
LEMMA LastPointer ==
    ASSUME OpenInv, Stages, Holders, todo = <<>>, ~owned, ~QueuedPtr, batch = <<>> \/ ~batchHolds
    PROVE  state_ = "kDisconnected" /\ index = "kNew"
  <1>0. /\ Types /\ state_ \in States /\ pending \in Seq(Functors) /\ batch \in Seq(Functors)
    BY DEF OpenInv, Types
  <1>1. state_ = "kDisconnected"
    BY <1>0 DEF Stages, Up, States
  <1>2. ASSUME NEW s \in {pending, batch}, Once(s, Closers) PROVE \E f \in Range(s) : f.shared
    <2>1. PICK i \in 1..Len(s) : s[i].op \in Closers
      BY <1>2 DEF Once
    <2>2. s[i] \in Range(s)
      <3>1. DOMAIN s = 1..Len(s)
        BY <1>0, LenProperties
      <3> QED
        BY <3>1 DEF Range
    <2>3. s[i].op # "send"
      BY <2>1 DEF Closers
    <2>4. s[i].shared
      BY <2>2, <2>3 DEF Holders
    <2> QED
      BY <2>2, <2>4
  <1>3. ~Once(pending, Closers)
    BY <1>2 DEF QueuedPtr
  <1>4. ~Once(batch, Closers)
    <2>1. CASE batch = <<>>
      BY <2>1, ShortFacts
    <2>2. CASE ~batchHolds
      BY <1>2, <2>2 DEF Holders
    <2> QED
      BY <2>1, <2>2
  <1>5. ~Once(todo, Closers)
    BY ShortFacts
  <1> QED
    BY <1>1, <1>3, <1>4, <1>5 DEF Stages, OneCloser

LEMMA LifeOther ==
    ASSUME OpenInv, Running, Stages, Reading, Holders, Other,
           ForeignCalls \subseteq {"send"}, OwnerLeaves \subseteq {"kConnected"}
    PROVE  failed' = {} /\ Stages' /\ Reading' /\ Holders'
  <1>0. /\ Types /\ Connected /\ failed = {} /\ state_ \in States
        /\ todo \in Seq(Tasks) /\ pending \in Seq(Functors) /\ batch \in Seq(Functors)
        /\ call \in [Threads -> [op : ApiCalls, msg : Nat] \cup {NoCall}]
        /\ hold \in [Threads -> BOOLEAN] /\ alive \in BOOLEAN
    BY DEF OpenInv, Types, Running
  <1>e. \A ops : Avoids(<<>>, ops) /\ HeadOnly(<<>>, ops) /\ ~Once(<<>>, ops)
    BY ShortFacts
  <1>u. ASSUME todo = <<>> PROVE /\ ~(state_ \in Up /\ ~owned)
                                 /\ ~(state_ = "kDisconnected" /\ owned)
    BY <1>e, <1>u DEF Stages
  <1>1. CASE doPendingFunctors
    <2>1. /\ lpc = "events" /\ todo = <<>> /\ batch' = pending /\ pending' = <<>>
          /\ batchHolds' = (\E f \in Range(pending) : f.shared)
          /\ UNCHANGED <<state_, events, index, owned, alive, hold, call, todo, failed>>
      BY <1>1 DEF doPendingFunctors, connVars, chanVars, refVars
    <2>2. batch = <<>> /\ Range(pending') = {}
      <3>1. batch = <<>>
        BY <1>0, <2>1 DEF Connected, Places
      <3>2. DOMAIN <<>> = {}
        OBVIOUS
      <3> QED
        BY <2>1, <3>1, <3>2 DEF Range
    <2>3. Reading'
      BY <1>e, <2>1 DEF Reading
    <2>4. Stages'
      <3>1. (NoCloser' <=> NoCloser) /\ (OneCloser' <=> OneCloser)
        BY <1>e, <2>1, <2>2 DEF NoCloser, OneCloser
      <3> QED
        BY <1>u, <2>1, <3>1 DEF Stages
    <2>5. Holders'
      <3>1. Range(batch') = Range(pending)
        BY <2>1
      <3>2. \A f \in Range(batch') : f.shared => batchHolds'
        BY <2>1, <3>1
      <3> QED
        BY <2>1, <2>2, <3>1, <3>2 DEF Holders
    <2> QED
      BY <1>0, <2>1, <2>3, <2>4, <2>5
  <1>2. CASE RunFunctor
    <2>1. /\ lpc = "functors" /\ todo = <<>> /\ batch # <<>> /\ batch' = Tail(batch)
          /\ UNCHANGED <<state_, events, index, owned, alive, hold, call, pending, batchHolds>>
          /\ failed' = IF Head(batch).shared \/ alive THEN failed ELSE failed \cup {"raw this"}
      BY <1>2 DEF RunFunctor, connVars, chanVars, refVars, Asserts
    <2>2. PICK x : x = [op |-> Head(batch).op, msg |-> Head(batch).msg] /\ todo' = <<x>>
      BY <1>2 DEF RunFunctor
    <2>3. x.op = Head(batch).op /\ Head(<<x>>) = x
      BY <2>2
    <2>4. ASSUME NEW ops
          PROVE  /\ Avoids(batch, ops) <=> x.op \notin ops /\ Avoids(batch', ops)
                 /\ Once(batch, ops) <=> \/ x.op \in ops /\ Avoids(batch', ops)
                                         \/ x.op \notin ops /\ Once(batch', ops)
                 /\ Avoids(todo', ops) <=> x.op \notin ops
                 /\ Once(todo', ops) <=> x.op \in ops
                 /\ HeadOnly(todo', ops)
      <3>1. /\ Avoids(batch, ops) <=> Head(batch).op \notin ops /\ Avoids(Tail(batch), ops)
            /\ Once(batch, ops) <=> \/ Head(batch).op \in ops /\ Avoids(Tail(batch), ops)
                                    \/ Head(batch).op \notin ops /\ Once(Tail(batch), ops)
        BY <1>0, <2>1, TailFacts
      <3> QED
        BY <2>1, <2>2, <2>3, <3>1, ShortFacts
    <2>5. failed' = {}
      <3>1. ~Head(batch).shared => \E t \in Threads : hold[t]
        BY <1>0, <2>1, BatchFacts DEF Holders
      <3>2. (\E t \in Threads : hold[t]) => alive
        BY DEF Holders
      <3> QED
        BY <1>0, <2>1, <3>1, <3>2
    <2>6. Reading'
      BY <2>1, <2>2, <2>3, <2>4 DEF Reading
    <2>7. Stages'
      <3>1. (NoCloser' <=> NoCloser) /\ (OneCloser => OneCloser')
        BY <1>e, <2>1, <2>4 DEF NoCloser, OneCloser
      <3>2. x.op # "closeCallback"
        BY <1>0, <2>1, <2>3, BatchFacts DEF Holders
      <3>3. Avoids(todo', {"closeCallback"})
        BY <2>4, <3>2
      <3>4. state_ = "kConnecting" => Avoids(todo', Closers)
        <4>1. ASSUME state_ = "kConnecting" PROVE x.op = "connectEstablished"
          <5>1. batch = <<Shared("connectEstablished")>>
            BY <1>0, <2>1, <4>1 DEF Connected, Unborn
          <5> QED
            BY <2>3, <5>1 DEF Shared
        <4> QED
          BY <2>4, <4>1 DEF Closers
      <3> QED
        BY <1>u, <2>1, <3>1, <3>3, <3>4 DEF Stages
    <2>8. Holders'
      <3>1. Range(batch') \subseteq Range(batch)
        BY <1>0, <2>1, BatchFacts
      <3> QED
        BY <2>1, <3>1 DEF Holders
    <2> QED
      BY <2>5, <2>6, <2>7, <2>8
  <1>3. CASE EndFunctors
    <2>1. /\ lpc = "functors" /\ todo = <<>> /\ batch = <<>> /\ ~batchHolds'
          /\ UNCHANGED <<state_, events, index, owned, hold, call, pending, todo, batch>>
          /\ Destroy(~owned /\ ~QueuedPtr /\ \A t \in Threads : ~hold[t])
      BY <1>3 DEF EndFunctors, connVars, chanVars
    <2>2. failed' = {} /\ \A t \in Threads : hold[t] => alive'
      <3>1. CASE ~owned /\ ~QueuedPtr /\ \A t \in Threads : ~hold[t]
        <4>1. state_ = "kDisconnected" /\ index = "kNew"
          BY <2>1, <3>1, LastPointer
        <4> QED
          BY <1>0, <2>1, <3>1, <4>1 DEF Destroy
      <3>2. CASE ~(~owned /\ ~QueuedPtr /\ \A t \in Threads : ~hold[t])
        <4>1. failed' = {} /\ (alive' <=> alive)
          BY <1>0, <2>1, <3>2 DEF Destroy
        <4> QED
          BY <4>1 DEF Holders
      <3> QED
        BY <3>1, <3>2
    <2>3. Range(batch') = {}
      <3>1. DOMAIN <<>> = {}
        OBVIOUS
      <3> QED
        BY <2>1, <3>1 DEF Range
    <2>4. Stages' /\ Reading'
      BY <2>1 DEF Stages, Reading, NoCloser, OneCloser
    <2>5. Holders'
      BY <2>1, <2>2, <2>3 DEF Holders
    <2> QED
      BY <2>2, <2>4, <2>5
  <1>4. ASSUME NEW w \in BOOLEAN, Poll(w) PROVE failed' = {} /\ Stages' /\ Reading' /\ Holders'
    <2> DEFINE evs == handleEvent(Revents(w))
    <2>1. /\ lpc = "poll" /\ todo' = evs
          /\ UNCHANGED <<state_, events, index, owned, alive, hold, call, pending, batch, batchHolds,
                         failed>>
      BY <1>4 DEF Poll, connVars, chanVars, refVars
    <2>2. todo = <<>>
      BY <1>0, <2>1 DEF Connected, Places
    <2>3. /\ evs \in Seq(Tasks)
          /\ \A i \in 1..Len(evs) :
                evs[i].op \in {"handleClose", "handleError", "handleRead", "handleWrite"}
      BY HandleEventTypes
    <2> HIDE DEF evs
    <2>4. /\ Avoids(evs, Readers) /\ Avoids(evs, Closers) /\ Avoids(evs, {"closeCallback"})
          /\ ~Once(evs, Closers)
      BY <2>3 DEF Avoids, Once, Readers, Closers
    <2>5. HeadOnly(evs, Readers) /\ ~(evs # <<>> /\ Head(evs).op \in Readers)
      <3>1. evs # <<>> => HeadOnly(evs, Readers) /\ Head(evs).op \notin Readers
        BY <2>3, <2>4, TailFacts
      <3> QED
        BY <1>e, <3>1
    <2>6. Reading' /\ Holders'
      BY <2>1, <2>5 DEF Reading, Holders
    <2>7. Stages'
      <3>1. (NoCloser' <=> NoCloser) /\ (OneCloser' <=> OneCloser)
        BY <1>e, <2>1, <2>2, <2>4 DEF NoCloser, OneCloser
      <3> QED
        BY <1>u, <2>1, <2>2, <2>4, <3>1 DEF Stages
    <2> QED
      BY <1>0, <2>1, <2>6, <2>7
  <1>5. ASSUME NEW op \in LoopCalls, LoopCall(op)
        PROVE  failed' = {} /\ Stages' /\ Reading' /\ Holders'
    <2>0. /\ todo # <<>> /\ Head(todo).op = "userCode"
          /\ UNCHANGED <<events, index, owned, alive, hold, call, batch, batchHolds, failed>>
          /\ pending' = IF op = "forceClose" THEN Append(pending, Shared(op)) ELSE pending
          /\ \/ todo' = todo
             \/ todo' = <<[op |-> op, msg |-> calls + 1]>> \o todo
      BY <1>5 DEF LoopCall, Do, chanVars, refVars
    <2>1. /\ state_ # "kConnecting" /\ op \in ApiCalls /\ op \in TaskOps
      <3>1. state_ # "kConnecting"
        BY <1>0, <2>0, HeadTask
      <3> QED
        BY <3>1, CallsAssumption, TaskFacts
    <2>2. state_ \in Up /\ state_' \in Up
      <3>1. state_ # "kDisconnected"
        <4>1. CASE op \in Readers
          BY <1>5, <4>1 DEF LoopCall, Readers
        <4>2. CASE op \in {"send", "shutdown"}
          BY <1>5, <4>2 DEF LoopCall, Accepts
        <4>3. CASE op \in {"forceClose", "forceCloseWithDelay"}
          BY <1>5, <4>3 DEF LoopCall, Accepts
        <4> QED
          BY <2>1, <4>1, <4>2, <4>3 DEF ApiCalls, Readers
      <3>2. state_ \in Up
        BY <1>0, <2>1, <3>1 DEF Up, States
      <3> QED
        BY <1>5, <3>2 DEF LoopCall, SetState, Up
    <2>3. owned /\ NoCloser /\ index # "kNew"
      <3>1. Head(<<Task("connectDestroyed")>>).op = "connectDestroyed"
        BY DEF Task
      <3> QED
        BY <2>0, <2>2, <3>1 DEF Stages
    <2>4. /\ Avoids(pending', Closers) /\ Avoids(pending', Readers)
          /\ \A f \in Range(pending') : f \in Range(pending) \/ (f.shared /\ f.op = "forceClose")
      <3>1. CASE pending' = pending
        BY <2>3, <3>1 DEF NoCloser, Reading
      <3>2. CASE pending' = Append(pending, Shared("forceClose"))
        <4>1. /\ Shared("forceClose") \in Functors /\ Shared("forceClose").op = "forceClose"
              /\ Shared("forceClose").shared
          BY TaskFacts, OpNames
        <4>2. "forceClose" \notin Closers /\ "forceClose" \notin Readers
          BY DEF Closers, Readers
        <4> QED
          BY <1>0, <2>3, <3>2, <4>1, <4>2, PendingFacts DEF NoCloser, Reading
      <3> QED
        BY <2>0, <3>1, <3>2
    <2>5. Avoids(todo, Readers)
      <3>1. /\ Avoids(todo, Readers) <=> Head(todo).op \notin Readers /\ Avoids(Tail(todo), Readers)
            /\ HeadOnly(todo, Readers) <=> Avoids(Tail(todo), Readers)
        BY <1>0, <2>0, TailFacts
      <3> QED
        BY <2>0, <3>1 DEF Reading, Readers
    <2>6. HeadOnly(todo', Readers) /\ Avoids(todo', Closers)
      <3>1. CASE todo' = todo
        BY <2>3, <3>1 DEF Reading, NoCloser
      <3>2. CASE todo' = <<[op |-> op, msg |-> calls + 1]>> \o todo
        <4>1. PICK x : x = [op |-> op, msg |-> calls + 1]
          OBVIOUS
        <4>2. x \in Tasks /\ x.op = op /\ <<x>> \in Seq(Tasks)
          <5>1. calls + 1 \in Nat
            BY <1>0 DEF Types
          <5>2. x \in Tasks /\ x.op = op
            BY <2>1, <4>1, <5>1, TaskFacts
          <5> QED
            BY <5>2
        <4>3. /\ todo' \in Seq(Tasks) /\ todo' # <<>> /\ Head(todo') = x /\ Tail(todo') = todo
          BY <1>0, <3>2, <4>1, <4>2
        <4>4. /\ HeadOnly(todo', Readers) <=> Avoids(Tail(todo'), Readers)
              /\ Avoids(todo', Closers) <=> Head(todo').op \notin Closers /\ Avoids(Tail(todo'), Closers)
          BY <4>3, TailFacts
        <4>5. op \notin Closers
          BY <2>1 DEF ApiCalls, Closers
        <4> QED
          BY <2>3, <2>5, <4>2, <4>3, <4>4, <4>5 DEF NoCloser
      <3> QED
        BY <2>0, <3>1, <3>2
    <2>7. Stages'
      BY <2>0, <2>2, <2>3, <2>4, <2>6 DEF Stages, NoCloser, Up
    <2>8. Reading'
      BY <2>0, <2>2, <2>4, <2>6 DEF Reading, Up
    <2>9. Holders'
      BY <2>0, <2>4 DEF Holders
    <2> QED
      BY <1>0, <2>0, <2>7, <2>8, <2>9
  <1>6. ASSUME NEW t \in Threads, NEW op \in ForeignCalls, ForeignTest(t, op)
        PROVE  failed' = {} /\ Stages' /\ Reading' /\ Holders'
    <2>1. /\ hold[t] /\ call' = [call EXCEPT ![t] = [op |-> op, msg |-> calls + 1]]
          /\ UNCHANGED <<state_, events, index, owned, alive, hold, todo, pending, batch, batchHolds,
                         failed>>
      BY <1>6 DEF ForeignTest, connVars, chanVars, queueVars, refVars
    <2>2. \A s \in Threads : call'[s] # NoCall => hold[s] /\ call'[s].op = "send"
      <3>1. ASSUME NEW s \in Threads, call'[s] # NoCall PROVE hold[s] /\ call'[s].op = "send"
        <4>1. CASE s = t
          BY <1>0, <2>1, <4>1
        <4>2. CASE s # t
          BY <1>0, <2>1, <3>1, <4>2 DEF Holders
        <4> QED
          BY <4>1, <4>2
      <3> QED
        BY <3>1
    <2>3. Stages' /\ Reading'
      BY <2>1 DEF Stages, Reading, NoCloser, OneCloser
    <2>4. Holders'
      BY <2>1, <2>2 DEF Holders
    <2> QED
      BY <1>0, <2>1, <2>3, <2>4
  <1>7. ASSUME NEW t \in Threads, ForeignQueue(t)
        PROVE  failed' = {} /\ Stages' /\ Reading' /\ Holders'
    <2>1. /\ call[t] # NoCall /\ call' = [call EXCEPT ![t] = NoCall]
          /\ UNCHANGED <<events, index, owned, alive, hold, todo, batch, batchHolds, failed>>
      BY <1>7 DEF ForeignQueue, chanVars, refVars
    <2>2. hold[t] /\ call[t].op = "send" /\ call[t] \in [op : ApiCalls, msg : Nat]
      BY <1>0, <2>1 DEF Holders
    <2>3. PICK f : f = Raw("send", call[t].msg)
      OBVIOUS
    <2>4. f \in Functors /\ f.op = "send" /\ ~f.shared
      BY <2>2, <2>3, TaskFacts, OpNames
    <2>5. state_' = state_ /\ pending' = Append(pending, f)
      BY <1>7, <2>2, <2>3 DEF ForeignQueue, SetState
    <2>6. /\ Avoids(pending', Closers) <=> Avoids(pending, Closers)
          /\ Once(pending', Closers) <=> Once(pending, Closers)
          /\ Avoids(pending', Readers) <=> Avoids(pending, Readers)
          /\ Range(pending') = Range(pending) \cup {f}
      <3>1. f.op \notin Closers /\ f.op \notin Readers
        BY <2>4 DEF Closers, Readers
      <3> QED
        BY <1>0, <2>4, <2>5, <3>1, PendingFacts
    <2>7. Stages'
      <3>1. (NoCloser' <=> NoCloser) /\ (OneCloser' <=> OneCloser)
        BY <2>1, <2>6 DEF NoCloser, OneCloser
      <3> QED
        BY <2>1, <2>5, <2>6, <3>1 DEF Stages
    <2>8. Reading'
      BY <2>1, <2>5, <2>6 DEF Reading
    <2>9. Holders'
      <3>1. \A s \in Threads : call'[s] # NoCall => call'[s] = call[s]
        BY <1>0, <2>1
      <3>2. \A g \in Range(pending') \cup Range(batch') :
              /\ ~g.shared => g.op = "send" /\ \E s \in Threads : hold[s]
              /\ g.op \notin {"closeCallback", "remove"}
        BY <2>1, <2>2, <2>4, <2>6 DEF Holders
      <3> QED
        BY <2>1, <3>1, <3>2 DEF Holders
    <2> QED
      BY <1>0, <2>1, <2>7, <2>8, <2>9
  <1>8. ASSUME NEW t \in Threads, Release(t)
        PROVE  failed' = {} /\ Stages' /\ Reading' /\ Holders'
    <2>1. /\ call[t] = NoCall /\ hold' = [hold EXCEPT ![t] = FALSE]
          /\ \A f \in Range(pending) \cup Range(batch) : f.shared
          /\ UNCHANGED <<state_, events, index, owned, call, todo, pending, batch, batchHolds>>
          /\ Destroy(/\ ~owned /\ ~QueuedPtr /\ ~batchHolds /\ todo = <<>>
                     /\ \A s \in Threads \ {t} : ~hold[s])
      BY <1>8 DEF Release, connVars, chanVars, queueVars
    <2> DEFINE last == /\ ~owned /\ ~QueuedPtr /\ ~batchHolds /\ todo = <<>>
                       /\ \A s \in Threads \ {t} : ~hold[s]
    <2>2. \A s \in Threads : hold'[s] => s # t /\ hold[s]
      BY <1>0, <2>1
    <2>3. failed' = {} /\ \A s \in Threads : hold'[s] => alive'
      <3>1. CASE last
        <4>1. state_ = "kDisconnected" /\ index = "kNew"
          BY <3>1, LastPointer
        <4>2. failed' = {}
          BY <1>0, <2>1, <3>1, <4>1 DEF Destroy
        <4> QED
          BY <2>2, <3>1, <4>2
      <3>2. CASE ~last
        <4>1. failed' = {} /\ (alive' <=> alive)
          BY <1>0, <2>1, <3>2 DEF Destroy
        <4> QED
          BY <2>2, <4>1 DEF Holders
      <3> QED
        BY <3>1, <3>2
    <2>4. Stages' /\ Reading'
      BY <2>1 DEF Stages, Reading, NoCloser, OneCloser
    <2>5. \A s \in Threads : call'[s] # NoCall => hold'[s] /\ call'[s].op = "send"
      BY <1>0, <2>1 DEF Holders
    <2>6. Holders'
      BY <2>1, <2>3, <2>5 DEF Holders
    <2> QED
      BY <2>3, <2>4, <2>6
  <1>9. CASE Peer
    <2>1. UNCHANGED <<state_, events, index, owned, alive, hold, call, todo, pending, batch, batchHolds,
                      failed>>
      BY <1>9 DEF Peer, PeerSends, PeerFinishes, PeerResets, connVars, chanVars, queueVars, refVars
    <2>2. Stages' /\ Reading'
      BY <2>1 DEF Stages, Reading, NoCloser, OneCloser
    <2>3. Holders'
      BY <2>1 DEF Holders
    <2> QED
      BY <1>0, <2>1, <2>2, <2>3
  <1>10. CASE DestroyOwner
    <2>1. /\ todo = <<>> /\ todo' = <<Task("connectDestroyed")>> /\ owned /\ ~owned'
          /\ state_ = "kConnected"
          /\ UNCHANGED <<state_, events, index, alive, hold, call, pending, batch, batchHolds, failed>>
      BY <1>10 DEF DestroyOwner, connVars, chanVars, queueVars
    <2>2. /\ HeadOnly(todo', Readers) /\ Head(todo').op \notin Readers
      <3>1. Head(<<Task("connectDestroyed")>>).op = "connectDestroyed"
        BY DEF Task
      <3> QED
        BY <2>1, <3>1, ShortFacts DEF Readers
    <2>3. Reading' /\ Holders'
      BY <2>1, <2>2 DEF Reading, Holders
    <2>4. Stages'
      BY <2>1 DEF Stages, Up, NoCloser
    <2> QED
      BY <1>0, <2>1, <2>3, <2>4
  <1> QED
    BY <1>1, <1>2, <1>3, <1>4, <1>5, <1>6, <1>7, <1>8, <1>9, <1>10 DEF Other, Foreign

\* As long as other threads only send, and ~TcpServer() finds a connection that
\* is up: the library's assertions hold, but for those of shutdownWrite() and
\* handleClose(), and no functor bound to a raw this outlives the connection.
THEOREM ConnectionAssertions ==
    ASSUME ForeignCalls \subseteq {"send"}, OwnerLeaves \subseteq {"kConnected"}
    PROVE  Spec => []AssertionsHold
  <1> DEFINE Inv == OpenInv /\ LifeInv /\ AssertionsHold
  <1>0. ForeignCalls \subseteq NoClosers
    BY DEF NoClosers
  <1>1. Init => Inv
    <2> SUFFICES ASSUME Init PROVE Inv
      OBVIOUS
    <2>1. OpenInv
      BY OpenInvInit
    <2>2. Stages
      BY ShortFacts DEF Init, Stages, Up
    <2>3. Reading
      BY ShortFacts DEF Init, Reading, Shared, Readers
    <2>4. Holders
      <3>1. Range(<<>>) = {} /\ Range(<<Shared("connectEstablished")>>) = {Shared("connectEstablished")}
        BY DEF Range
      <3>2. Shared("connectEstablished").shared /\ Shared("connectEstablished").op = "connectEstablished"
        BY DEF Shared
      <3> QED
        BY <3>1, <3>2 DEF Init, Holders
    <2> QED
      BY <2>1, <2>2, <2>3, <2>4 DEF Init, LifeInv, AssertionsHold
  <1>2. Inv /\ [Next]_vars => Inv'
    <2> SUFFICES ASSUME Inv, [Next]_vars PROVE Inv'
      OBVIOUS
    <2>1. CASE UNCHANGED vars
      <3>1. OpenInv'
        BY <2>1, SMTT(40) DEF vars, OpenInv, Types, Connected, Places, Unborn, Born, WritingWhileBuffered,
           FinAfterData, DownOnce, Running, isWriting, connVars, chanVars, dataVars, sockVars,
           queueVars, refVars, countVars
      <3>2. LifeInv' /\ AssertionsHold'
        BY <2>1 DEF vars, LifeInv, Running, Stages, Reading, Holders, NoCloser, OneCloser,
           AssertionsHold, connVars, chanVars, dataVars, sockVars, queueVars, refVars, countVars
      <3> QED
        BY <3>1, <3>2
    <2>2. CASE Next
      <3>1. OpenInv'
        BY <1>0, <2>2, OpenInvStep
      <3>2. CASE Handler
        <4>1. Running /\ Types /\ Connected
          BY <3>2, HandlerShape DEF OpenInv
        <4>2. Stages /\ Reading /\ Holders
          BY <4>1 DEF LifeInv
        <4>3. Reading' /\ Holders'
          BY <3>2, <4>1, <4>2, ReadingHandler
        <4>4. (Running' => Stages') /\ failed' \subseteq {"shutdownWrite", "handleClose"}
          BY <3>2, <4>2, StagesHandler
        <4> QED
          BY <3>1, <4>3, <4>4 DEF LifeInv, AssertionsHold
      <3>3. CASE Other
        <4>1. Running
          BY <1>0, <3>3, OtherFrame DEF OpenInv, Running
        <4>2. failed' = {} /\ Stages' /\ Reading' /\ Holders'
          BY <3>3, <4>1, LifeOther DEF LifeInv
        <4> QED
          BY <3>1, <4>2 DEF LifeInv, AssertionsHold
      <3> QED
        BY <2>2, <3>2, <3>3, NextCases
    <2> QED
      BY <2>1, <2>2
  <1> QED
    BY <1>1, <1>2, PTL DEF Spec

=============================================================================
