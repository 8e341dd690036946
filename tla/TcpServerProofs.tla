-------------------------- MODULE TcpServerProofs --------------------------
(***************************************************************************)
(* Proofs about TcpServer, for every number of io loops, of clients and of *)
(* descriptors: a connection passes from loop to loop with one functor or  *)
(* handler at a time to carry it.                                          *)
(***************************************************************************)
EXTENDS TcpServer, SequenceTheorems, TLAPS

-----------------------------------------------------------------------------
(* The inductive invariant.                                                *)

Ops == {"connectEstablished", "forceClose", "removeConnectionInLoop", "connectDestroyed"}
Functors == [op : Ops, conn : Conns]
Distinct(s) == \A i, j \in 1..Len(s) : i # j => s[i] # s[j]

\* The loop that runs functor op of connection c, io being the io loops.
Home(io, op, c) == IF op = "removeConnectionInLoop" THEN BaseLoop ELSE io[c]

\* No functor is queued twice, and each is queued in the loop it is for.
Good(io, q) ==
    /\ q \in [Loops -> Seq(Functors)]
    /\ \A l \in Loops : Distinct(q[l])
    /\ \A l \in Loops : \A f \in Range(q[l]) : l = Home(io, f.op, f.conn)

HasIn(io, q, op, c) == Functor(op, c) \in Range(q[Home(io, op, c)])
Has(op, c) == HasIn(ioLoop, queue, op, c)
Closing(c) == closing[ioLoop[c]] = c

ServerTypes ==
    /\ numThreads_ \in 0..MaxThreads
    /\ next_ \in Nat /\ (next_ = 0 \/ next_ < numThreads_)
    /\ listening_ \in BOOLEAN
    /\ backlog \in Nat
    /\ nextConnId_ \in Nat \ {0} /\ nextConnId_ + backlog <= MaxConns + 1
    /\ connections_ \subseteq Conns
    /\ server \in {"up", "destroying", "gone"}
    /\ closing \in [Loops -> {0} \cup Conns]
    /\ state_ \in [Conns -> {"none", "kConnecting", "kConnected", "kDisconnecting",
                             "kDisconnected"}]
    /\ channel \in [Conns -> {"kNew", "on", "off"}]
    /\ ioLoop \in [Conns -> Loops]

AtHome ==
    /\ Good(ioLoop, queue)
    /\ \A l \in Loops : closing[l] # 0 => l = ioLoop[closing[l]]

\* What each state of a connection means to its channel, to connections_ and
\* to the functors: a connection that is closed has one handler or functor to
\* carry it on, and its channel is in the poller until that is done.
Phase(c) ==
    /\ state_[c] = "none" <=> c >= nextConnId_
    /\ state_[c] = "none" =>
         /\ channel[c] = "kNew" /\ c \notin connections_ /\ ~Closing(c)
         /\ \A op \in Ops : ~Has(op, c)
    /\ state_[c] = "kConnecting" =>
         /\ channel[c] = "kNew" /\ c \in connections_ /\ ~Closing(c)
         /\ Has("connectEstablished", c)
         /\ \A op \in Ops \ {"connectEstablished"} : ~Has(op, c)
    /\ state_[c] \in {"kConnected", "kDisconnecting"} =>
         /\ channel[c] = "on" /\ c \in connections_ /\ ~Closing(c)
         /\ \A op \in Ops \ {"forceClose"} : ~Has(op, c)
    /\ state_[c] = "kDisconnected" =>
         /\ ~Has("connectEstablished", c)
         /\ c \in connections_ <=> Closing(c) \/ Has("removeConnectionInLoop", c)
         /\ ~(Closing(c) /\ Has("removeConnectionInLoop", c))
         /\ ~(c \in connections_ /\ Has("connectDestroyed", c))
         /\ channel[c] = IF c \in connections_ \/ Has("connectDestroyed", c)
                           THEN "off" ELSE "kNew"

Phases == \A c \in Conns : Phase(c)

ServerInv == ServerTypes /\ AtHome /\ Phases /\ failed = {}

\* A thread inside forceClose() is the loop of the connection, so nothing has
\* closed it since the test of its state.
Forced ==
    /\ forcing \in [Loops -> {0} \cup Conns]
    /\ server = "up" => stopped = {}
    /\ \A l \in Loops : forcing[l] # 0 =>
         /\ l = ioLoop[forcing[l]]
         /\ state_[forcing[l]] \in {"kConnected", "kDisconnecting"}
         /\ Functor("forceClose", forcing[l]) \notin Range(queue[l])

\* ~TcpServer() finds connections of its own loop, up, and nothing under way in
\* the io loops.
Parting ==
    server # "up" =>
        /\ \A l \in Loops : closing[l] = 0 /\ forcing[l] = 0
        /\ \A l \in Loops \ {BaseLoop} : queue[l] = <<>>
        /\ \A c \in Conns : ~Has("removeConnectionInLoop", c)
        /\ \A c \in connections_ : ioLoop[c] = BaseLoop /\ state_[c] = "kConnected"
        /\ server = "gone" => connections_ = {}

-----------------------------------------------------------------------------
(* Queues.                                                                 *)

LEMMA FunctorFacts ==
    /\ \A op \in Ops, c \in Conns : /\ Functor(op, c) \in Functors
                                    /\ Functor(op, c).op = op /\ Functor(op, c).conn = c
    /\ \A f \in Functors : f.op \in Ops /\ f.conn \in Conns /\ f = Functor(f.op, f.conn)
  BY DEF Functor, Functors

LEMMA LoopFacts ==
    /\ BaseLoop \in Loops
    /\ 0 \notin Conns
    /\ Conns \subseteq Nat
  BY ServerAssumption DEF BaseLoop, Loops, Conns

LEMMA RangeFacts ==
    ASSUME NEW s \in Seq(Functors)
    PROVE  /\ Range(s) = {s[i] : i \in 1..Len(s)}
           /\ Range(s) \subseteq Functors
  BY DEF Range

\* A functor is queued at the end,
LEMMA AppendFunctor ==
    ASSUME NEW s \in Seq(Functors), NEW f \in Functors
    PROVE  /\ Append(s, f) \in Seq(Functors)
           /\ Range(Append(s, f)) = Range(s) \cup {f}
           /\ Distinct(s) /\ f \notin Range(s) => Distinct(Append(s, f))
  <1> DEFINE p == Append(s, f)
  <1>1. /\ p \in Seq(Functors) /\ Len(p) = Len(s) + 1 /\ Len(s) \in Nat
        /\ \A i \in 1..Len(s) : p[i] = s[i]
        /\ p[Len(s) + 1] = f
    BY AppendProperties
  <1> HIDE DEF p
  <1>2. /\ \A i \in 1..Len(p) : i \in 1..Len(s) \/ i = Len(s) + 1
        /\ \A i \in 1..Len(s) : i \in 1..Len(p)
        /\ Len(s) + 1 \in 1..Len(p)
    BY <1>1
  <1>3. Range(p) = Range(s) \cup {f}
    BY <1>1, <1>2, RangeFacts
  <1>4. Distinct(s) /\ f \notin Range(s) => Distinct(p)
    BY <1>1, <1>2, RangeFacts DEF Distinct
  <1> QED
    BY <1>1, <1>3, <1>4 DEF p

\* and taken off the front.
LEMMA TailFunctors ==
    ASSUME NEW s \in Seq(Functors), s # <<>>, Distinct(s)
    PROVE  /\ Tail(s) \in Seq(Functors) /\ Head(s) \in Range(s)
           /\ Range(Tail(s)) = Range(s) \ {Head(s)}
           /\ Distinct(Tail(s))
  <1> DEFINE p == Tail(s)
             f == Head(s)
  <1>1. /\ p \in Seq(Functors) /\ Len(p) = Len(s) - 1 /\ Len(s) \in Nat /\ Len(s) > 0
        /\ \A i \in 1..Len(p) : p[i] = s[i + 1]
        /\ f = s[1]
    BY HeadTailProperties, EmptySeq
  <1> HIDE DEF p, f
  <1>2. /\ \A i \in 1..Len(p) : i + 1 \in 1..Len(s) /\ i + 1 # 1
        /\ \A i \in 1..Len(s) : i = 1 \/ (i - 1 \in 1..Len(p) /\ p[i - 1] = s[i])
        /\ 1 \in 1..Len(s)
        /\ \A i, j \in 1..Len(p) : i # j => i + 1 # j + 1
    BY <1>1
  <1>3. f \in Range(s)
    BY <1>1, <1>2, RangeFacts
  <1>4. \A i \in 1..Len(p) : p[i] # f
    BY <1>1, <1>2 DEF Distinct
  <1>5. Range(p) = Range(s) \ {f}
    <2>1. /\ Range(s) = {s[i] : i \in 1..Len(s)}
          /\ Range(p) = {p[i] : i \in 1..Len(p)}
      BY <1>1, RangeFacts
    <2>2. ASSUME NEW x \in Range(p) PROVE x \in Range(s) /\ x # f
      BY <1>1, <1>2, <1>4, <2>1
    <2>3. ASSUME NEW x \in Range(s), x # f PROVE x \in Range(p)
      <3>1. PICK i \in 1..Len(s) : x = s[i]
        BY <2>1
      <3>2. i - 1 \in 1..Len(p) /\ p[i - 1] = x
        BY <1>1, <1>2, <2>3, <3>1
      <3> QED
        BY <2>1, <3>2
    <2> QED
      BY <2>2, <2>3
  <1>6. Distinct(p)
    BY <1>1, <1>2 DEF Distinct
  <1> QED
    BY <1>1, <1>3, <1>5, <1>6 DEF p, f

\* What a push does to the functors that are queued,
LEMMA Pushed ==
    ASSUME NEW io \in [Conns -> Loops], NEW q, Good(io, q), NEW op \in Ops, NEW c \in Conns,
           ~HasIn(io, q, op, c), NEW p, p = Push(q, Home(io, op, c), op, c)
    PROVE  /\ Good(io, p)
           /\ \A o \in Ops, d \in Conns :
                 HasIn(io, p, o, d) <=> HasIn(io, q, o, d) \/ (o = op /\ d = c)
  <1> DEFINE f == Functor(op, c)
             h == Home(io, op, c)
  <1>1. f \in Functors /\ f.op = op /\ f.conn = c
    BY FunctorFacts
  <1>2. h \in Loops
    BY LoopFacts DEF Home
  <1>3. /\ q \in [Loops -> Seq(Functors)]
        /\ p = [q EXCEPT ![h] = Append(@, f)]
        /\ f \notin Range(q[h])
    BY DEF Good, Push, HasIn
  <1>4. h = Home(io, f.op, f.conn)
    BY <1>1
  <1> HIDE DEF f, h
  <1>5. /\ p \in [Loops -> Seq(Functors)]
        /\ p[h] = Append(q[h], f) /\ \A l \in Loops \ {h} : p[l] = q[l]
    BY <1>1, <1>2, <1>3, AppendFunctor
  <1>6. Range(p[h]) = Range(q[h]) \cup {f} /\ Distinct(p[h])
    BY <1>1, <1>2, <1>3, <1>5, AppendFunctor DEF Good
  <1>7. Good(io, p)
    <2>1. \A l \in Loops : Distinct(p[l])
      BY <1>5, <1>6 DEF Good
    <2>2. ASSUME NEW l \in Loops, NEW g \in Range(p[l]) PROVE l = Home(io, g.op, g.conn)
      <3>1. CASE l = h
        BY <1>4, <1>6, <2>2, <3>1 DEF Good
      <3>2. CASE l # h
        BY <1>5, <2>2, <3>2 DEF Good
      <3> QED
        BY <3>1, <3>2
    <2> QED
      BY <1>5, <2>1, <2>2 DEF Good
  <1>8. ASSUME NEW o \in Ops, NEW d \in Conns
        PROVE  HasIn(io, p, o, d) <=> HasIn(io, q, o, d) \/ (o = op /\ d = c)
    <2>1. Functor(o, d) = f <=> o = op /\ d = c
      BY FunctorFacts DEF f
    <2>2. Functor(o, d) = f => Home(io, o, d) = h
      BY <2>1 DEF h
    <2>3. Home(io, o, d) \in Loops
      BY LoopFacts DEF Home
    <2>4. \A l \in Loops : Functor(o, d) \in Range(p[l])
                              <=> Functor(o, d) \in Range(q[l]) \/ (l = h /\ Functor(o, d) = f)
      BY <1>2, <1>5, <1>6
    <2> QED
      BY <2>1, <2>2, <2>3, <2>4 DEF HasIn
  <1> QED
    BY <1>7, <1>8

\* and what the run of a functor does.
LEMMA Popped ==
    ASSUME ioLoop \in [Conns -> Loops], Good(ioLoop, queue), NEW l \in Loops, queue[l] # <<>>
    PROVE  \E f, p :
             /\ f = Head(queue[l]) /\ p = [queue EXCEPT ![l] = Tail(@)]
             /\ Good(ioLoop, p)
             /\ f.op \in Ops /\ f.conn \in Conns /\ l = Home(ioLoop, f.op, f.conn)
             /\ HasIn(ioLoop, queue, f.op, f.conn)
             /\ \A o \in Ops, d \in Conns :
                   HasIn(ioLoop, p, o, d) <=> HasIn(ioLoop, queue, o, d) /\ ~(o = f.op /\ d = f.conn)
  <1>f. PICK f : f = Head(queue[l])
    OBVIOUS
  <1>p. PICK p : p = [queue EXCEPT ![l] = Tail(@)]
    OBVIOUS
  <1>1. queue \in [Loops -> Seq(Functors)] /\ Distinct(queue[l]) /\ queue[l] \in Seq(Functors)
    BY DEF Good
  <1>2. /\ Tail(queue[l]) \in Seq(Functors) /\ f \in Range(queue[l])
        /\ Range(Tail(queue[l])) = Range(queue[l]) \ {f} /\ Distinct(Tail(queue[l]))
    BY <1>1, <1>f, TailFunctors
  <1>3. f \in Functors /\ f.op \in Ops /\ f.conn \in Conns /\ f = Functor(f.op, f.conn)
    BY <1>1, <1>2, RangeFacts, FunctorFacts
  <1>4. l = Home(ioLoop, f.op, f.conn)
    BY <1>2 DEF Good
  <1>5. /\ p \in [Loops -> Seq(Functors)]
        /\ p[l] = Tail(queue[l]) /\ \A m \in Loops \ {l} : p[m] = queue[m]
    BY <1>1, <1>2, <1>p
  <1>6. Good(ioLoop, p)
    BY <1>2, <1>5 DEF Good
  <1>7. HasIn(ioLoop, queue, f.op, f.conn)
    BY <1>2, <1>3, <1>4 DEF HasIn
  <1>8. ASSUME NEW o \in Ops, NEW d \in Conns
        PROVE  HasIn(ioLoop, p, o, d) <=> HasIn(ioLoop, queue, o, d) /\ ~(o = f.op /\ d = f.conn)
    <2>1. Functor(o, d) = f <=> o = f.op /\ d = f.conn
      BY <1>3, FunctorFacts
    <2>2. o = f.op /\ d = f.conn => Home(ioLoop, o, d) = l
      BY <1>4
    <2>3. Home(ioLoop, o, d) \in Loops
      BY LoopFacts DEF Home
    <2>4. \A m \in Loops : Functor(o, d) \in Range(p[m])
                              <=> Functor(o, d) \in Range(queue[m]) /\ ~(m = l /\ Functor(o, d) = f)
      BY <1>2, <1>5
    <2> QED
      BY <2>1, <2>2, <2>3, <2>4 DEF HasIn
  <1> QED
    BY <1>f, <1>p, <1>3, <1>4, <1>6, <1>7, <1>8, ZenonT(60)

-----------------------------------------------------------------------------
(* The steps of the loops.                                                 *)

LEMMA ServerInvInit == Init => ServerInv /\ Forced /\ Parting
  <1> SUFFICES ASSUME Init PROVE ServerInv /\ Forced /\ Parting
    OBVIOUS
  <1>1. ServerTypes
    <2>1. next_ \in Nat /\ backlog \in Nat /\ nextConnId_ \in Nat \ {0}
          /\ nextConnId_ + backlog <= MaxConns + 1
      BY ServerAssumption DEF Init
    <2> QED
      BY <2>1, LoopFacts DEF Init, ServerTypes
  <1>2. \A l \in Loops : queue[l] = <<>> /\ Range(queue[l]) = {} /\ Distinct(queue[l])
    BY DEF Init, Range, Distinct
  <1>3. AtHome
    <2>1. queue \in [Loops -> Seq(Functors)]
      BY EmptySeq DEF Init
    <2> QED
      BY <1>2, <2>1 DEF Init, AtHome, Good
  <1>4. \A c \in Conns, op \in Ops : ~Has(op, c)
    <2>1. ASSUME NEW c \in Conns, NEW op \in Ops PROVE Home(ioLoop, op, c) \in Loops
      BY <1>1, LoopFacts DEF Home, ServerTypes
    <2> QED
      BY <1>2, <2>1 DEF Has, HasIn
  <1>5. \A c \in Conns : ~Closing(c) /\ c >= 1 /\ c \in Nat
    BY <1>1, LoopFacts DEF Init, Closing, ServerTypes, Conns
  <1>6. Phases
    BY <1>4, <1>5 DEF Init, Phases, Phase
  <1>7. Forced
    BY DEF Init, Forced
  <1> QED
    BY <1>1, <1>3, <1>6, <1>7 DEF Init, ServerInv, Parting

\* A connection that a step does not concern stays in its phase.
LEMMA PhaseFrame ==
    ASSUME NEW c \in Conns, Phase(c),
           state_'[c] = state_[c], channel'[c] = channel[c],
           c \in connections_' <=> c \in connections_,
           Closing(c)' <=> Closing(c),
           \A op \in Ops : Has(op, c)' <=> Has(op, c),
           c >= nextConnId_' <=> c >= nextConnId_
    PROVE  Phase(c)'
  <1>1. {"connectEstablished", "removeConnectionInLoop", "connectDestroyed"} \subseteq Ops
    BY DEF Ops
  <1> QED
    BY <1>1 DEF Phase

\* What Phase says, with the operations by name.
LEMMA OpsFacts ==
    /\ "connectEstablished" \in Ops /\ "forceClose" \in Ops
    /\ "removeConnectionInLoop" \in Ops /\ "connectDestroyed" \in Ops
    /\ \A op \in Ops : \/ op = "connectEstablished" \/ op = "forceClose"
                       \/ op = "removeConnectionInLoop" \/ op = "connectDestroyed"
  BY DEF Ops

\* The handlers that only begin to close a connection: the channel is off, and
\* closing[] carries it to closeCallback_.
LEMMA HandleCloseKeeps ==
    ASSUME ServerInv, NEW c \in Conns, state_[c] \in {"kConnected", "kDisconnecting"},
           closing[ioLoop[c]] = 0, handleClose(ioLoop[c], c),
           Good(ioLoop, queue')
           , \A o \in Ops, d \in Conns :
               HasIn(ioLoop, queue', o, d) => Has(o, d)
           , \A o \in Ops, d \in Conns :
               Has(o, d) /\ ~(o = "forceClose" /\ d = c) => HasIn(ioLoop, queue', o, d),
           UNCHANGED <<serverVars, connections_, ioLoop, failed>>
    PROVE  ServerInv'
  <1>1. /\ ServerTypes /\ AtHome /\ ioLoop[c] \in Loops /\ c # 0
        /\ closing \in [Loops -> {0} \cup Conns]
        /\ state_ \in [Conns -> {"none", "kConnecting", "kConnected", "kDisconnecting",
                                 "kDisconnected"}]
        /\ channel \in [Conns -> {"kNew", "on", "off"}]
    BY LoopFacts DEF ServerInv, ServerTypes
  <1>2. /\ state_' = [state_ EXCEPT ![c] = "kDisconnected"]
        /\ channel' = [channel EXCEPT ![c] = "off"]
        /\ closing' = [closing EXCEPT ![ioLoop[c]] = c]
        /\ ioLoop' = ioLoop /\ connections_' = connections_ /\ failed' = failed
        /\ nextConnId_' = nextConnId_
    BY DEF handleClose, serverVars
  <1>3. ServerTypes'
    BY <1>1, <1>2 DEF ServerTypes, serverVars
  <1>4. AtHome'
    BY <1>1, <1>2 DEF AtHome
  <1>5. \A d \in Conns \ {c} : Closing(d)' <=> Closing(d)
    BY <1>1, <1>2, LoopFacts DEF Closing, ServerTypes
  <1>6. Closing(c)'
    BY <1>1, <1>2 DEF Closing
  <1>7. \A o \in Ops, d \in Conns : Has(o, d)' <=> HasIn(ioLoop, queue', o, d)
    BY <1>2 DEF Has
  <1>8. ASSUME NEW d \in Conns PROVE Phase(d)'
    <2>0. Phase(d)
      BY DEF ServerInv, Phases
    <2>1. CASE d # c
      <3>1. \A op \in Ops : Has(op, d)' <=> Has(op, d)
        BY <1>7, <2>1
      <3>2. state_'[d] = state_[d] /\ channel'[d] = channel[d]
        BY <1>1, <1>2, <2>1
      <3> QED
        BY <1>2, <1>5, <2>0, <2>1, <3>1, <3>2, PhaseFrame
    <2>2. CASE d = c
      <3>1. /\ c \in connections_ /\ ~Has("removeConnectionInLoop", c)
            /\ ~Has("connectDestroyed", c) /\ ~Has("connectEstablished", c)
            /\ ~(c >= nextConnId_)
        BY <2>0, <2>2, OpsFacts DEF Phase
      <3>2. /\ ~Has("removeConnectionInLoop", c)' /\ ~Has("connectDestroyed", c)'
            /\ ~Has("connectEstablished", c)'
        BY <1>7, <3>1, OpsFacts
      <3>3. state_'[c] = "kDisconnected" /\ channel'[c] = "off"
        BY <1>1, <1>2
      <3> QED
        BY <1>2, <1>6, <2>2, <3>1, <3>2, <3>3 DEF Phase
    <2> QED
      BY <2>1, <2>2
  <1> QED
    BY <1>2, <1>3, <1>4, <1>8 DEF ServerInv, Phases

LEMMA PeerClosesKeeps ==
    ASSUME ServerInv, NEW c \in Conns, PeerCloses(c)
    PROVE  ServerInv'
  <1>1. channel[c] = "on" /\ closing[ioLoop[c]] = 0 /\ Phase(c)
    BY DEF PeerCloses, Idle, ServerInv, Phases
  <1>2. state_[c] \in {"kConnected", "kDisconnecting"}
    BY <1>1 DEF Phase, ServerInv, ServerTypes
  <1>3. failed' = failed /\ queue' = queue /\ handleClose(ioLoop[c], c)
    BY <1>2 DEF PeerCloses, Fails
  <1>4. Good(ioLoop, queue') /\ \A o \in Ops, d \in Conns : HasIn(ioLoop, queue', o, d) <=> Has(o, d)
    BY <1>3 DEF ServerInv, AtHome, Has
  <1> QED
    BY <1>1, <1>2, <1>3, <1>4, HandleCloseKeeps DEF PeerCloses

\* The state of a connection that is up becomes kDisconnecting: shutdown(), and
\* the second half of forceClose().
LEMMA UserCallKeeps ==
    ASSUME ServerInv, Forced, NEW c \in Conns,
           \/ UserShutdown(c)
           \/ \E l \in Loops : c = forcing[l] /\ ForceSet(l) /\ stopped = {}
    PROVE  ServerInv'
  <1>1. /\ ServerTypes /\ AtHome /\ Phase(c) /\ ioLoop \in [Conns -> Loops]
        /\ Good(ioLoop, queue)
        /\ state_ \in [Conns -> {"none", "kConnecting", "kConnected", "kDisconnecting",
                                 "kDisconnected"}]
    BY DEF ServerInv, ServerTypes, Phases, AtHome
  <1>2. /\ state_[c] \in {"kConnected", "kDisconnecting"}
        /\ state_' = [state_ EXCEPT ![c] = "kDisconnecting"]
        /\ UNCHANGED <<serverVars, connections_, closing, channel, ioLoop, failed>>
        /\ \/ queue' = queue
           \/ /\ Functor("forceClose", c) \notin Range(queue[ioLoop[c]])
              /\ queue' = Push(queue, ioLoop[c], "forceClose", c)
    <2>1. CASE UserShutdown(c)
      BY <2>1 DEF UserShutdown, threadVars
    <2>2. ASSUME NEW l \in Loops, c = forcing[l], ForceSet(l), stopped = {}
          PROVE  /\ state_[c] \in {"kConnected", "kDisconnecting"}
                 /\ state_' = [state_ EXCEPT ![c] = "kDisconnecting"]
                 /\ UNCHANGED <<serverVars, connections_, closing, channel, ioLoop, failed>>
                 /\ Functor("forceClose", c) \notin Range(queue[ioLoop[c]])
                 /\ queue' = Push(queue, ioLoop[c], "forceClose", c)
      <3>1. l = ioLoop[c] /\ c # 0
        BY <2>2, LoopFacts DEF Forced
      <3>2. failed' = failed
        BY <2>2 DEF ForceSet, Fails
      <3> QED
        BY <2>2, <3>1, <3>2 DEF ForceSet, Forced
    <2> QED
      BY <2>1, <2>2
  <1>3. /\ Good(ioLoop, queue')
        /\ \A o \in Ops, d \in Conns : o # "forceClose" => (Has(o, d)' <=> Has(o, d))
        /\ \A o \in Ops, d \in Conns : d # c => (Has(o, d)' <=> Has(o, d))
    <2>1. CASE queue' = queue
      BY <1>1, <1>2, <2>1 DEF Has
    <2>2. CASE /\ Functor("forceClose", c) \notin Range(queue[ioLoop[c]])
               /\ queue' = Push(queue, ioLoop[c], "forceClose", c)
      <3>1. Home(ioLoop, "forceClose", c) = ioLoop[c]
        BY DEF Home
      <3>2. ~HasIn(ioLoop, queue, "forceClose", c)
        BY <2>2, <3>1 DEF HasIn
      <3>3. queue' = Push(queue, Home(ioLoop, "forceClose", c), "forceClose", c)
        BY <2>2, <3>1
      <3>4. /\ Good(ioLoop, queue')
            /\ \A o \in Ops, d \in Conns :
                  HasIn(ioLoop, queue', o, d)
                     <=> HasIn(ioLoop, queue, o, d) \/ (o = "forceClose" /\ d = c)
        BY <1>1, <3>2, <3>3, OpsFacts, Pushed
      <3> QED
        BY <1>2, <3>4 DEF Has
    <2> QED
      BY <1>2, <2>1, <2>2
  <1>4. ServerTypes' /\ AtHome'
    BY <1>1, <1>2, <1>3 DEF ServerTypes, AtHome, serverVars
  <1>5. ASSUME NEW d \in Conns PROVE Phase(d)'
    <2>0. Phase(d) /\ (Closing(d)' <=> Closing(d)) /\ nextConnId_' = nextConnId_
      BY <1>2 DEF ServerInv, Phases, Closing, serverVars
    <2>1. CASE d # c
      BY <1>1, <1>2, <1>3, <2>0, <2>1, PhaseFrame
    <2>2. CASE d = c
      <3>1. state_'[c] = "kDisconnecting"
        BY <1>1, <1>2
      <3>2. \A op \in Ops \ {"forceClose"} : ~Has(op, c)'
        BY <1>2, <1>3, <2>0, <2>2 DEF Phase
      <3> QED
        BY <1>2, <2>0, <2>2, <3>1, <3>2 DEF Phase
    <2> QED
      BY <2>1, <2>2
  <1> QED
    BY <1>2, <1>4, <1>5 DEF ServerInv, Phases

\* removeConnectionInLoop() of a closed connection that nothing else carries:
\* q are the queues without the functor that called it.
LEMMA RemoveInLoopKeeps ==
    ASSUME ServerInv, NEW c \in Conns, NEW q, Good(ioLoop, q),
           server # "gone", state_[c] = "kDisconnected", c \in connections_,
           \A o \in Ops, d \in Conns :
              HasIn(ioLoop, q, o, d) <=> Has(o, d) /\ ~(o = "removeConnectionInLoop" /\ d = c),
           removeConnectionInLoop(q, c),
           closing' = [l \in Loops |-> IF closing[l] = c THEN 0 ELSE closing[l]],
           UNCHANGED <<serverVars, connVars>>
    PROVE  ServerInv'
  <1>1. /\ ServerTypes /\ AtHome /\ Phase(c) /\ c # 0 /\ ioLoop \in [Conns -> Loops]
        /\ closing \in [Loops -> {0} \cup Conns] /\ failed = {}
    BY LoopFacts DEF ServerInv, Phases, ServerTypes
  <1>2. /\ failed' = failed
        /\ connections_' = connections_ \ {c}
        /\ queue' = Push(q, ioLoop[c], "connectDestroyed", c)
        /\ UNCHANGED <<state_, channel, ioLoop, nextConnId_>>
    BY DEF removeConnectionInLoop, Fails, connVars, serverVars
  <1>3. /\ ~Has("connectDestroyed", c) /\ ~Has("connectEstablished", c)
        /\ channel[c] = "off" /\ ~(c >= nextConnId_)
    BY <1>1 DEF Phase
  <1>4. /\ Good(ioLoop, queue')
        /\ \A o \in Ops, d \in Conns :
              HasIn(ioLoop, queue', o, d)
                 <=> HasIn(ioLoop, q, o, d) \/ (o = "connectDestroyed" /\ d = c)
    <2>1. Home(ioLoop, "connectDestroyed", c) = ioLoop[c]
      BY DEF Home
    <2>2. ~HasIn(ioLoop, q, "connectDestroyed", c)
      BY <1>3, OpsFacts
    <2>3. queue' = Push(q, Home(ioLoop, "connectDestroyed", c), "connectDestroyed", c)
      BY <1>2, <2>1
    <2> QED
      BY <1>1, <2>2, <2>3, OpsFacts, Pushed
  <1>5. \A o \in Ops, d \in Conns :
           Has(o, d)' <=> \/ Has(o, d) /\ ~(o = "removeConnectionInLoop" /\ d = c)
                          \/ o = "connectDestroyed" /\ d = c
    BY <1>2, <1>4 DEF Has
  <1>6. ServerTypes' /\ AtHome'
    <2>1. closing' \in [Loops -> {0} \cup Conns]
      BY <1>1
    <2>2. \A l \in Loops : closing'[l] # 0 => l = ioLoop'[closing'[l]]
      BY <1>1, <1>2 DEF AtHome
    <2> QED
      BY <1>1, <1>2, <1>4, <2>1, <2>2 DEF ServerTypes, AtHome, serverVars, connVars
  <1>7. ASSUME NEW d \in Conns PROVE Phase(d)'
    <2>0. Phase(d) /\ d # 0 /\ ioLoop[d] \in Loops
      BY <1>1, LoopFacts DEF ServerInv, Phases
    <2>1. CASE d # c
      <3>1. Closing(d)' <=> Closing(d)
        BY <1>2, <2>0, <2>1 DEF Closing
      <3>2. \A op \in Ops : Has(op, d)' <=> Has(op, d)
        BY <1>5, <2>1
      <3> QED
        BY <1>2, <2>0, <2>1, <3>1, <3>2, PhaseFrame
    <2>2. CASE d = c
      <3>1. ~Closing(c)'
        BY <1>1, <1>2, <2>0, <2>2 DEF Closing
      <3>2. /\ ~Has("removeConnectionInLoop", c)' /\ ~Has("connectEstablished", c)'
            /\ Has("connectDestroyed", c)'
        BY <1>3, <1>5, OpsFacts
      <3> QED
        BY <1>2, <1>3, <2>2, <3>1, <3>2 DEF Phase
    <2> QED
      BY <2>1, <2>2
  <1> QED
    BY <1>1, <1>2, <1>6, <1>7 DEF ServerInv, Phases

\* closeCallback_ finds the server as long as ~TcpServer() has waited for it.
LEMMA RemoveConnectionKeeps ==
    ASSUME ServerInv, NEW l \in Loops, removeConnection(l), server # "gone"
    PROVE  ServerInv'
  <1>0. PICK c \in Conns : c = closing[l] /\ c # 0
    BY DEF removeConnection, ServerInv, ServerTypes
  <1>1. /\ c \in Conns /\ c # 0 /\ ioLoop[c] = l
        /\ ServerTypes /\ AtHome /\ Phase(c) /\ ioLoop \in [Conns -> Loops]
        /\ closing \in [Loops -> {0} \cup Conns] /\ failed = {}
    BY <1>0 DEF ServerInv, ServerTypes, AtHome, Phases
  <1>2. /\ closing' = [closing EXCEPT ![l] = 0]
        /\ IF l = BaseLoop THEN removeConnectionInLoop(queue, c)
           ELSE /\ failed' = failed
                /\ queue' = Push(queue, BaseLoop, "removeConnectionInLoop", c)
                /\ UNCHANGED connections_
        /\ UNCHANGED <<serverVars, connVars>>
    BY <1>0 DEF removeConnection, Fails
  <1>3. Closing(c) /\ c = closing[l]
    BY <1>0, <1>1 DEF Closing
  <1>4. /\ state_[c] = "kDisconnected" /\ c \in connections_
        /\ ~Has("removeConnectionInLoop", c) /\ ~Has("connectEstablished", c)
        /\ ~Has("connectDestroyed", c) /\ channel[c] = "off" /\ ~(c >= nextConnId_)
    BY <1>1, <1>3 DEF Phase, ServerTypes
  <1>5. \A m \in Loops : closing[m] = c => m = l
    BY <1>1 DEF AtHome
  <1>6. CASE l = BaseLoop
    <2>1. closing' = [m \in Loops |-> IF closing[m] = c THEN 0 ELSE closing[m]]
      BY <1>1, <1>2, <1>3, <1>5
    <2>2. /\ Good(ioLoop, queue)
          /\ \A o \in Ops, d \in Conns :
                HasIn(ioLoop, queue, o, d)
                   <=> Has(o, d) /\ ~(o = "removeConnectionInLoop" /\ d = c)
      BY <1>1, <1>4 DEF AtHome, Has
    <2>3. removeConnectionInLoop(queue, c) /\ UNCHANGED <<serverVars, connVars>>
      BY <1>2, <1>6
    <2> QED
      BY <1>1, <1>4, <2>1, <2>2, <2>3, RemoveInLoopKeeps
  <1>7. CASE l # BaseLoop
    <2>1. /\ failed' = failed
          /\ queue' = Push(queue, BaseLoop, "removeConnectionInLoop", c)
          /\ UNCHANGED <<connections_, state_, channel, ioLoop, nextConnId_>>
      BY <1>2, <1>7 DEF connVars, serverVars
    <2>2. /\ Good(ioLoop, queue')
          /\ \A o \in Ops, d \in Conns :
                HasIn(ioLoop, queue', o, d)
                   <=> HasIn(ioLoop, queue, o, d) \/ (o = "removeConnectionInLoop" /\ d = c)
      <3>1. Home(ioLoop, "removeConnectionInLoop", c) = BaseLoop
        BY DEF Home
      <3>2. ~HasIn(ioLoop, queue, "removeConnectionInLoop", c) /\ Good(ioLoop, queue)
        BY <1>1, <1>4 DEF Has, AtHome
      <3>3. queue' = Push(queue, Home(ioLoop, "removeConnectionInLoop", c),
                          "removeConnectionInLoop", c)
        BY <2>1, <3>1
      <3> QED
        BY <1>1, <3>2, <3>3, OpsFacts, Pushed
    <2>3. \A o \in Ops, d \in Conns :
             Has(o, d)' <=> Has(o, d) \/ (o = "removeConnectionInLoop" /\ d = c)
      BY <2>1, <2>2 DEF Has
    <2>4. ServerTypes' /\ AtHome'
      <3>1. closing' \in [Loops -> {0} \cup Conns]
        BY <1>1, <1>2
      <3>2. \A m \in Loops : closing'[m] # 0 => m = ioLoop'[closing'[m]]
        BY <1>1, <1>2, <2>1 DEF AtHome
      <3> QED
        BY <1>1, <1>2, <2>1, <2>2, <3>1, <3>2 DEF ServerTypes, AtHome, serverVars, connVars
    <2>5. ASSUME NEW d \in Conns PROVE Phase(d)'
      <3>0. Phase(d) /\ d # 0 /\ ioLoop[d] \in Loops
        BY <1>1, LoopFacts DEF ServerInv, Phases
      <3>1. CASE d # c
        <4>1. Closing(d)' <=> Closing(d)
          BY <1>1, <1>2, <1>3, <2>1, <3>0, <3>1 DEF Closing
        <4>2. \A op \in Ops : Has(op, d)' <=> Has(op, d)
          BY <2>3, <3>1
        <4> QED
          BY <2>1, <3>0, <3>1, <4>1, <4>2, PhaseFrame
      <3>2. CASE d = c
        <4>1. ~Closing(c)'
          BY <1>1, <1>2, <2>1 DEF Closing
        <4>2. /\ Has("removeConnectionInLoop", c)' /\ ~Has("connectEstablished", c)'
              /\ ~Has("connectDestroyed", c)'
          BY <1>4, <2>3, OpsFacts
        <4> QED
          BY <1>4, <2>1, <3>2, <4>1, <4>2 DEF Phase
      <3> QED
        BY <3>1, <3>2
    <2> QED
      BY <1>1, <2>1, <2>4, <2>5 DEF ServerInv, Phases
  <1> QED
    BY <1>6, <1>7

\* A loop runs a functor.
LEMMA RunFunctorKeeps ==
    ASSUME ServerInv, NEW l \in Loops, RunFunctor(l),
           server = "gone" => \A d \in Conns : ~Has("removeConnectionInLoop", d)
    PROVE  ServerInv'
  <1> DEFINE rest == [queue EXCEPT ![l] = Tail(@)]
  <1>0. /\ ServerTypes /\ AtHome /\ Good(ioLoop, queue) /\ failed = {}
        /\ ioLoop \in [Conns -> Loops] /\ closing \in [Loops -> {0} \cup Conns]
        /\ state_ \in [Conns -> {"none", "kConnecting", "kConnected", "kDisconnecting",
                                 "kDisconnected"}]
        /\ channel \in [Conns -> {"kNew", "on", "off"}]
        /\ closing[l] = 0 /\ queue[l] # <<>> /\ UNCHANGED <<serverVars, ioLoop>>
        /\ UNCHANGED <<nextConnId_, server>>
    BY DEF ServerInv, ServerTypes, AtHome, RunFunctor, Idle, serverVars
  <1>p. PICK f, r :
        /\ f = Head(queue[l]) /\ r = rest
        /\ Good(ioLoop, r)
        /\ f.op \in Ops /\ f.conn \in Conns /\ l = Home(ioLoop, f.op, f.conn)
        /\ HasIn(ioLoop, queue, f.op, f.conn)
        /\ \A o \in Ops, d \in Conns :
              HasIn(ioLoop, r, o, d)
                 <=> HasIn(ioLoop, queue, o, d) /\ ~(o = f.op /\ d = f.conn)
    <2>1. ioLoop \in [Conns -> Loops] /\ Good(ioLoop, queue) /\ l \in Loops /\ queue[l] # <<>>
      BY <1>0
    <2> QED
      BY ONLY <2>1, Popped, Zenon
  <1>c. PICK c \in Conns : c = f.conn
    BY <1>p
  <1>1. /\ Good(ioLoop, rest)
        /\ f.op \in Ops /\ c \in Conns /\ l = Home(ioLoop, f.op, c)
        /\ Has(f.op, c)
        /\ \A o \in Ops, d \in Conns :
              HasIn(ioLoop, rest, o, d) <=> Has(o, d) /\ ~(o = f.op /\ d = c)
    BY <1>c, <1>p DEF Has
  <1>2. Phase(c) /\ c # 0 /\ failed = {}
    BY <1>1, LoopFacts DEF ServerInv, Phases
  <1>3. \/ /\ f.op = "connectEstablished" /\ Establish(c)
           /\ failed' = failed \cup Fails(state_[c] # "kConnecting", f.op)
           /\ queue' = rest /\ UNCHANGED <<connections_, closing>>
        \/ /\ f.op = "forceClose"
           /\ IF state_[c] \in {"kConnected", "kDisconnecting"} THEN handleClose(l, c)
              ELSE UNCHANGED <<state_, channel, closing>>
           /\ queue' = rest /\ UNCHANGED <<connections_, failed>>
        \/ /\ f.op = "removeConnectionInLoop" /\ removeConnectionInLoop(rest, c)
           /\ UNCHANGED <<closing, state_, channel>>
        \/ /\ f.op = "connectDestroyed" /\ connectDestroyed(c)
           /\ queue' = rest /\ UNCHANGED <<connections_, closing>>
    BY <1>p, <1>c DEF RunFunctor
  <1> HIDE DEF rest
  <1>4. queue' = rest =>
           \A o \in Ops, d \in Conns : Has(o, d)' <=> Has(o, d) /\ ~(o = f.op /\ d = c)
    BY <1>0, <1>1 DEF Has
  <1>5. ASSUME queue' = rest, closing' = closing, ServerTypes' PROVE AtHome'
    BY <1>0, <1>1, <1>5 DEF AtHome
  <1>6. ASSUME queue' = rest, UNCHANGED <<closing, connections_>>, NEW d \in Conns \ {c},
               state_'[d] = state_[d], channel'[d] = channel[d]
        PROVE  Phase(d)'
    <2>1. Closing(d)' <=> Closing(d)
      BY <1>0, <1>6 DEF Closing
    <2>2. \A op \in Ops : Has(op, d)' <=> Has(op, d)
      BY <1>4, <1>6
    <2>3. Phase(d)
      BY DEF ServerInv, Phases
    <2> QED
      BY <1>0, <1>6, <2>1, <2>2, <2>3, PhaseFrame
  <1>7. CASE f.op = "connectEstablished" /\ Establish(c)
             /\ failed' = failed \cup Fails(state_[c] # "kConnecting", f.op)
             /\ queue' = rest /\ UNCHANGED <<connections_, closing>>
    <2>1. state_[c] = "kConnecting" /\ ~(c >= nextConnId_)
      BY <1>0, <1>1, <1>2, <1>7, OpsFacts DEF Phase
    <2>2. /\ state_' = [state_ EXCEPT ![c] = "kConnected"]
          /\ channel' = [channel EXCEPT ![c] = "on"]
          /\ failed' = failed
      BY <1>7, <2>1 DEF Establish, Fails
    <2>3. ServerTypes' /\ AtHome'
      <3>1. ServerTypes'
        BY <1>0, <1>1, <1>7, <2>2 DEF ServerTypes, serverVars
      <3> QED
        BY <1>5, <1>7, <3>1
    <2>4. Phase(c)'
      <3>1. /\ c \in connections_ /\ ~Closing(c)
            /\ \A op \in Ops \ {"connectEstablished"} : ~Has(op, c)
        BY <1>2, <2>1 DEF Phase
      <3>2. \A op \in Ops : ~Has(op, c)'
        BY <1>1, <1>4, <1>7, <3>1
      <3>3. ~Closing(c)' /\ state_'[c] = "kConnected" /\ channel'[c] = "on"
        BY <1>0, <1>1, <1>7, <2>2, <3>1 DEF Closing
      <3> QED
        BY <1>0, <1>7, <2>1, <3>1, <3>2, <3>3 DEF Phase
    <2>5. \A d \in Conns \ {c} : Phase(d)'
      BY <1>0, <1>6, <1>7, <2>2
    <2> QED
      BY <1>2, <2>2, <2>3, <2>4, <2>5 DEF ServerInv, Phases
  <1>8. CASE f.op = "forceClose" /\ queue' = rest /\ UNCHANGED <<connections_, failed>>
             /\ IF state_[c] \in {"kConnected", "kDisconnecting"} THEN handleClose(l, c)
                ELSE UNCHANGED <<state_, channel, closing>>
    <2>1. l = ioLoop[c]
      BY <1>1, <1>8 DEF Home
    <2>2. CASE state_[c] \in {"kConnected", "kDisconnecting"}
      <3>1. handleClose(ioLoop[c], c) /\ closing[ioLoop[c]] = 0
        BY <1>0, <1>8, <2>1, <2>2
      <3>2. /\ Good(ioLoop, queue')
            /\ \A o \in Ops, d \in Conns : HasIn(ioLoop, queue', o, d) => Has(o, d)
            /\ \A o \in Ops, d \in Conns :
                  Has(o, d) /\ ~(o = "forceClose" /\ d = c) => HasIn(ioLoop, queue', o, d)
        BY <1>1, <1>8
      <3> QED
        BY <1>0, <1>1, <1>8, <2>2, <3>1, <3>2, HandleCloseKeeps
    <2>3. CASE state_[c] \notin {"kConnected", "kDisconnecting"}
      <3>1. UNCHANGED <<state_, channel, closing>>
        BY <1>8, <2>3
      <3>2. ServerTypes' /\ AtHome'
        <4>1. ServerTypes'
          BY <1>0, <1>8, <3>1 DEF ServerTypes, serverVars
        <4> QED
          BY <1>5, <1>8, <3>1, <4>1
      <3>3. Phase(c)'
        <4>1. state_[c] = "kDisconnected"
          BY <1>0, <1>1, <1>2, <1>8, <2>3, OpsFacts DEF Phase
        <4>2. \A op \in Ops \ {"forceClose"} : Has(op, c)' <=> Has(op, c)
          BY <1>4, <1>8
        <4>3. Closing(c)' <=> Closing(c)
          BY <1>0, <3>1 DEF Closing
        <4> QED
          BY <1>0, <1>2, <1>8, <3>1, <4>1, <4>2, <4>3, OpsFacts DEF Phase
      <3>4. \A d \in Conns \ {c} : Phase(d)'
        BY <1>6, <1>8, <3>1
      <3> QED
        BY <1>2, <1>8, <3>2, <3>3, <3>4 DEF ServerInv, Phases
    <2> QED
      BY <2>2, <2>3
  <1>9. CASE f.op = "removeConnectionInLoop" /\ removeConnectionInLoop(rest, c)
             /\ UNCHANGED <<closing, state_, channel>>
    <2>1. Has("removeConnectionInLoop", c) /\ server # "gone"
      BY <1>1, <1>9
    <2>2. state_[c] = "kDisconnected" /\ c \in connections_ /\ ~Closing(c)
      BY <1>0, <1>1, <1>2, <2>1, OpsFacts DEF Phase
    <2>3. \A m \in Loops : closing[m] # c
      BY <1>0, <1>2, <2>2 DEF AtHome, Closing
    <2>4. closing' = [m \in Loops |-> IF closing[m] = c THEN 0 ELSE closing[m]]
      BY <1>0, <1>9, <2>3
    <2>5. \A o \in Ops, d \in Conns :
             HasIn(ioLoop, rest, o, d)
                <=> Has(o, d) /\ ~(o = "removeConnectionInLoop" /\ d = c)
      BY <1>1, <1>9
    <2>6. UNCHANGED <<serverVars, connVars>>
      BY <1>0, <1>9 DEF connVars
    <2> QED
      BY <1>1, <1>9, <2>1, <2>2, <2>4, <2>5, <2>6, RemoveInLoopKeeps
  <1>10. CASE f.op = "connectDestroyed" /\ connectDestroyed(c)
              /\ queue' = rest /\ UNCHANGED <<connections_, closing>>
    <2>1. /\ state_[c] = "kDisconnected" /\ c \notin connections_ /\ channel[c] = "off"
          /\ ~Has("connectEstablished", c) /\ ~Has("removeConnectionInLoop", c)
          /\ ~Closing(c) /\ ~(c >= nextConnId_)
      BY <1>0, <1>1, <1>2, <1>10, OpsFacts DEF Phase
    <2>2. /\ state_' = state_ /\ channel' = [channel EXCEPT ![c] = "kNew"] /\ failed' = failed
      BY <1>0, <1>1, <1>10, <2>1 DEF connectDestroyed, Fails
    <2>3. ServerTypes' /\ AtHome'
      <3>1. ServerTypes'
        BY <1>0, <1>1, <1>10, <2>2 DEF ServerTypes, serverVars
      <3> QED
        BY <1>5, <1>10, <3>1
    <2>4. Phase(c)'
      <3>1. /\ ~Has("connectEstablished", c)' /\ ~Has("removeConnectionInLoop", c)'
            /\ ~Has("connectDestroyed", c)'
        BY <1>1, <1>4, <1>10, <2>1, OpsFacts
      <3>2. ~Closing(c)' /\ channel'[c] = "kNew"
        BY <1>0, <1>1, <1>10, <2>1, <2>2 DEF Closing
      <3> QED
        BY <1>0, <1>10, <2>1, <2>2, <3>1, <3>2 DEF Phase
    <2>5. \A d \in Conns \ {c} : Phase(d)'
      BY <1>0, <1>6, <1>10, <2>2
    <2> QED
      BY <1>2, <2>2, <2>3, <2>4, <2>5 DEF ServerInv, Phases
  <1> QED
    BY <1>3, <1>7, <1>8, <1>9, <1>10

\* A connection is accepted, and is established at once or handed to its loop.
LEMMA HandleReadKeeps ==
    ASSUME ServerInv, handleRead
    PROVE  ServerInv'
  <1>0. PICK c : c = nextConnId_
    OBVIOUS
  <1>1. PICK io : io = getNextLoop
    OBVIOUS
  <1>t. /\ ServerTypes /\ Good(ioLoop, queue) /\ ioLoop \in [Conns -> Loops] /\ failed = {}
        /\ closing \in [Loops -> {0} \cup Conns]
        /\ state_ \in [Conns -> {"none", "kConnecting", "kConnected", "kDisconnecting",
                                 "kDisconnected"}]
        /\ channel \in [Conns -> {"kNew", "on", "off"}]
        /\ \A l \in Loops : closing[l] # 0 => l = ioLoop[closing[l]]
    BY DEF ServerInv, ServerTypes, AtHome
  <1>2. /\ nextConnId_' = c + 1 /\ backlog' = backlog - 1 /\ backlog > 0
        /\ next_' = IF next_ + 1 >= numThreads_ THEN 0 ELSE next_ + 1
        /\ connections_' = connections_ \cup {c}
        /\ ioLoop' = [ioLoop EXCEPT ![c] = io]
        /\ IF io = BaseLoop THEN Establish(c) /\ UNCHANGED queue
           ELSE /\ queue' = Push(queue, io, "connectEstablished", c)
                /\ state_' = [state_ EXCEPT ![c] = "kConnecting"]
                /\ UNCHANGED channel
        /\ UNCHANGED <<numThreads_, listening_, server, closing, failed>>
    BY <1>0, <1>1 DEF handleRead, newConnection, threadVars
  <1>3. c \in Conns /\ io \in Loops /\ c \in Nat /\ c # 0
    <2>1. c \in Conns /\ c \in Nat /\ c # 0
      BY <1>0, <1>2, ServerAssumption DEF ServerInv, ServerTypes, Conns
    <2>2. io \in Loops
      <3>1. numThreads_ \in 0..MaxThreads /\ next_ \in Nat /\ (next_ = 0 \/ next_ < numThreads_)
        BY <1>t DEF ServerTypes
      <3> QED
        BY <1>1, <3>1, LoopFacts, ServerAssumption DEF getNextLoop, Loops
    <2> QED
      BY <2>1, <2>2
  <1>4. ServerTypes'
    <2>1. /\ next_' \in Nat /\ (next_' = 0 \/ next_' < numThreads_)
      BY <1>2, <1>t DEF ServerTypes
    <2>2. /\ nextConnId_' \in Nat \ {0} /\ backlog' \in Nat
          /\ nextConnId_' + backlog' <= MaxConns + 1
      BY <1>0, <1>2, <1>t, ServerAssumption DEF ServerTypes
    <2>3. /\ state_' \in [Conns -> {"none", "kConnecting", "kConnected", "kDisconnecting",
                                    "kDisconnected"}]
          /\ channel' \in [Conns -> {"kNew", "on", "off"}]
          /\ ioLoop' \in [Conns -> Loops]
      BY <1>2, <1>3, <1>t DEF Establish
    <2> QED
      BY <1>2, <1>3, <1>t, <2>1, <2>2, <2>3 DEF ServerTypes
  <1>5. /\ state_[c] = "none" /\ channel[c] = "kNew" /\ c \notin connections_ /\ ~Closing(c)
        /\ \A op \in Ops : ~Has(op, c)
    <2>1. Phase(c) /\ c >= nextConnId_
      BY <1>0, <1>3 DEF ServerInv, Phases
    <2> QED
      BY <2>1 DEF Phase
  <1>6. \A l \in Loops : \A f \in Range(queue[l]) : f.conn # c
    <2>1. ASSUME NEW l \in Loops, NEW f \in Range(queue[l]), f.conn = c PROVE FALSE
      <3>1. queue[l] \in Seq(Functors) /\ l = Home(ioLoop, f.op, f.conn)
        BY <1>t DEF Good
      <3>2. f \in Functors
        BY <3>1, RangeFacts
      <3>3. f.op \in Ops /\ f = Functor(f.op, f.conn)
        BY <3>2, FunctorFacts
      <3>4. Has(f.op, c)
        BY <2>1, <3>1, <3>3 DEF Has, HasIn
      <3> QED
        BY <1>5, <3>3, <3>4
    <2> QED
      BY <2>1
  <1>7. /\ ioLoop'[c] = io /\ \A d \in Conns \ {c} : ioLoop'[d] = ioLoop[d]
        /\ ioLoop' \in [Conns -> Loops]
    BY <1>2, <1>3, <1>t
  <1>8. Good(ioLoop', queue)
    <2>1. ASSUME NEW l \in Loops, NEW f \in Range(queue[l]) PROVE l = Home(ioLoop', f.op, f.conn)
      <3>1. l = Home(ioLoop, f.op, f.conn) /\ queue[l] \in Seq(Functors)
        BY <1>t DEF Good
      <3>2. f.conn \in Conns
        BY <3>1, RangeFacts, FunctorFacts
      <3> QED
        BY <1>6, <1>7, <3>1, <3>2 DEF Home
    <2> QED
      BY <1>t, <2>1 DEF Good
  <1>9. /\ \A op \in Ops : ~HasIn(ioLoop', queue, op, c)
        /\ \A op \in Ops, d \in Conns \ {c} : HasIn(ioLoop', queue, op, d) <=> Has(op, d)
    <2>1. ASSUME NEW op \in Ops PROVE ~HasIn(ioLoop', queue, op, c)
      <3>1. Home(ioLoop', op, c) \in Loops /\ Functor(op, c).conn = c
        BY <1>3, <1>7, LoopFacts, FunctorFacts DEF Home
      <3> QED
        BY <1>6, <3>1 DEF HasIn
    <2>2. ASSUME NEW op \in Ops, NEW d \in Conns \ {c}
          PROVE  HasIn(ioLoop', queue, op, d) <=> Has(op, d)
      <3>1. Home(ioLoop', op, d) = Home(ioLoop, op, d)
        BY <1>7 DEF Home
      <3> QED
        BY <3>1 DEF Has, HasIn
    <2> QED
      BY <2>1, <2>2
  <1>10. ~Closing(c)' /\ ~(c >= nextConnId_') /\ c \in connections_'
    <2>1. closing[io] # c
      BY <1>3, <1>5, <1>t DEF Closing
    <2> QED
      BY <1>2, <1>3, <1>7, <2>1 DEF Closing
  <1>11. /\ Good(ioLoop', queue') /\ Phase(c)'
         /\ \A d \in Conns \ {c} : /\ state_'[d] = state_[d] /\ channel'[d] = channel[d]
                                   /\ \A op \in Ops : Has(op, d)' <=> Has(op, d)
    <2>1. CASE io = BaseLoop
      <3>1. /\ queue' = queue /\ state_' = [state_ EXCEPT ![c] = "kConnected"]
            /\ channel' = [channel EXCEPT ![c] = "on"]
        BY <1>2, <2>1 DEF Establish
      <3>2. \A op \in Ops : ~Has(op, c)' /\ \A d \in Conns \ {c} : Has(op, d)' <=> Has(op, d)
        BY <1>9, <3>1 DEF Has
      <3>3. state_'[c] = "kConnected" /\ channel'[c] = "on"
        BY <1>3, <1>t, <3>1
      <3>4. \A d \in Conns \ {c} : state_'[d] = state_[d] /\ channel'[d] = channel[d]
        BY <1>t, <3>1
      <3>5. Phase(c)'
        BY <1>10, <3>2, <3>3 DEF Phase
      <3> QED
        BY <1>8, <3>1, <3>2, <3>4, <3>5
    <2>2. CASE io # BaseLoop
      <3>1. /\ queue' = Push(queue, io, "connectEstablished", c)
            /\ state_' = [state_ EXCEPT ![c] = "kConnecting"] /\ channel' = channel
        BY <1>2, <2>2
      <3>2. /\ Good(ioLoop', queue')
            /\ \A o \in Ops, d \in Conns :
                  HasIn(ioLoop', queue', o, d)
                     <=> HasIn(ioLoop', queue, o, d) \/ (o = "connectEstablished" /\ d = c)
        <4>1. Home(ioLoop', "connectEstablished", c) = io
          BY <1>7 DEF Home
        <4>2. ~HasIn(ioLoop', queue, "connectEstablished", c)
          BY <1>9, OpsFacts
        <4>3. queue' = Push(queue, Home(ioLoop', "connectEstablished", c),
                            "connectEstablished", c)
          BY <3>1, <4>1
        <4> QED
          BY <1>3, <1>7, <1>8, <4>2, <4>3, OpsFacts, Pushed
      <3>3. /\ Has("connectEstablished", c)'
            /\ \A op \in Ops \ {"connectEstablished"} : ~Has(op, c)'
            /\ \A op \in Ops, d \in Conns \ {c} : Has(op, d)' <=> Has(op, d)
        BY <1>3, <1>9, <3>2, OpsFacts DEF Has
      <3>4. state_'[c] = "kConnecting" /\ channel'[c] = "kNew"
        BY <1>3, <1>5, <1>t, <3>1
      <3>5. \A d \in Conns \ {c} : state_'[d] = state_[d] /\ channel'[d] = channel[d]
        BY <1>t, <3>1
      <3>6. Phase(c)'
        BY <1>10, <3>3, <3>4 DEF Phase
      <3> QED
        BY <3>2, <3>3, <3>5, <3>6
    <2> QED
      BY <2>1, <2>2
  <1>12. ASSUME NEW d \in Conns \ {c} PROVE Phase(d)'
    <2>1. Phase(d) /\ (Closing(d)' <=> Closing(d))
      BY <1>2, <1>7 DEF ServerInv, Phases, Closing
    <2>2. d >= nextConnId_' <=> d >= nextConnId_
      <3>1. d \in Nat
        BY LoopFacts
      <3> QED
        BY <1>0, <1>2, <1>3, <3>1
    <2>3. d \in connections_' <=> d \in connections_
      BY <1>2
    <2> QED
      BY <1>11, <2>1, <2>2, <2>3, PhaseFrame
  <1>13. \A l \in Loops : closing'[l] # 0 => l = ioLoop'[closing'[l]]
    <2>1. \A l \in Loops : closing[l] # c
      BY <1>3, <1>5, <1>t DEF Closing
    <2> QED
      BY <1>2, <1>7, <1>t, <2>1
  <1> QED
    BY <1>2, <1>4, <1>11, <1>12, <1>13, <1>t DEF ServerInv, Phases, AtHome

\* A step that leaves the connections and their functors alone keeps the invariant.
LEMMA ServerFrame ==
    ASSUME ServerInv, ServerTypes',
           UNCHANGED <<connections_, queue, closing, connVars, failed, nextConnId_>>
    PROVE  ServerInv'
  <1>1. AtHome' /\ failed' = failed
    BY DEF ServerInv, AtHome, connVars
  <1>2. ASSUME NEW c \in Conns PROVE Phase(c)'
    <2>1. Phase(c) /\ (Closing(c)' <=> Closing(c)) /\ \A op \in Ops : Has(op, c)' <=> Has(op, c)
      BY DEF ServerInv, Phases, Closing, Has, connVars
    <2> QED
      BY <2>1, PhaseFrame DEF connVars
  <1> QED
    BY <1>1, <1>2 DEF ServerInv, Phases

\* While the server is up, or with what ~TcpServer() has waited for, every
\* step but those of ~TcpServer() keeps the invariant.
LEMMA ServingKeeps ==
    ASSUME ServerInv, Forced, Next, ~Destruction,
           server # "up" => \A l \in Loops : forcing[l] = 0,
           server = "gone" => /\ \A l \in Loops : closing[l] = 0
                              /\ \A d \in Conns : ~Has("removeConnectionInLoop", d)
    PROVE  ServerInv'
  <1>1. CASE start
    <2>1. ServerTypes'
      BY <1>1 DEF start, listen, ServerInv, ServerTypes, threadVars, connVars
    <2> QED
      BY <1>1, <2>1, ServerFrame DEF start, threadVars
  <1>2. CASE ClientConnects
    <2>1. ServerTypes'
      <3>1. backlog' \in Nat /\ nextConnId_ + backlog' <= MaxConns + 1
        BY <1>2, ServerAssumption DEF ClientConnects, ServerInv, ServerTypes
      <3> QED
        BY <1>2, <3>1 DEF ClientConnects, ServerInv, ServerTypes, threadVars, connVars
    <2> QED
      BY <1>2, <2>1, ServerFrame DEF ClientConnects, threadVars
  <1>3. CASE BeginDestroy
    <2>1. ServerTypes'
      BY <1>3 DEF BeginDestroy, ServerInv, ServerTypes, threadVars, connVars
    <2> QED
      BY <1>3, <2>1, ServerFrame DEF BeginDestroy, threadVars
  <1>4. CASE handleRead
    BY <1>4, HandleReadKeeps
  <1>5. ASSUME NEW l \in Loops, LoopStep(l) PROVE ServerInv'
    <2>1. CASE RunFunctor(l)
      BY <2>1, RunFunctorKeeps
    <2>2. CASE removeConnection(l)
      BY <2>2, RemoveConnectionKeeps DEF removeConnection
    <2>3. CASE ForceSet(l)
      <3>1. PICK c \in Conns : c = forcing[l]
        BY <2>3 DEF ForceSet, Forced
      <3>2. stopped = {}
        BY <2>3 DEF ForceSet, Forced
      <3> QED
        BY <2>3, <3>1, <3>2, UserCallKeeps
    <2> QED
      BY <1>5, <2>1, <2>2, <2>3 DEF LoopStep
  <1>6. ASSUME NEW c \in Conns, PeerCloses(c) \/ UserShutdown(c)
        PROVE  ServerInv'
    BY <1>6, PeerClosesKeeps, UserCallKeeps
  <1>7. ASSUME NEW l \in Loops, NEW c \in Conns, ForceTest(l, c) PROVE ServerInv'
    <2>1. ServerTypes'
      BY <1>7 DEF ForceTest, ServerInv, ServerTypes, serverVars, connVars
    <2> QED
      BY <1>7, <2>1, ServerFrame DEF ForceTest, serverVars
  <1> QED
    BY <1>1, <1>2, <1>3, <1>4, <1>5, <1>6, <1>7 DEF Next

\* A functor of another kind does not bring a forceCloseInLoop().
LEMMA NoForceQueued ==
    ASSUME NEW q \in [Loops -> Seq(Functors)], NEW m \in Loops, NEW op \in Ops, op # "forceClose",
           NEW d \in Conns, NEW c \in Conns, NEW l \in Loops,
           Functor("forceClose", c) \notin Range(q[l])
    PROVE  Functor("forceClose", c) \notin Range(Push(q, m, op, d)[l])
  <1>1. Functor(op, d) \in Functors /\ Functor(op, d) # Functor("forceClose", c)
    BY FunctorFacts, OpsFacts
  <1>2. Range(Append(q[m], Functor(op, d))) = Range(q[m]) \cup {Functor(op, d)}
    BY <1>1, AppendFunctor
  <1> QED
    BY <1>1, <1>2 DEF Push

\* Nothing but its own thread disturbs a connection whose loop is in forceClose().
LEMMA ForcedKeeps ==
    ASSUME ServerInv, Forced, Next, ~Destruction, ForeignClose = FALSE
    PROVE  Forced'
  <1>0. /\ ServerTypes /\ AtHome /\ Phases /\ Good(ioLoop, queue)
        /\ ioLoop \in [Conns -> Loops] /\ forcing \in [Loops -> {0} \cup Conns]
        /\ closing \in [Loops -> {0} \cup Conns] /\ queue \in [Loops -> Seq(Functors)]
        /\ state_ \in [Conns -> {"none", "kConnecting", "kConnected", "kDisconnecting",
                                 "kDisconnected"}]
    BY DEF ServerInv, ServerTypes, AtHome, Forced, Good
  <1>1. ASSUME forcing' = forcing, stopped' = stopped, server' = "up" => server = "up",
               \A l \in Loops : forcing[l] # 0 =>
                  /\ ioLoop'[forcing[l]] = ioLoop[forcing[l]]
                  /\ state_'[forcing[l]] = state_[forcing[l]]
                  /\ Functor("forceClose", forcing[l]) \notin Range(queue'[l])
        PROVE  Forced'
    BY <1>0, <1>1 DEF Forced
  <1>2. CASE start \/ ClientConnects \/ BeginDestroy
    <2>1. /\ UNCHANGED <<forcing, stopped, ioLoop, state_, queue>>
          /\ server' = "up" => server = "up"
      BY <1>2 DEF start, ClientConnects, BeginDestroy, threadVars, connVars
    <2> QED
      BY <1>1, <2>1 DEF Forced
  <1>3. CASE handleRead
    <2>1. PICK c : c = nextConnId_
      OBVIOUS
    <2>2. c \in Conns /\ getNextLoop \in Loops
      <3>1. c \in Conns
        BY <1>0, <1>3, <2>1, ServerAssumption DEF ServerTypes, Conns, handleRead
      <3>2. numThreads_ \in 0..MaxThreads /\ next_ \in Nat /\ (next_ = 0 \/ next_ < numThreads_)
        BY <1>0 DEF ServerTypes
      <3> QED
        BY <3>1, <3>2, LoopFacts, ServerAssumption DEF getNextLoop, Loops
    <2>3. Phase(c) /\ c >= nextConnId_
      BY <1>0, <2>1, <2>2 DEF Phases, ServerTypes
    <2>4. state_[c] = "none"
      BY <2>3 DEF Phase
    <2>5. /\ UNCHANGED <<forcing, stopped, server>> /\ ioLoop' = [ioLoop EXCEPT ![c] = getNextLoop]
          /\ \E v : state_' = [state_ EXCEPT ![c] = v]
          /\ \/ queue' = queue
             \/ queue' = Push(queue, getNextLoop, "connectEstablished", c)
      BY <1>3, <2>1 DEF handleRead, newConnection, Establish, threadVars
    <2>6. ASSUME NEW l \in Loops, forcing[l] # 0
          PROVE  /\ forcing[l] \in Conns /\ forcing[l] # c
                 /\ Functor("forceClose", forcing[l]) \notin Range(queue'[l])
      <3>1. /\ forcing[l] \in Conns /\ forcing[l] # c
            /\ Functor("forceClose", forcing[l]) \notin Range(queue[l])
        BY <1>0, <2>4, <2>6 DEF Forced
      <3> QED
        BY <1>0, <2>2, <2>5, <3>1, NoForceQueued, OpsFacts
    <2> QED
      BY <1>0, <1>1, <2>5, <2>6
  <1>4. ASSUME NEW c \in Conns, PeerCloses(c) \/ UserShutdown(c) PROVE Forced'
    <2>1. /\ UNCHANGED <<forcing, stopped, server, ioLoop, queue>> /\ forcing[ioLoop[c]] = 0
          /\ \E v : state_' = [state_ EXCEPT ![c] = v]
      BY <1>4 DEF PeerCloses, UserShutdown, Idle, handleClose, threadVars, serverVars
    <2>2. ASSUME NEW l \in Loops, forcing[l] # 0
          PROVE  state_'[forcing[l]] = state_[forcing[l]]
      BY <1>0, <2>1, <2>2 DEF Forced
    <2> QED
      BY <1>1, <2>1, <2>2 DEF Forced
  <1>5. ASSUME NEW l \in Loops, NEW c \in Conns, ForceTest(l, c) PROVE Forced'
    <2>1. /\ forcing' = [forcing EXCEPT ![l] = c] /\ l = ioLoop[c]
          /\ state_[c] \in {"kConnected", "kDisconnecting"}
          /\ Functor("forceClose", c) \notin Range(queue[l])
          /\ UNCHANGED <<stopped, server, ioLoop, queue, state_>>
      BY <1>5 DEF ForceTest, serverVars, connVars
    <2> QED
      BY <1>0, <2>1 DEF Forced
  <1>6. ASSUME NEW l \in Loops, ForceSet(l) PROVE Forced'
    <2>1. PICK c \in Conns : c = forcing[l] /\ c # 0
      BY <1>0, <1>6 DEF ForceSet
    <2>2. /\ forcing' = [forcing EXCEPT ![l] = 0] /\ l = ioLoop[c]
          /\ state_' = [state_ EXCEPT ![c] = "kDisconnecting"]
          /\ queue' = Push(queue, l, "forceClose", c)
          /\ UNCHANGED <<stopped, server, ioLoop>>
      BY <1>6, <2>1 DEF ForceSet, serverVars, Forced
    <2>3. ASSUME NEW m \in Loops, forcing'[m] # 0
          PROVE  /\ m # l /\ forcing'[m] = forcing[m] /\ queue'[m] = queue[m]
                 /\ state_'[forcing[m]] = state_[forcing[m]]
      <3>1. m # l /\ forcing'[m] = forcing[m] /\ queue'[m] = queue[m]
        BY <1>0, <2>2, <2>3 DEF Push
      <3>2. forcing[m] # c
        BY <2>2, <2>3, <3>1 DEF Forced
      <3> QED
        BY <1>0, <2>2, <3>1, <3>2
    <2>4. forcing' \in [Loops -> {0} \cup Conns]
      BY <1>0, <2>2
    <2> QED
      BY <2>2, <2>3, <2>4 DEF Forced
  <1>7. ASSUME NEW l \in Loops, removeConnection(l) PROVE Forced'
    <2>1. PICK c \in Conns : c = closing[l]
      BY <1>0, <1>7 DEF removeConnection
    <2>2. /\ UNCHANGED <<forcing, stopped, server, state_, ioLoop>>
          /\ \E m \in Loops, op \in Ops : /\ op # "forceClose" /\ queue' = Push(queue, m, op, c)
      <3>1. \/ queue' = Push(queue, ioLoop[c], "connectDestroyed", c)
            \/ queue' = Push(queue, BaseLoop, "removeConnectionInLoop", c)
        BY <1>7, <2>1 DEF removeConnection, removeConnectionInLoop
      <3>2. ioLoop[c] \in Loops
        BY <1>0, <2>1
      <3> QED
        BY <1>7, <3>1, <3>2, LoopFacts, OpsFacts DEF removeConnection, serverVars, connVars
    <2>3. ASSUME NEW m \in Loops, forcing[m] # 0
          PROVE  Functor("forceClose", forcing[m]) \notin Range(queue'[m])
      <3>1. PICK d \in Conns : d = forcing[m] /\ Functor("forceClose", d) \notin Range(queue[m])
        BY <1>0, <2>3 DEF Forced
      <3>2. PICK n \in Loops, op \in Ops : op # "forceClose" /\ queue' = Push(queue, n, op, c)
        BY <2>2
      <3>3. Functor("forceClose", d) \notin Range(Push(queue, n, op, c)[m])
        BY <1>0, <3>1, <3>2, NoForceQueued
      <3> QED
        BY <3>1, <3>2, <3>3
    <2> QED
      BY <1>1, <2>2, <2>3
  <1>8. ASSUME NEW l \in Loops, RunFunctor(l) PROVE Forced'
    <2>1. /\ UNCHANGED <<forcing, stopped, server, ioLoop>> /\ forcing[l] = 0 /\ queue[l] # <<>>
      BY <1>8 DEF RunFunctor, Idle, serverVars
    <2>2. PICK f, r :
             /\ f = Head(queue[l]) /\ r = [queue EXCEPT ![l] = Tail(@)]
             /\ Good(ioLoop, r)
             /\ f.op \in Ops /\ f.conn \in Conns /\ l = Home(ioLoop, f.op, f.conn)
      BY <1>0, <2>1, Popped
    <2>3. /\ r \in [Loops -> Seq(Functors)]
          /\ \A m \in Loops : m # l => r[m] = queue[m]
      BY <1>0, <2>2 DEF Good
    <2>4. \/ queue' = r
          \/ queue' = Push(r, ioLoop[f.conn], "connectDestroyed", f.conn)
      BY <1>8, <2>2 DEF RunFunctor, removeConnectionInLoop
    <2>5. \/ state_' = state_
          \/ l = ioLoop[f.conn] /\ \E v : state_' = [state_ EXCEPT ![f.conn] = v]
      <3>1. \/ state_' = state_
            \/ f.op # "removeConnectionInLoop" /\ \E v : state_' = [state_ EXCEPT ![f.conn] = v]
        BY <1>8, <2>2 DEF RunFunctor, Establish, handleClose, connectDestroyed
      <3> QED
        BY <2>2, <3>1 DEF Home
    <2>6. ASSUME NEW m \in Loops, forcing[m] # 0
          PROVE  /\ state_'[forcing[m]] = state_[forcing[m]]
                 /\ Functor("forceClose", forcing[m]) \notin Range(queue'[m])
      <3>1. PICK c \in Conns : c = forcing[m] /\ m = ioLoop[c]
        BY <1>0, <2>6 DEF Forced
      <3>2. m # l
        BY <2>1, <2>6
      <3>3. Functor("forceClose", c) \notin Range(r[m])
        BY <2>3, <2>6, <3>1, <3>2 DEF Forced
      <3>4. Functor("forceClose", c) \notin Range(queue'[m])
        <4>1. PICK d \in Conns : d = f.conn
          BY <2>2
        <4>2. ioLoop[d] \in Loops /\ "connectDestroyed" \in Ops
          BY <1>0, OpsFacts
        <4>3. Functor("forceClose", c) \notin Range(Push(r, ioLoop[d], "connectDestroyed", d)[m])
          BY <2>3, <3>3, <4>2, NoForceQueued
        <4> QED
          BY <2>4, <3>3, <4>1, <4>3
      <3>5. state_'[c] = state_[c]
        BY <1>0, <2>5, <3>1, <3>2
      <3> QED
        BY <3>1, <3>4, <3>5
    <2> QED
      BY <1>1, <2>1, <2>6
  <1> QED
    BY <1>2, <1>3, <1>4, <1>5, <1>6, <1>7, <1>8 DEF Next, LoopStep

\* While the server is up, the connections it knows are those that are not
\* closed and those whose removal is on its way, however the loops interleave,
\* as long as forceClose() is called in the loop of its connection.
THEOREM ServerMapMatches ==
    ASSUME ForeignClose = FALSE
    PROVE  Spec => []MapMatches
  <1> DEFINE UpInv == /\ server \in {"up", "destroying", "gone"}
                      /\ server = "up" => ServerInv /\ Forced
  <1>1. Init => UpInv
    BY ServerInvInit DEF Init
  <1>2. UpInv /\ [Next]_vars => UpInv'
    <2> SUFFICES ASSUME UpInv, [Next]_vars PROVE UpInv'
      OBVIOUS
    <2>1. CASE UNCHANGED vars
      <3>1. ServerInv /\ Forced => ServerInv' /\ Forced'
        BY <2>1 DEF vars, serverVars, threadVars, connVars, ServerInv, ServerTypes, AtHome, Phases,
                    Phase, Closing, Has, Forced
      <3> QED
        BY <2>1, <3>1 DEF vars, serverVars
    <2>2. CASE Next
      <3>1. server' \in {"up", "destroying", "gone"} /\ (server' = "up" => server = "up")
        BY <2>2 DEF Next, start, handleRead, newConnection, LoopStep, RunFunctor,
             removeConnection, ForceSet, BeginDestroy, Destruction, DestroyConnection, LoopEnds,
             EndDestroy, ClientConnects, PeerCloses, UserShutdown, ForceTest, serverVars
      <3>2. server = "up" => ServerInv' /\ Forced'
        <4>1. server = "up" => ~Destruction
          BY DEF Destruction, DestroyConnection, LoopEnds, EndDestroy
        <4> QED
          BY <2>2, <4>1, ServingKeeps, ForcedKeeps
      <3> QED
        BY <3>1, <3>2
    <2> QED
      BY <2>1, <2>2
  <1>3. UpInv => MapMatches
    <2> SUFFICES ASSUME UpInv, server = "up", NEW c \in 1..(nextConnId_ - 1)
                 PROVE  IF c \in connections_
                          THEN state_[c] = "kDisconnected" =>
                                 \/ closing[ioLoop[c]] = c
                                 \/ Functor("removeConnectionInLoop", c) \in Range(queue[BaseLoop])
                          ELSE state_[c] = "kDisconnected"
      BY DEF MapMatches
    <2>1. c \in Conns /\ ~(c >= nextConnId_) /\ ServerTypes
      BY ServerAssumption DEF ServerInv, ServerTypes, Conns
    <2>2. Phase(c) /\ state_[c] \in {"none", "kConnecting", "kConnected", "kDisconnecting",
                                     "kDisconnected"}
      BY <2>1 DEF ServerInv, Phases, ServerTypes
    <2>3. CASE c \in connections_
      BY <2>2, <2>3 DEF Phase, Closing, Has, HasIn, Home
    <2>4. CASE c \notin connections_
      BY <2>1, <2>2, <2>4 DEF Phase
    <2> QED
      BY <2>3, <2>4
  <1> QED
    BY <1>1, <1>2, <1>3, PTL DEF Spec

\* ~TcpServer() destroys a connection of its own loop that is up.
LEMMA DestroyConnectionKeeps ==
    ASSUME ServerInv, Parting, NEW c \in Conns, DestroyConnection(c)
    PROVE  ServerInv'
  <1>0. /\ ServerTypes /\ AtHome /\ Phase(c) /\ failed = {}
        /\ state_ \in [Conns -> {"none", "kConnecting", "kConnected", "kDisconnecting",
                                 "kDisconnected"}]
        /\ channel \in [Conns -> {"kNew", "on", "off"}] /\ connections_ \subseteq Conns
    BY DEF ServerInv, ServerTypes, Phases
  <1>1. /\ server = "destroying" /\ c \in connections_ /\ ioLoop[c] = BaseLoop
        /\ state_[c] = "kConnected"
    BY DEF DestroyConnection, Parting
  <1>2. /\ channel[c] = "on" /\ ~Closing(c) /\ ~(c >= nextConnId_)
        /\ \A op \in Ops \ {"forceClose"} : ~Has(op, c)
    BY <1>0, <1>1 DEF Phase
  <1>3. /\ state_' = [state_ EXCEPT ![c] = "kDisconnected"]
        /\ channel' = [channel EXCEPT ![c] = "kNew"]
        /\ failed' = failed /\ connections_' = connections_ \ {c}
        /\ UNCHANGED <<serverVars, queue, closing, ioLoop>>
    BY <1>0, <1>1, <1>2 DEF DestroyConnection, connectDestroyed, Fails, threadVars
  <1>4. ServerTypes' /\ AtHome'
    <2>1. ServerTypes'
      BY <1>0, <1>3 DEF ServerTypes, serverVars
    <2> QED
      BY <1>0, <1>3, <2>1 DEF AtHome
  <1>5. \A d \in Conns : /\ Closing(d)' <=> Closing(d)
                         /\ d >= nextConnId_' <=> d >= nextConnId_
                         /\ \A op \in Ops : Has(op, d)' <=> Has(op, d)
    BY <1>3 DEF Closing, Has, serverVars
  <1>6. Phase(c)'
    <2>1. state_'[c] = "kDisconnected" /\ channel'[c] = "kNew" /\ c \notin connections_'
      BY <1>0, <1>3
    <2>2. /\ ~Has("connectEstablished", c)' /\ ~Has("removeConnectionInLoop", c)'
          /\ ~Has("connectDestroyed", c)' /\ ~Closing(c)' /\ ~(c >= nextConnId_')
      BY <1>2, <1>5, OpsFacts
    <2> QED
      BY <2>1, <2>2 DEF Phase
  <1>7. ASSUME NEW d \in Conns \ {c} PROVE Phase(d)'
    <2>1. /\ Phase(d) /\ state_'[d] = state_[d] /\ channel'[d] = channel[d]
          /\ d \in connections_' <=> d \in connections_
      BY <1>0, <1>3 DEF ServerInv, Phases
    <2> QED
      BY <1>5, <2>1, PhaseFrame
  <1> QED
    BY <1>0, <1>3, <1>4, <1>6, <1>7 DEF ServerInv, Phases

\* What ~TcpServer() waits for stays true until the server is gone and after.
LEMMA PartingKeeps ==
    ASSUME ServerInv, Forced, Parting, Next, ForeignClose = FALSE, DestroyWith = {BaseLoop},
           OwnerLeaves \subseteq {"kConnected"}
    PROVE  Parting'
  <1>0. /\ ServerTypes /\ AtHome /\ Phases /\ failed = {}
        /\ ioLoop \in [Conns -> Loops] /\ Good(ioLoop, queue)
        /\ closing \in [Loops -> {0} \cup Conns] /\ connections_ \subseteq Conns
        /\ state_ \in [Conns -> {"none", "kConnecting", "kConnected", "kDisconnecting",
                                 "kDisconnected"}]
    BY DEF ServerInv, ServerTypes, AtHome
  <1>1. ASSUME server = "up" PROVE Parting'
    <2>1. server' = "up" \/ BeginDestroy
      BY <1>1 DEF Next, start, handleRead, newConnection, LoopStep, RunFunctor,
           removeConnection, ForceSet, Destruction, DestroyConnection, LoopEnds, EndDestroy,
           ClientConnects, PeerCloses, UserShutdown, ForceTest, serverVars
    <2>2. CASE BeginDestroy
      <3>1. /\ server' = "destroying"
            /\ \A c \in connections_ : ioLoop[c] = BaseLoop /\ state_[c] = "kConnected"
            /\ \A l \in Loops \ {BaseLoop} : queue[l] = <<>> /\ closing[l] = 0 /\ forcing[l] = 0
            /\ closing[BaseLoop] = 0 /\ forcing[BaseLoop] = 0
            /\ UNCHANGED <<connections_, queue, closing, forcing, state_, ioLoop>>
        BY <2>2 DEF BeginDestroy, Idle, threadVars, connVars
      <3>2. ASSUME NEW c \in Conns, Has("removeConnectionInLoop", c) PROVE FALSE
        <4>1. Phase(c) /\ state_[c] \in {"none", "kConnecting", "kConnected", "kDisconnecting",
                                         "kDisconnected"}
          BY <1>0 DEF Phases
        <4>2. state_[c] = "kDisconnected" /\ c \in connections_
          BY <3>2, <4>1, OpsFacts DEF Phase
        <4> QED
          BY <3>1, <4>2
      <3>3. \A c \in Conns : ~Has("removeConnectionInLoop", c)'
        BY <3>1, <3>2 DEF Has
      <3> QED
        BY <3>1, <3>3 DEF Parting
    <2> QED
      BY <2>1, <2>2 DEF Parting
  <1>2. ASSUME server # "up" PROVE Parting'
    <2>0. /\ \A l \in Loops : closing[l] = 0 /\ forcing[l] = 0
          /\ \A l \in Loops \ {BaseLoop} : queue[l] = <<>>
          /\ \A c \in Conns : ~Has("removeConnectionInLoop", c)
          /\ \A c \in connections_ : ioLoop[c] = BaseLoop /\ state_[c] = "kConnected"
          /\ server = "gone" => connections_ = {}
      BY <1>2 DEF Parting
    <2>1. \A c \in Conns : state_[c] \in {"kConnected", "kDisconnecting", "kConnecting"} =>
              c \in connections_ /\ state_[c] = "kConnected" /\ server = "destroying"
                                 /\ ioLoop[c] = BaseLoop
      <3>1. ASSUME NEW c \in Conns,
                   state_[c] \in {"kConnected", "kDisconnecting", "kConnecting"}
            PROVE  c \in connections_
        BY <1>0, <3>1 DEF Phases, Phase
      <3> QED
        BY <1>0, <1>2, <2>0, <3>1 DEF ServerTypes
    <2>2. ASSUME UNCHANGED <<connections_, closing, forcing, state_, ioLoop>>,
                 server' = "gone" => connections_ = {},
                 \A l \in Loops \ {BaseLoop} : queue'[l] = <<>>,
                 \A c \in Conns : ~Has("removeConnectionInLoop", c)'
          PROVE  Parting'
      BY <2>0, <2>2 DEF Parting
    <2>3. queue' = queue /\ ioLoop' = ioLoop => \A c \in Conns : ~Has("removeConnectionInLoop", c)'
      BY <2>0 DEF Has
    <2>4. ~start /\ ~handleRead /\ ~BeginDestroy
      BY <1>2 DEF start, handleRead, BeginDestroy
    <2>5. ASSUME NEW l \in Loops PROVE ~removeConnection(l) /\ ~ForceSet(l)
      BY <2>0 DEF removeConnection, ForceSet
    <2>6. ASSUME NEW c \in Conns
          PROVE  ~PeerCloses(c) /\ ~UserShutdown(c) /\ \A l \in Loops : ~ForceTest(l, c)
      <3>1. ~(channel[c] = "on" /\ Idle(ioLoop[c]))
        <4>1. channel[c] = "on" => state_[c] \in {"kConnected", "kDisconnecting"}
          BY <1>0 DEF Phases, Phase
        <4> QED
          BY <2>1, <4>1 DEF Idle
      <3>2. \A l \in Loops : ~ForceTest(l, c)
        BY <2>1 DEF ForceTest, Idle
      <3> QED
        BY <1>2, <2>1, <3>1, <3>2 DEF PeerCloses, UserShutdown, Idle
    <2>7. CASE ClientConnects
      BY <2>0, <2>2, <2>3, <2>7 DEF ClientConnects, threadVars, connVars
    <2>8. CASE EndDestroy
      BY <2>0, <2>2, <2>3, <2>8 DEF EndDestroy, threadVars, connVars
    <2>11. ASSUME NEW l \in Loops, LoopEnds(l) PROVE Parting'
      <3>1. l # BaseLoop
        BY <2>11, <1>0 DEF LoopEnds, BaseLoop, ServerTypes
      <3>2. queue' = queue
        BY <1>0, <2>0, <2>11, <3>1 DEF LoopEnds, Good
      <3> QED
        BY <2>0, <2>2, <2>3, <2>11, <3>2 DEF LoopEnds, threadVars, connVars
    <2>9. ASSUME NEW c \in Conns, DestroyConnection(c) PROVE Parting'
      <3>1. /\ c \in connections_ /\ connections_' = connections_ \ {c} /\ ioLoop[c] = BaseLoop
            /\ UNCHANGED <<closing, forcing, ioLoop, queue>> /\ server' = "destroying"
            /\ connectDestroyed(c)
        BY <2>0, <2>9 DEF DestroyConnection, threadVars, serverVars
      <3>2. \A d \in connections_' : state_'[d] = state_[d]
        BY <1>0, <3>1 DEF connectDestroyed
      <3> QED
        BY <2>0, <2>3, <3>1, <3>2 DEF Parting
    <2>10. ASSUME NEW l \in Loops, RunFunctor(l) PROVE Parting'
      <3>0. Idle(l) /\ queue[l] # <<>> /\ l = BaseLoop /\ UNCHANGED <<server, ioLoop, forcing>>
        BY <2>0, <2>10 DEF RunFunctor, serverVars
      <3>1. PICK f, rest :
              /\ f = Head(queue[l]) /\ rest = [queue EXCEPT ![l] = Tail(@)]
              /\ f.op \in Ops /\ f.conn \in Conns /\ Has(f.op, f.conn)
              /\ l = Home(ioLoop, f.op, f.conn)
              /\ \A d \in Conns : HasIn(ioLoop, rest, "removeConnectionInLoop", d)
                                     => Has("removeConnectionInLoop", d)
        BY <1>0, <3>0, Popped, OpsFacts DEF Has
      <3>2. f.op # "removeConnectionInLoop"
        BY <2>0, <3>1
      <3>3. state_[f.conn] \notin {"kConnected", "kDisconnecting", "kConnecting"}
        BY <2>1, <3>0, <3>1, <3>2 DEF Idle, Home
      <3>4. f.op # "connectEstablished"
        BY <1>0, <3>1, <3>3 DEF Phases, Phase
      <3>5. queue' = rest /\ UNCHANGED <<connections_, closing, state_>>
        <4>1. \/ /\ f.op = "forceClose" /\ queue' = rest
                 /\ UNCHANGED <<state_, closing, connections_>>
              \/ /\ f.op = "connectDestroyed" /\ queue' = rest /\ connectDestroyed(f.conn)
                 /\ UNCHANGED <<connections_, closing>>
          BY <2>10, <3>1, <3>2, <3>3, <3>4 DEF RunFunctor
        <4> QED
          BY <1>0, <3>1, <3>3, <4>1 DEF connectDestroyed
      <3>6. \A c \in Conns : ~Has("removeConnectionInLoop", c)'
        BY <2>0, <3>0, <3>1, <3>5 DEF Has
      <3>7. \A m \in Loops \ {BaseLoop} : queue'[m] = <<>>
        BY <1>0, <2>0, <3>0, <3>1, <3>5 DEF Good
      <3> QED
        BY <2>0, <2>2, <3>0, <3>5, <3>6, <3>7
    <2> QED
      BY <2>4, <2>5, <2>6, <2>7, <2>8, <2>9, <2>10, <2>11 DEF Next, LoopStep, Destruction
  <1> QED
    BY <1>1, <1>2

\* What nobody holds is closed and out of its poller.
LEMMA InvReleased == ServerInv => ReleasedClosed
  <1> SUFFICES ASSUME ServerInv, NEW c \in 1..(nextConnId_ - 1), ~Alive(c)
               PROVE  state_[c] = "kDisconnected" /\ channel[c] = "kNew"
    BY DEF ReleasedClosed
  <1>1. /\ c \in Conns /\ ~(c >= nextConnId_) /\ ServerTypes /\ AtHome
    BY ServerAssumption DEF ServerInv, ServerTypes, Conns
  <1>2. Phase(c) /\ ioLoop[c] \in Loops
        /\ state_[c] \in {"none", "kConnecting", "kConnected", "kDisconnecting", "kDisconnected"}
    BY <1>1 DEF ServerInv, Phases, ServerTypes
  <1>3. ~Has("connectDestroyed", c)
    BY <1>2, FunctorFacts, OpsFacts, <1>1 DEF Alive, Has, HasIn, Home
  <1> QED
    BY <1>1, <1>2, <1>3 DEF Phase, Alive

\* As long as forceClose() is called in the loop of its connection, and
\* ~TcpServer() finds only connections of its own loop that are up and io loops
\* with nothing left to do, no assertion of the server, of a connection or of
\* a channel fails, no functor finds the server gone, and every connection is
\* closed when its last pointer goes.
THEOREM ServerAssertions ==
    ASSUME ForeignClose = FALSE, DestroyWith = {BaseLoop}, OwnerLeaves \subseteq {"kConnected"}
    PROVE  Spec => []ServerAssertionsHold
  <1> DEFINE Inv == ServerInv /\ Forced /\ Parting
  <1>1. Init => Inv
    BY ServerInvInit
  <1>2. Inv /\ [Next]_vars => Inv'
    <2> SUFFICES ASSUME Inv, [Next]_vars PROVE Inv'
      OBVIOUS
    <2>1. CASE UNCHANGED vars
      BY <2>1 DEF vars, serverVars, threadVars, connVars, ServerInv, ServerTypes, AtHome, Phases,
                  Phase, Closing, Has, Forced, Parting
    <2>2. CASE Next
      <3>1. Parting'
        BY <2>2, PartingKeeps
      <3>2. CASE ~Destruction
        BY <2>2, <3>1, <3>2, ServingKeeps, ForcedKeeps DEF Parting
      <3>3. CASE Destruction
        <4>1. server = "destroying" /\ server' # "up" /\ forcing' = forcing
          BY <3>3 DEF Destruction, DestroyConnection, LoopEnds, EndDestroy, serverVars, threadVars
        <4>2. Forced'
          BY <4>1 DEF Forced, Parting
        <4>3. ASSUME NEW c \in Conns, DestroyConnection(c) PROVE ServerInv'
          BY <4>3, DestroyConnectionKeeps
        <4>4. ASSUME NEW l \in Loops, LoopEnds(l) PROVE ServerInv'
          <5>1. l # BaseLoop
            BY <4>4 DEF LoopEnds, BaseLoop, ServerInv, ServerTypes
          <5>2. queue' = queue
            BY <4>1, <4>4, <5>1 DEF LoopEnds, Parting, ServerInv, AtHome, Good
          <5>3. ServerTypes'
            BY <4>4 DEF LoopEnds, ServerInv, ServerTypes, threadVars, connVars
          <5> QED
            BY <4>4, <5>2, <5>3, ServerFrame DEF LoopEnds, threadVars
        <4>5. ASSUME EndDestroy PROVE ServerInv'
          <5>1. ServerTypes'
            BY <4>5 DEF EndDestroy, ServerInv, ServerTypes, threadVars, connVars
          <5> QED
            BY <4>5, <5>1, ServerFrame DEF EndDestroy, threadVars
        <4> QED
          BY <3>1, <3>3, <4>2, <4>3, <4>4, <4>5 DEF Destruction
      <3> QED
        BY <3>2, <3>3
    <2> QED
      BY <2>1, <2>2
  <1>3. Inv => ServerAssertionsHold
    BY InvReleased DEF ServerInv, ServerAssertionsHold, Running
  <1> QED
    BY <1>1, <1>2, <1>3, PTL DEF Spec

=============================================================================
