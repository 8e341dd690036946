--------------------------- MODULE TcpClientProofs ---------------------------
(***************************************************************************)
(* Proofs about TcpClient and its Connector, for any number of calls and   *)
(* any retry delays.                                                       *)
(*                                                                         *)
(* The invariants come in layers.  ClientTypes, Stages and Accounted hold  *)
(* whatever the user does, Stopped unless another thread stops a client    *)
(* that reconnects, and Attempts, Pending and Lives for the users of       *)
(* ConnectorAssertions.                                                    *)
(***************************************************************************)
EXTENDS TcpClient, FiniteSetTheorems, SequenceTheorems, TLAPS

Delays == kInitRetryDelayMs..kMaxRetryDelayMs

Functors == {"startInLoop", "stopInLoop", "resetChannel", "connectDestroyed", "forceClose"}

Calls == {NoCall, <<"disconnect", 1>>} \cup ({"connect", "stop"} \X {1, 2})

\* The functors in the order in which they will run.
Queue == batch \o pending

Has(f, q) == \E i \in DOMAIN q : q[i] = f

Once(f, q) == \A i, j \in DOMAIN q : q[i] = f /\ q[j] = f => i = j

\* A start comes after every stop.
StopsFirst(q) ==
    \A i \in DOMAIN q : q[i] = "stopInLoop" => \E j \in DOMAIN q : j > i /\ q[j] = "startInLoop"

ClientTypes ==
    /\ connect_ \in BOOLEAN
    /\ state_ \in States
    /\ retryDelayMs_ \in Delays
    /\ channel_ \in {"null", "polled", "removed"}
    /\ timers \in Seq(Delays)
    /\ sockets \in Int
    /\ pending \in Seq(Functors)
    /\ clientConnect_ \in BOOLEAN
    /\ retry_ \in BOOLEAN
    /\ connection_ \in {"none", "up", "shut", "down"}
    /\ held \in BOOLEAN
    /\ client \in BOOLEAN
    /\ connector \in BOOLEAN
    /\ keeper \in BOOLEAN
    /\ lpc \in {"poll", "events", "functors"}
    /\ active \subseteq {"channel", "timer", "connection", "keeper"}
    /\ batch \in Seq(Functors)
    /\ todo \in {"none", "removeConnection", "restart"}
    /\ call \in Calls
    /\ wanted \in {"fresh", "yes", "no"}

\* Where the loop, the Connector and the connection are with respect to each
\* other; exactly the reset of a removed channel is queued.
Stages ==
    /\ lpc # "functors" => batch = <<>>
    /\ lpc # "events" => active = {}
    /\ connection_ # "none" => state_ = "kConnected"
    /\ "channel" \in active => state_ = "kConnecting"
    /\ "connection" \in active => connection_ \in {"up", "shut"}
    /\ todo = "removeConnection" => connection_ = "down"
    /\ todo = "restart" => connection_ = "none" /\ state_ = "kConnected" /\ client /\ retry_
    /\ channel_ = "polled" <=> state_ = "kConnecting"
    /\ Running => /\ Has("resetChannel", Queue) <=> channel_ = "removed"
                  /\ Once("resetChannel", Queue)

\* stop() and ~TcpClient() leave connect_ FALSE, or a Connector that has done
\* its work; restart() is not about to undo that.
Stopped ==
    /\ wanted = "no" => ~connect_ \/ (~client /\ state_ = "kConnected")
    /\ client /\ retry_ /\ clientConnect_ => wanted # "no"
    /\ todo = "restart" => wanted # "no"
    /\ call[1] = "stop" => ~retry_ /\ ~clientConnect_
    /\ call[1] = "stop" /\ call[2] = 2 => ~connect_
    /\ ~client => call = NoCall /\ wanted = "no"

\* connect() has been called, and its attempt has not begun.
Starting == call[1] = "connect" \/ Has("startInLoop", Queue)

\* At most one of connect(), a functor and a timer will start an attempt, and
\* no attempt is under way until it does; a queued stop is overtaken by none.
Attempts ==
    /\ wanted = "fresh" => /\ state_ = "kDisconnected" /\ channel_ = "null" /\ timers = <<>>
                           /\ ~Starting /\ ~Has("stopInLoop", Queue)
    /\ call[1] = "connect" => ~Has("startInLoop", Queue)
    /\ Once("startInLoop", Queue)
    /\ Starting => state_ = "kDisconnected" /\ channel_ = "null" /\ timers = <<>>
    /\ timers # <<>> => Len(timers) = 1 /\ state_ = "kDisconnected"
    /\ connect_ => StopsFirst(Queue) \/ call[1] = "connect"
    /\ client /\ retry_ /\ clientConnect_ => connect_ \/ wanted = "fresh" \/ call = <<"connect", 1>>
    /\ todo = "restart" => connect_ /\ channel_ = "null"

\* A timer or the end of a connection is only handled once the channel of the
\* attempt before has been reset.
Pending ==
    /\ "timer" \in active => timers # <<>> /\ channel_ = "null"
    /\ "connection" \in active => channel_ = "null"
    /\ todo = "removeConnection" => channel_ = "null" \/ ~client
    /\ (timers # <<>> \/ connection_ # "none") /\ lpc = "functors" => ~Has("resetChannel", pending)
    /\ (timers # <<>> \/ connection_ # "none") /\ lpc = "poll" => channel_ = "null"

\* What keeps the Connector alive while something of it is queued.
Lives ==
    /\ client \/ keeper \/ timers # <<>> => connector
    /\ \/ Has("startInLoop", Queue) \/ Has("stopInLoop", Queue) \/ Has("resetChannel", Queue)
       \/ channel_ # "null"
       => client \/ keeper
    /\ Has("forceClose", Queue) => ~client
    /\ client => ~keeper
    /\ keeper => ~connect_ /\ connection_ = "none"
    /\ "keeper" \in active => keeper /\ pending = <<>> /\ channel_ = "null"

-----------------------------------------------------------------------------
(* Lemmas about the queue and about the handlers of Connector.             *)

\* A functor is appended.
LEMMA AppendFacts ==
    ASSUME NEW q \in Seq(Functors), NEW f \in Functors
    PROVE  /\ Append(q, f) \in Seq(Functors)
           /\ \A g \in Functors : Has(g, Append(q, f)) <=> Has(g, q) \/ g = f
           /\ \A g \in Functors : Once(g, q) /\ (g = f => ~Has(g, q)) => Once(g, Append(q, f))
           /\ StopsFirst(q) /\ f # "stopInLoop" => StopsFirst(Append(q, f))
           /\ f = "startInLoop" => StopsFirst(Append(q, f))
  <1> PICK r : r = Append(q, f)
    OBVIOUS
  <1>1. /\ r \in Seq(Functors)
        /\ Len(r) = Len(q) + 1
        /\ \A i \in 1..Len(q) : r[i] = q[i]
        /\ r[Len(q) + 1] = f
    BY AppendProperties
  <1>2. DOMAIN r = 1..(Len(q) + 1) /\ DOMAIN q = 1..Len(q) /\ Len(q) \in Nat
    BY <1>1, LenProperties
  <1>3. \A g \in Functors : Has(g, r) <=> Has(g, q) \/ g = f
    BY <1>1, <1>2 DEF Has
  <1>4. \A g \in Functors : Once(g, q) /\ (g = f => ~Has(g, q)) => Once(g, r)
    BY <1>1, <1>2 DEF Has, Once
  <1>5. StopsFirst(q) /\ f # "stopInLoop" => StopsFirst(r)
    BY <1>1, <1>2 DEF StopsFirst
  <1>6. f = "startInLoop" => StopsFirst(r)
    BY <1>1, <1>2 DEF StopsFirst
  <1> QED
    BY <1>1, <1>3, <1>4, <1>5, <1>6

\* The first functor is taken.
LEMMA TailFacts ==
    ASSUME NEW q \in Seq(Functors), q # <<>>
    PROVE  /\ Tail(q) \in Seq(Functors)
           /\ Head(q) \in Functors
           /\ Has(Head(q), q)
           /\ \A g \in Functors : Has(g, q) <=> Has(g, Tail(q)) \/ Head(q) = g
           /\ \A g \in Functors : Once(g, q) => /\ Once(g, Tail(q))
                                                /\ Head(q) = g => ~Has(g, Tail(q))
           /\ StopsFirst(q) => StopsFirst(Tail(q))
           /\ StopsFirst(q) /\ Head(q) = "startInLoop" /\ Once("startInLoop", q)
                => ~Has("stopInLoop", Tail(q))
  <1> PICK r : r = Tail(q)
    OBVIOUS
  <1>1. /\ r \in Seq(Functors)
        /\ Len(r) = Len(q) - 1
        /\ \A i \in 1..Len(r) : r[i] = q[i + 1]
        /\ Head(q) = q[1] /\ Head(q) \in Functors
    BY HeadTailProperties
  <1>2. DOMAIN r = 1..(Len(q) - 1) /\ DOMAIN q = 1..Len(q) /\ Len(q) \in Nat \ {0}
    BY <1>1, LenProperties, EmptySeq
  <1>3. Has(Head(q), q)
    BY <1>1, <1>2 DEF Has
  <1>4. ASSUME NEW g \in Functors, Has(g, q), Head(q) # g PROVE Has(g, r)
    <2> PICK i \in DOMAIN q : q[i] = g
      BY <1>4 DEF Has
    <2>1. i - 1 \in DOMAIN r /\ r[i - 1] = g
      BY <1>1, <1>2, <1>4
    <2> QED
      BY <2>1 DEF Has
  <1>5. ASSUME NEW g \in Functors, Has(g, r) PROVE Has(g, q)
    <2> PICK i \in DOMAIN r : r[i] = g
      BY <1>5 DEF Has
    <2>1. i + 1 \in DOMAIN q /\ q[i + 1] = g
      BY <1>1, <1>2
    <2> QED
      BY <2>1 DEF Has
  <1>6. ASSUME NEW g \in Functors, Once(g, q) PROVE Once(g, r) /\ (Head(q) = g => ~Has(g, r))
    <2>1. \A i \in DOMAIN r : i + 1 \in DOMAIN q /\ r[i] = q[i + 1] /\ i + 1 # 1
      BY <1>1, <1>2
    <2>2. Once(g, r)
      BY <2>1, <1>2, <1>6 DEF Once
    <2>3. ASSUME Head(q) = g, Has(g, r) PROVE FALSE
      <3> PICK i \in DOMAIN r : r[i] = g
        BY <2>3 DEF Has
      <3>1. q[i + 1] = g /\ q[1] = g /\ 1 \in DOMAIN q
        BY <2>1, <2>3, <1>1, <1>2
      <3> QED
        BY <3>1, <2>1, <1>6 DEF Once
    <2> QED
      BY <2>2, <2>3
  <1>7. ASSUME StopsFirst(q) PROVE StopsFirst(r)
    <2> SUFFICES ASSUME NEW i \in DOMAIN r, r[i] = "stopInLoop"
                 PROVE  \E j \in DOMAIN r : j > i /\ r[j] = "startInLoop"
      BY DEF StopsFirst
    <2>1. i + 1 \in DOMAIN q /\ q[i + 1] = "stopInLoop"
      BY <1>1, <1>2
    <2> PICK j \in DOMAIN q : j > i + 1 /\ q[j] = "startInLoop"
      BY <2>1, <1>7 DEF StopsFirst
    <2>2. j - 1 \in DOMAIN r /\ r[j - 1] = "startInLoop" /\ j - 1 > i
      BY <1>1, <1>2
    <2> QED
      BY <2>2
  <1>8. ASSUME StopsFirst(q), Head(q) = "startInLoop", Once("startInLoop", q), Has("stopInLoop", r)
        PROVE  FALSE
    <2>1. Has("stopInLoop", q)
      BY <1>5, <1>8 DEF Functors
    <2> PICK i \in DOMAIN q : q[i] = "stopInLoop"
      BY <2>1 DEF Has
    <2> PICK j \in DOMAIN q : j > i /\ q[j] = "startInLoop"
      BY <1>8 DEF StopsFirst
    <2>2. 1 \in DOMAIN q /\ q[1] = "startInLoop" /\ j # 1
      BY <1>1, <1>2, <1>8
    <2> QED
      BY <2>2, <1>8 DEF Once
  <1> QED
    BY <1>1, <1>3, <1>4, <1>5, <1>6, <1>7, <1>8

\* The functors being run and those waiting, as one sequence.
LEMMA ConcatFacts ==
    ASSUME NEW b \in Seq(Functors), NEW p \in Seq(Functors)
    PROVE  /\ b \o p \in Seq(Functors)
           /\ <<>> \o p = p
           /\ b \o <<>> = b
           /\ \A f \in Functors : b \o Append(p, f) = Append(b \o p, f)
           /\ \A g \in Functors : Has(g, b \o p) <=> Has(g, b) \/ Has(g, p)
           /\ b # <<>> => /\ b \o p # <<>>
                          /\ Head(b \o p) = Head(b)
                          /\ Tail(b) \o p = Tail(b \o p)
                          /\ Tail(b) \in Seq(Functors)
  <1> PICK r : r = b \o p
    OBVIOUS
  <1>1. /\ r \in Seq(Functors)
        /\ Len(r) = Len(b) + Len(p)
        /\ \A i \in 1..Len(b) : r[i] = b[i]
        /\ \A i \in 1..Len(p) : r[Len(b) + i] = p[i]
    BY ConcatProperties
  <1>2. /\ DOMAIN r = 1..(Len(b) + Len(p)) /\ DOMAIN b = 1..Len(b) /\ DOMAIN p = 1..Len(p)
        /\ Len(b) \in Nat /\ Len(p) \in Nat
    BY <1>1, LenProperties
  <1>3. <<>> \o p = p /\ b \o <<>> = b
    BY ConcatEmptySeq
  <1>4. ASSUME NEW f \in Functors PROVE b \o Append(p, f) = Append(r, f)
    <2>1. \A x, y, z \in Seq(Functors) : (x \o y) \o z = x \o (y \o z)
      <3>1. ASSUME NEW S PROVE \A x, y, z \in Seq(S) : (x \o y) \o z = x \o (y \o z)
        BY ConcatAssociative, SMTT(40)
      <3> QED
        BY <3>1, SMTT(40)
    <2> PICK e : e = <<f>>
      OBVIOUS
    <2>2. e \in Seq(Functors) /\ Append(p, f) = p \o e /\ Append(r, f) = r \o e
      BY <1>1, AppendIsConcat
    <2> QED
      BY <2>1, <2>2
  <1>5. ASSUME NEW g \in Functors PROVE Has(g, r) <=> Has(g, b) \/ Has(g, p)
    <2>1. ASSUME Has(g, b) PROVE Has(g, r)
      BY <2>1, <1>1, <1>2 DEF Has
    <2>2. ASSUME Has(g, p) PROVE Has(g, r)
      <3> PICK i \in DOMAIN p : p[i] = g
        BY <2>2 DEF Has
      <3>1. Len(b) + i \in DOMAIN r /\ r[Len(b) + i] = g
        BY <1>1, <1>2
      <3> QED
        BY <3>1 DEF Has
    <2>3. ASSUME Has(g, r) PROVE Has(g, b) \/ Has(g, p)
      <3> PICK i \in DOMAIN r : r[i] = g
        BY <2>3 DEF Has
      <3>1. CASE i \in 1..Len(b)
        BY <3>1, <1>1, <1>2 DEF Has
      <3>2. CASE i \notin 1..Len(b)
        <4>1. i - Len(b) \in DOMAIN p /\ Len(b) + (i - Len(b)) = i
          BY <3>2, <1>2
        <4>2. p[i - Len(b)] = g
          BY <4>1, <1>1, <1>2
        <4> QED
          BY <4>1, <4>2 DEF Has
      <3> QED
        BY <3>1, <3>2
    <2> QED
      BY <2>1, <2>2, <2>3
  <1>6. ASSUME b # <<>>
        PROVE  r # <<>> /\ Head(r) = Head(b) /\ Tail(b) \o p = Tail(r) /\ Tail(b) \in Seq(Functors)
    <2>1. Len(b) # 0
      BY <1>6, EmptySeq
    <2>2. r # <<>>
      BY <1>1, <1>2, <2>1, EmptySeq
    <2>3. Head(r) = Head(b)
      BY <2>1, <2>2, <1>1, <1>2, <1>6, HeadTailProperties
    <2> PICK t : t = Tail(b)
      OBVIOUS
    <2> PICK u : u = Tail(r)
      OBVIOUS
    <2>4. /\ t \in Seq(Functors) /\ Len(t) = Len(b) - 1 /\ \A i \in 1..Len(t) : t[i] = b[i + 1]
          /\ u \in Seq(Functors) /\ Len(u) = Len(r) - 1 /\ \A i \in 1..Len(u) : u[i] = r[i + 1]
      BY <1>1, <1>6, <2>2, HeadTailProperties
    <2> PICK v : v = t \o p
      OBVIOUS
    <2>5. /\ v \in Seq(Functors) /\ Len(v) = Len(t) + Len(p)
          /\ \A i \in 1..Len(t) : v[i] = t[i]
          /\ \A i \in 1..Len(p) : v[Len(t) + i] = p[i]
      BY <2>4, ConcatProperties
    <2>6. Len(v) = Len(u)
      BY <2>4, <2>5, <1>1, <1>2
    <2>7. ASSUME NEW i \in 1..Len(v) PROVE v[i] = u[i]
      <3>1. CASE i \in 1..Len(t)
        BY <3>1, <2>1, <2>4, <2>5, <2>6, <1>1, <1>2
      <3>2. CASE i \notin 1..Len(t)
        <4>1. i - Len(t) \in 1..Len(p) /\ Len(t) + (i - Len(t)) = i /\ i + 1 = Len(b) + (i - Len(t))
          BY <3>2, <2>1, <2>4, <2>5, <1>2
        <4>2. v[i] = p[i - Len(t)]
          BY <4>1, <2>5
        <4>3. r[i + 1] = p[i - Len(t)]
          BY <4>1, <1>1
        <4> QED
          BY <4>2, <4>3, <2>4, <2>6
      <3> QED
        BY <3>1, <3>2
    <2>8. v = u
      BY <2>4, <2>5, <2>6, <2>7, SeqEqual
    <2> QED
      BY <2>2, <2>3, <2>4, <2>8
  <1> QED
    BY <1>1, <1>3, <1>4, <1>5, <1>6

\* connect(2) is tried, ts being the timers left: an attempt is under way, or
\* there is none, and perhaps a timer for the next.
Begun(ts) ==
    /\ state_' = "kConnecting" /\ channel_' = "polled"
    /\ sockets' = sockets + 1 /\ timers' = ts
    /\ Running' <=> channel_ = "null"

Idle(ts) ==
    /\ state_' = "kDisconnected"
    /\ \/ timers' = ts
       \/ \E d \in Delays : timers' = Append(ts, d)
    /\ UNCHANGED <<channel_, sockets, failed>>

LEMMA DelayFacts ==
    /\ kInitRetryDelayMs \in Delays
    /\ \A d \in Delays : NextDelay(d) \in Delays
    /\ \A ts \in Seq(Delays), d \in Delays : Append(ts, d) \in Seq(Delays)
  <1>1. \A ts \in Seq(Delays), d \in Delays : Append(ts, d) \in Seq(Delays)
    BY AppendProperties
  <1>2. kInitRetryDelayMs \in Delays /\ \A d \in Delays : NextDelay(d) \in Delays
    BY RetryDelayAssumption DEF Delays, NextDelay
  <1> QED
    BY <1>1, <1>2

LEMMA ConnectCases ==
    ASSUME Running, NEW w, NEW o \in Outcomes, NEW d \in Delays, NEW ts \in Seq(Delays),
           connect(w, o, d, ts)
    PROVE  /\ connect_' = w
           /\ retryDelayMs_' \in Delays
           /\ timers' \in Seq(Delays)
           /\ \/ Begun(ts)
              \/ /\ state_' = "kDisconnected"
                 /\ timers' = ts \/ (w /\ timers' = Append(ts, d))
                 /\ UNCHANGED <<channel_, sockets, failed>>
  <1>1. CASE o = "inProgress"
    BY <1>1 DEF connect, connecting, Asserts, Running, Begun
  <1>2. CASE o = "tryAgain"
    BY <1>2, DelayFacts DEF connect, scheduleRetry
  <1>3. CASE o = "fatal"
    BY <1>3 DEF connect
  <1> QED
    BY <1>1, <1>2, <1>3 DEF Outcomes

LEMMA StartCases ==
    ASSUME Running, retryDelayMs_ \in Delays, NEW w \in BOOLEAN, NEW o \in Outcomes,
           NEW ts \in Seq(Delays), startInLoop(w, o, ts)
    PROVE  /\ connect_' = w
           /\ retryDelayMs_' \in Delays
           /\ timers' \in Seq(Delays)
           /\ \/ state_ = "kDisconnected" /\ w /\ (Begun(ts) \/ Idle(ts))
              \/ /\ UNCHANGED <<state_, channel_, sockets>>
                 /\ timers' = ts
                 /\ Running' <=> state_ = "kDisconnected"
  <1>1. CASE state_ = "kDisconnected" /\ w
    <2>1. connect(TRUE, o, retryDelayMs_, ts)
      BY <1>1 DEF startInLoop
    <2> QED
      BY <1>1, <2>1, ConnectCases DEF Idle
  <1>2. CASE ~(state_ = "kDisconnected" /\ w)
    BY <1>2 DEF startInLoop, Asserts, Running
  <1> QED
    BY <1>1, <1>2

LEMMA RestartCases ==
    ASSUME Running, timers \in Seq(Delays), NEW o \in Outcomes, restart(o)
    PROVE  /\ connect_' = TRUE
           /\ retryDelayMs_' \in Delays
           /\ timers' \in Seq(Delays)
           /\ Begun(timers) \/ Idle(timers)
           /\ timers' = timers \/ timers' = Append(timers, kInitRetryDelayMs)
  <1>1. connect(TRUE, o, kInitRetryDelayMs, timers) /\ kInitRetryDelayMs \in Delays
    BY DelayFacts DEF restart
  <1> QED
    BY <1>1, ConnectCases DEF Idle, Begun

LEMMA AbandonFacts ==
    ASSUME retryDelayMs_ \in Delays, timers \in Seq(Delays), abandon
    PROVE  /\ state_' = "kDisconnected"
           /\ channel_' = "removed"
           /\ pending' = Append(pending, "resetChannel")
           /\ sockets' = sockets - 1
           /\ connect_' = connect_ /\ failed' = failed
           /\ retryDelayMs_' \in Delays
           /\ timers' \in Seq(Delays)
           /\ \/ connect_ /\ \E d \in Delays : timers' = Append(timers, d)
              \/ timers' = timers
  BY DelayFacts DEF abandon, removeAndResetChannel, scheduleRetry

\* One timer taken out.
LEMMA TimerFacts ==
    ASSUME NEW ts \in Seq(Delays), NEW i \in DOMAIN ts
    PROVE  /\ SubSeq(ts, 1, i - 1) \o SubSeq(ts, i + 1, Len(ts)) \in Seq(Delays)
           /\ Len(SubSeq(ts, 1, i - 1) \o SubSeq(ts, i + 1, Len(ts))) = Len(ts) - 1
  <1> PICK n : n = Len(ts)
    OBVIOUS
  <1>1. n \in Nat /\ i \in 1..n
    BY LenProperties
  <1> PICK r : r = SubSeq(ts, 1, i - 1)
    OBVIOUS
  <1> PICK t : t = SubSeq(ts, i + 1, n)
    OBVIOUS
  <1>2. r \in Seq(Delays) /\ Len(r) = i - 1
    BY <1>1, SubSeqProperties
  <1>3. t \in Seq(Delays) /\ Len(t) = n - i
    BY <1>1, SubSeqProperties
  <1>4. r \o t \in Seq(Delays) /\ Len(r \o t) = Len(r) + Len(t)
    BY <1>2, <1>3, ConcatProperties
  <1> QED
    BY <1>1, <1>2, <1>3, <1>4, SMTT(40)

LEMMA FunctorFacts ==
    /\ \A f \in Functors : Append(pending, f) \in Seq(Functors) \/ pending \notin Seq(Functors)
    /\ batch \in Seq(Functors) /\ batch # <<>> => Tail(batch) \in Seq(Functors)
  BY AppendProperties, HeadTailProperties

LEMMA CallFacts ==
    /\ NoCall \in Calls /\ NoCall[1] = "none" /\ NoCall[2] = 0
    /\ \A op \in {"connect", "stop"} : <<op, 2>> \in Calls
    /\ \A op \in {"connect", "disconnect", "stop"}, n \in {1, 2} :
         <<op, 1>> \in Calls /\ <<op, n>>[1] = op /\ <<op, n>>[2] = n
    /\ \A c \in Calls : c # NoCall => /\ c[1] \in {"connect", "disconnect", "stop"} /\ c[2] \in {1, 2}
                                      /\ c[1] = "disconnect" => c[2] = 1
  BY DEF Calls, NoCall

LEMMA TypesInit == Init => ClientTypes
  <1> SUFFICES ASSUME Init PROVE ClientTypes
    OBVIOUS
  <1>1. /\ connect_ \in BOOLEAN /\ clientConnect_ \in BOOLEAN /\ retry_ \in BOOLEAN /\ held \in BOOLEAN
        /\ client \in BOOLEAN /\ connector \in BOOLEAN /\ keeper \in BOOLEAN
    BY Zenon DEF Init, ConnectorInit
  <1>2. timers \in Seq(Delays) /\ pending \in Seq(Functors) /\ batch \in Seq(Functors)
    BY DEF Init, ConnectorInit
  <1> QED
    BY <1>1, <1>2, DelayFacts, CallFacts DEF Init, ConnectorInit, ClientTypes, States

LEMMA TypesStep == ClientTypes /\ [Next]_vars => ClientTypes'
  <1> SUFFICES ASSUME ClientTypes, [Next]_vars PROVE ClientTypes'
    OBVIOUS
  <1> USE DEF ClientTypes, connectorVars, clientVars, loopVars, userVars
  <1>a. {"startInLoop", "stopInLoop", "resetChannel", "connectDestroyed", "forceClose"}
          \subseteq Functors
    BY DEF Functors
  <1>b. ASSUME abandon
        PROVE  /\ connect_' \in BOOLEAN /\ state_' \in States /\ retryDelayMs_' \in Delays
               /\ channel_' \in {"null", "polled", "removed"} /\ timers' \in Seq(Delays)
               /\ sockets' \in Int /\ pending' \in Seq(Functors)
    <2>1. pending' = Append(pending, "resetChannel") /\ connect_' = connect_
      BY <1>b, AbandonFacts
    <2>2. pending' \in Seq(Functors)
      BY <2>1, <1>a, FunctorFacts
    <2> QED
      BY <1>b, <2>1, <2>2, AbandonFacts DEF States
  <1>1. ASSUME NEW op \in {"startInLoop", "stopInLoop", "resetChannel"}, NEW o \in Outcomes,
               RunConnector(op, o)
        PROVE  ClientTypes'
    <2>1. /\ batch' \in Seq(Functors) /\ lpc' = lpc /\ active' = active /\ Running
          /\ UNCHANGED <<clientVars, todo, userVars>>
      BY <1>1, FunctorFacts DEF RunConnector, Run
    <2>2. CASE ~connector
      <3>1. UNCHANGED <<connectorVars, pending, clientVars, todo, userVars>>
        BY <1>1, <2>2, Zenon DEF RunConnector
      <3> QED
        BY <2>1, <3>1
    <2>3. CASE connector /\ startInLoop(connect_, o, timers) /\ pending' = pending
      <3>1. /\ connect_' = connect_
            /\ retryDelayMs_' \in Delays
            /\ timers' \in Seq(Delays)
            /\ \/ Begun(timers) \/ Idle(timers)
               \/ UNCHANGED <<state_, channel_, sockets>>
        BY <2>1, <2>3, StartCases
      <3> QED
        BY <1>1, <2>1, <2>3, <3>1 DEF RunConnector, Begun, Idle, States
    <2>4. CASE connector /\ stopInLoop
      <3>1. CASE state_ = "kConnecting"
        <4>1. abandon
          BY <2>4, <3>1 DEF stopInLoop
        <4> QED
          BY <2>1, <4>1, <1>b
      <3>2. CASE state_ # "kConnecting"
        BY <1>1, <2>1, <2>4, <3>2 DEF RunConnector, stopInLoop
      <3> QED
        BY <3>1, <3>2
    <2>5. CASE connector /\ resetChannel /\ pending' = pending
      BY <1>1, <2>1, <2>5 DEF RunConnector, resetChannel
    <2> QED
      BY <1>1, <2>2, <2>3, <2>4, <2>5 DEF RunConnector
  <1>2. ASSUME NEW o \in Outcomes, RetryTimer(o) PROVE ClientTypes'
    <2>1. PICK i \in DOMAIN timers :
            startInLoop(connect_, o, SubSeq(timers, 1, i - 1) \o SubSeq(timers, i + 1, Len(timers)))
      BY <1>2 DEF RetryTimer
    <2>2. PICK ts : ts = SubSeq(timers, 1, i - 1) \o SubSeq(timers, i + 1, Len(timers))
      OBVIOUS
    <2>3. ts \in Seq(Delays) /\ startInLoop(connect_, o, ts) /\ Running
      BY <1>2, <2>1, <2>2, TimerFacts DEF RetryTimer, Dispatch
    <2>4. /\ connect_' = connect_
          /\ retryDelayMs_' \in Delays
          /\ timers' \in Seq(Delays)
          /\ \/ Begun(ts) \/ Idle(ts)
             \/ UNCHANGED <<state_, channel_, sockets>>
      BY <2>3, StartCases
    <2>5. connector' \in BOOLEAN
      BY <1>2, Zenon DEF RetryTimer
    <2> QED
      BY <1>2, <2>4, <2>5 DEF RetryTimer, Dispatch, Begun, Idle, States
  <1>3. CASE ChannelError
    <2>1. CASE state_ = "kConnecting"
      <3>1. abandon
        BY <1>3, <2>1 DEF ChannelError, handleError
      <3> QED
        BY <1>3, <3>1, <1>b DEF ChannelError, Dispatch
    <2>2. CASE state_ # "kConnecting"
      BY <1>3, <2>2 DEF ChannelError, Dispatch, handleError
    <2> QED
      BY <2>1, <2>2
  <1>4. ASSUME NEW good \in BOOLEAN, NEW keep \in BOOLEAN, ChannelWritable(good, keep)
        PROVE  ClientTypes'
    <2>1. connection_' \in {"none", "up", "shut", "down"} /\ held' \in BOOLEAN
      BY <1>4 DEF ChannelWritable, newConnection
    <2>2. CASE state_ = "kConnecting" /\ good
      BY <1>4, <2>1, <2>2, <1>a, FunctorFacts, SMTT(40)
         DEF ChannelWritable, Dispatch, handleWrite, removeAndResetChannel, States
    <2>3. CASE state_ = "kConnecting" /\ ~good
      <3>1. abandon
        BY <1>4, <2>3 DEF ChannelWritable, handleWrite
      <3> QED
        BY <1>4, <2>1, <3>1, <1>b DEF ChannelWritable, Dispatch
    <2>4. CASE state_ # "kConnecting"
      BY <1>4, <2>1, <2>4 DEF ChannelWritable, Dispatch, handleWrite
    <2> QED
      BY <2>2, <2>3, <2>4
  <1>5. CASE KeeperTimer
    <2>1. connector' \in BOOLEAN
      BY <1>5, Zenon DEF KeeperTimer
    <2> QED
      BY <1>5, <2>1, ZenonT(60) DEF KeeperTimer, Dispatch
  <1>6. CASE doPendingFunctors
    BY <1>6 DEF doPendingFunctors
  <1>7. CASE EndFunctors
    BY <1>7 DEF EndFunctors
  <1>8. CASE PeerCloses
    BY <1>8 DEF PeerCloses, Dispatch, ConnectionDown
  <1>9. CASE ForceClose
    <2>1. batch' \in Seq(Functors) /\ UNCHANGED <<lpc, active>>
      BY <1>9, FunctorFacts DEF ForceClose, Run
    <2>2. CASE ConnectionDown
      BY <2>1, <2>2, ZenonT(60) DEF ConnectionDown
    <2>3. CASE UNCHANGED <<connectorVars, pending, failed, clientVars, todo, userVars>>
      BY <2>1, <2>3
    <2> QED
      BY <1>9, <2>2, <2>3 DEF ForceClose
  <1>10. CASE removeConnection
    BY <1>10, <1>a, FunctorFacts DEF removeConnection
  <1>11. CASE connectDestroyed
    BY <1>11, FunctorFacts DEF connectDestroyed, Run
  <1>12. ASSUME NEW o \in Outcomes, Restart(o) PROVE ClientTypes'
    <2>1. /\ connect_' = TRUE
          /\ retryDelayMs_' \in Delays
          /\ timers' \in Seq(Delays)
          /\ Begun(timers) \/ Idle(timers)
      BY <1>12, RestartCases DEF Restart
    <2> QED
      BY <1>12, <2>1 DEF Restart, Begun, Idle, States
  <1>13. ASSUME NEW ready \in SUBSET Sources, Poll(ready) PROVE ClientTypes'
    BY <1>13 DEF Poll, Sources
  <1>14. ASSUME NEW op \in LoopCalls, NEW o \in Outcomes, LoopCall(op, o) PROVE ClientTypes'
    <2>1. /\ wanted' \in {"fresh", "yes", "no"}
          /\ Running /\ UNCHANGED <<retry_, held, client, connector, keeper, loopVars, call>>
      BY <1>14 DEF LoopCall, MayCall, Word
    <2>2. clientConnect_' \in BOOLEAN
      BY <1>14, Zenon DEF LoopCall
    <2>3. CASE startInLoop(TRUE, o, timers) /\ UNCHANGED <<pending, connection_>>
      <3>1. /\ connect_' = TRUE
            /\ retryDelayMs_' \in Delays
            /\ timers' \in Seq(Delays)
            /\ \/ Begun(timers) \/ Idle(timers)
               \/ UNCHANGED <<state_, channel_, sockets>>
        BY <2>1, <2>3, StartCases
      <3> QED
        BY <2>1, <2>2, <2>3, <3>1 DEF Begun, Idle, States
    <2>4. CASE Shutdown /\ UNCHANGED <<connectorVars, pending, failed>>
      BY <2>1, <2>2, <2>4 DEF Shutdown
    <2>5. CASE /\ connect_' = FALSE
               /\ pending' = Append(pending, "stopInLoop")
               /\ UNCHANGED <<state_, retryDelayMs_, channel_, timers, sockets, waited, gaveUp, failed,
                              connection_>>
      BY <2>1, <2>2, <2>5, <1>a, FunctorFacts, ZenonT(60)
    <2> QED
      BY <1>14, <2>3, <2>4, <2>5 DEF LoopCall
  <1>15. CASE DestroyClient
    <2>1. connector' \in BOOLEAN
      BY <1>15, Zenon DEF DestroyClient
    <2>2. pending' \in Seq(Functors)
      BY <1>15, <1>a, FunctorFacts DEF DestroyClient
    <2> QED
      BY <1>15, <2>1, <2>2, ZenonT(60) DEF DestroyClient
  <1>16. ASSUME NEW op \in ForeignCalls, ForeignCall(op) PROVE ClientTypes'
    <2>1. clientConnect_' \in BOOLEAN
      BY <1>16, Zenon DEF ForeignCall
    <2>2. op \in {"connect", "disconnect", "stop"}
      BY ClientCallsAssumption DEF ClientCalls
    <2>3. call' \in Calls /\ wanted' \in {"fresh", "yes", "no"}
      BY <1>16, <2>2, CallFacts DEF ForeignCall
    <2> QED
      BY <1>16, <2>1, <2>3 DEF ForeignCall
  <1>17. CASE ForeignSet
    <2>1. call[1] \in {"connect", "disconnect", "stop"}
      BY <1>17, CallFacts DEF ForeignSet
    <2>2. connect_' \in BOOLEAN
      BY <1>17, Zenon DEF ForeignSet
    <2>3. call' \in Calls
      <3>1. call' \in {NoCall, <<"connect", 2>>, <<"stop", 2>>}
        BY <1>17, <2>1 DEF ForeignSet
      <3> QED
        BY <3>1, CallFacts
    <2>4. connection_' \in {"none", "up", "shut", "down"} /\ wanted' \in {"fresh", "yes", "no"}
      BY <1>17 DEF ForeignSet, Shutdown
    <2> QED
      BY <1>17, <2>2, <2>3, <2>4 DEF ForeignSet
  <1>18. CASE ForeignQueue
    BY <1>18, <1>a, FunctorFacts, CallFacts DEF ForeignQueue
  <1>19. CASE UNCHANGED vars
    BY <1>19 DEF vars
  <1> QED
    BY <1>1, <1>2, <1>3, <1>4, <1>5, <1>6, <1>7, <1>8, <1>9, <1>10, <1>11, <1>12, <1>13, <1>14,
       <1>15, <1>16, <1>17, <1>18, <1>19 DEF Next, LoopStep, ConnectorStep

LEMMA TypesInvariance == Spec => []ClientTypes
  BY TypesInit, TypesStep, PTL DEF Spec

-----------------------------------------------------------------------------
(* The stages of an attempt, and the sockets.                              *)

Dying(q) == {i \in DOMAIN q : q[i] = "connectDestroyed"}

One(p) == IF p THEN 1 ELSE 0

LEMMA DyingFinite ==
    ASSUME NEW q \in Seq(Functors)
    PROVE  IsFiniteSet(Dying(q)) /\ Cardinality(Dying(q)) \in Nat
  <1>1. IsFiniteSet(1..Len(q)) /\ DOMAIN q = 1..Len(q)
    BY FS_Interval, LenProperties
  <1>2. Dying(q) \in SUBSET (1..Len(q))
    BY <1>1 DEF Dying
  <1> QED
    BY <1>1, <1>2, FS_Subset, FS_CardinalityType

LEMMA DyingAppend ==
    ASSUME NEW q \in Seq(Functors), NEW f \in Functors
    PROVE  Cardinality(Dying(Append(q, f)))
             = Cardinality(Dying(q)) + One(f = "connectDestroyed")
  <1> PICK r : r = Append(q, f)
    OBVIOUS
  <1>1. /\ r \in Seq(Functors)
        /\ Len(r) = Len(q) + 1
        /\ \A i \in 1..Len(q) : r[i] = q[i]
        /\ r[Len(q) + 1] = f
    BY AppendProperties
  <1>2. DOMAIN r = 1..(Len(q) + 1) /\ DOMAIN q = 1..Len(q) /\ Len(q) \in Nat
    BY <1>1, LenProperties
  <1>3. CASE f = "connectDestroyed"
    <2>1. Dying(r) = Dying(q) \cup {Len(q) + 1} /\ Len(q) + 1 \notin Dying(q)
      BY <1>1, <1>2, <1>3 DEF Dying
    <2>2. IsFiniteSet(Dying(q)) /\ Cardinality(Dying(q)) \in Nat
      BY DyingFinite
    <2>3. Cardinality(Dying(r)) = Cardinality(Dying(q)) + 1
      BY <2>1, <2>2, FS_AddElement
    <2> QED
      BY <2>3, <1>3 DEF One
  <1>4. CASE f # "connectDestroyed"
    <2>1. Dying(r) = Dying(q)
      BY <1>1, <1>2, <1>4 DEF Dying
    <2>2. Cardinality(Dying(q)) \in Nat
      BY DyingFinite
    <2> QED
      BY <2>1, <2>2, <1>4 DEF One
  <1> QED
    BY <1>3, <1>4

LEMMA DyingTail ==
    ASSUME NEW q \in Seq(Functors), q # <<>>
    PROVE  Cardinality(Dying(Tail(q)))
             = Cardinality(Dying(q)) - One(Head(q) = "connectDestroyed")
  <1> PICK r : r = Tail(q)
    OBVIOUS
  <1>1. /\ r \in Seq(Functors)
        /\ Len(r) = Len(q) - 1
        /\ \A i \in 1..Len(r) : r[i] = q[i + 1]
        /\ Head(q) = q[1]
    BY HeadTailProperties
  <1>2. DOMAIN r = 1..(Len(q) - 1) /\ DOMAIN q = 1..Len(q) /\ Len(q) \in Nat \ {0}
    BY <1>1, LenProperties, EmptySeq
  <1> PICK S : S = Dying(r)
    OBVIOUS
  <1> PICK T : T = Dying(q) \ {1}
    OBVIOUS
  <1> PICK m : m = [i \in S |-> i + 1]
    OBVIOUS
  <1>3. ASSUME NEW i \in S PROVE i \in Int /\ i + 1 \in T
    BY <1>1, <1>2 DEF Dying
  <1>4. ASSUME NEW j \in T PROVE j - 1 \in S /\ (j - 1) + 1 = j
    BY <1>1, <1>2 DEF Dying
  <1>5. m \in [S -> T] /\ \A i, j \in S : m[i] = m[j] => i = j
    BY <1>3
  <1>6. \A j \in T : \E i \in S : m[i] = j
    BY <1>4
  <1>7. m \in Injection(S, T) /\ m \in Surjection(S, T)
    BY <1>5, <1>6 DEF Injection, IsInjective, Surjection
  <1>8. ExistsBijection(S, T)
    BY <1>7 DEF ExistsBijection, Bijection
  <1>9. IsFiniteSet(S) /\ IsFiniteSet(Dying(q)) /\ Cardinality(Dying(q)) \in Nat
    BY <1>1, DyingFinite
  <1>10. Cardinality(T) = Cardinality(S)
    BY <1>8, <1>9, FS_Bijection
  <1>11. 1 \in Dying(q) <=> Head(q) = "connectDestroyed"
    BY <1>1, <1>2 DEF Dying
  <1>12. Cardinality(T) = IF 1 \in Dying(q) THEN Cardinality(Dying(q)) - 1 ELSE Cardinality(Dying(q))
    BY <1>9, FS_RemoveElement
  <1>13. CASE Head(q) = "connectDestroyed"
    BY <1>10, <1>11, <1>12, <1>13 DEF One
  <1>14. CASE Head(q) # "connectDestroyed"
    BY <1>9, <1>10, <1>11, <1>12, <1>14 DEF One
  <1> QED
    BY <1>13, <1>14

\* What follows when a functor is queued,
LEMMA Pushed ==
    ASSUME ClientTypes, NEW f \in Functors, batch' = batch, pending' = Append(pending, f)
    PROVE  /\ \A g \in Functors : Has(g, Queue') <=> Has(g, Queue) \/ g = f
           /\ \A g \in Functors : Once(g, Queue) /\ (g = f => ~Has(g, Queue)) => Once(g, Queue')
           /\ StopsFirst(Queue) /\ f # "stopInLoop" => StopsFirst(Queue')
           /\ f = "startInLoop" => StopsFirst(Queue')
           /\ Cardinality(Dying(Queue')) = Cardinality(Dying(Queue)) + One(f = "connectDestroyed")
  <1>1. Queue \in Seq(Functors) /\ Queue' = Append(Queue, f)
    BY ConcatFacts DEF ClientTypes, Queue
  <1> QED
    BY <1>1, AppendFacts, DyingAppend

\* when one runs that queues nothing,
LEMMA Popped ==
    ASSUME ClientTypes, NEW op, Run(op), pending' = pending
    PROVE  /\ \A g \in Functors : Has(g, Queue) <=> Has(g, Queue') \/ g = op
           /\ \A g \in Functors : Once(g, Queue) => /\ Once(g, Queue')
                                                    /\ g = op => ~Has(g, Queue')
           /\ StopsFirst(Queue) => StopsFirst(Queue')
           /\ StopsFirst(Queue) /\ op = "startInLoop" /\ Once("startInLoop", Queue)
                => ~Has("stopInLoop", Queue')
           /\ Cardinality(Dying(Queue')) = Cardinality(Dying(Queue)) - One(op = "connectDestroyed")
  <1>1. batch # <<>> /\ Head(batch) = op /\ batch' = Tail(batch)
    BY DEF Run
  <1>2. Queue \in Seq(Functors) /\ Queue # <<>> /\ Head(Queue) = op /\ Queue' = Tail(Queue)
    BY <1>1, ConcatFacts DEF ClientTypes, Queue
  <1> QED
    BY <1>2, TailFacts, DyingTail

\* and when one runs that queues another.
LEMMA Swapped ==
    ASSUME ClientTypes, NEW f \in Functors, NEW op, Run(op), pending' = Append(pending, f), op # f
    PROVE  /\ \A g \in Functors : g # op => (Has(g, Queue') <=> Has(g, Queue) \/ g = f)
           /\ \A g \in Functors : Has(g, Queue') => Has(g, Queue) \/ g = f
           /\ \A g \in Functors : Once(g, Queue) /\ (g = f => ~Has(g, Queue)) => Once(g, Queue')
           /\ StopsFirst(Queue) /\ f # "stopInLoop" => StopsFirst(Queue')
           /\ Cardinality(Dying(Queue')) = Cardinality(Dying(Queue)) - One(op = "connectDestroyed")
                                                                    + One(f = "connectDestroyed")
  <1>1. batch # <<>> /\ Head(batch) = op /\ batch' = Tail(batch)
    BY DEF Run
  <1>2. Queue \in Seq(Functors) /\ Queue # <<>> /\ Head(Queue) = op
    BY <1>1, ConcatFacts DEF ClientTypes, Queue
  <1> PICK t : t = Tail(Queue)
    OBVIOUS
  <1>3. t \in Seq(Functors) /\ Queue' = Append(t, f)
    <2>1. Tail(batch) \in Seq(Functors) /\ Tail(batch) \o pending = t
      BY <1>1, ConcatFacts DEF ClientTypes, Queue
    <2> PICK u : u = Tail(batch)
      OBVIOUS
    <2> PICK p : p = pending
      OBVIOUS
    <2>2. u \in Seq(Functors) /\ p \in Seq(Functors) /\ u \o p = t
      BY <2>1 DEF ClientTypes
    <2>3. \A g \in Functors : u \o Append(p, g) = Append(u \o p, g)
      BY ONLY <2>2, ConcatFacts
    <2>4. u \o Append(p, f) = Append(t, f)
      BY <2>2, <2>3
    <2> QED
      BY <1>1, <1>2, <2>4, TailFacts DEF Queue
  <1>4. /\ \A g \in Functors : Has(g, Queue) <=> Has(g, t) \/ g = op
        /\ \A g \in Functors : Once(g, Queue) => Once(g, t)
        /\ StopsFirst(Queue) => StopsFirst(t)
        /\ Cardinality(Dying(t)) = Cardinality(Dying(Queue)) - One(op = "connectDestroyed")
    BY <1>2, TailFacts, DyingTail
  <1>5. Cardinality(Dying(Append(t, f))) = Cardinality(Dying(t)) + One(f = "connectDestroyed")
    BY <1>3, DyingAppend
  <1> QED
    BY <1>3, <1>4, <1>5, AppendFacts

\* The functors queued become the ones being run.
LEMMA Taken ==
    ASSUME ClientTypes, batch = <<>>, doPendingFunctors
    PROVE  Queue' = Queue
  BY ConcatFacts DEF ClientTypes, Queue, doPendingFunctors

Accounted ==
    sockets = One(channel_ = "polled") + One(connection_ # "none") + Cardinality(Dying(Queue))

StageInv == ClientTypes /\ Stages /\ Accounted

LEMMA StagesInit == Init => StageInv
  <1> SUFFICES ASSUME Init PROVE StageInv
    OBVIOUS
  <1>1. Queue = <<>> /\ <<>> \in Seq(Functors)
    BY ConcatFacts DEF Init, Queue
  <1>2. Dying(Queue) = {} /\ \A f : ~Has(f, Queue) /\ Once(f, Queue)
    BY <1>1 DEF Dying, Has, Once
  <1>3. ClientTypes
    BY TypesInit
  <1>4. Stages
    BY <1>2 DEF Init, ConnectorInit, Stages
  <1>5. Accounted
    BY <1>2, FS_EmptySet DEF Init, ConnectorInit, Accounted, One
  <1> QED
    BY <1>3, <1>4, <1>5 DEF StageInv

LEMMA StagesStep == StageInv /\ [Next]_vars => StageInv'
  <1> SUFFICES ASSUME ClientTypes, Stages, Accounted, [Next]_vars PROVE Stages' /\ Accounted'
    BY TypesStep DEF StageInv
  <1> USE DEF connectorVars, clientVars, loopVars, userVars
  <1>a. {"startInLoop", "stopInLoop", "resetChannel", "connectDestroyed", "forceClose"}
          \subseteq Functors
    BY DEF Functors
  <1>b. sockets \in Int /\ Cardinality(Dying(Queue)) \in Nat
    BY ConcatFacts, DyingFinite DEF ClientTypes, Queue
  <1>1. ASSUME NEW op \in {"startInLoop", "stopInLoop", "resetChannel"}, NEW o \in Outcomes,
               RunConnector(op, o)
        PROVE  Stages' /\ Accounted'
    <2>1. /\ Run(op) /\ Running /\ todo = "none" /\ lpc = "functors"
          /\ UNCHANGED <<lpc, active, clientVars, todo, userVars>>
          /\ op \in Functors /\ op # "connectDestroyed"
      BY <1>1, <1>a DEF RunConnector, Run
    <2>2. CASE ~connector
      <3>1. UNCHANGED <<connectorVars, pending>> /\ ~Running'
        BY <1>1, <2>2, <2>1 DEF RunConnector, Asserts, Running
      <3>2. Stages'
        BY <2>1, <3>1 DEF Stages
      <3>3. Accounted'
        BY <2>1, <3>1, <1>a, <1>b, Popped DEF Accounted, One
      <3> QED
        BY <3>2, <3>3
    <2>3. CASE op = "startInLoop" /\ startInLoop(connect_, o, timers) /\ pending' = pending
      <3>1. \/ state_ = "kDisconnected" /\ (Begun(timers) \/ Idle(timers))
            \/ /\ UNCHANGED <<state_, channel_, sockets>>
               /\ Running' <=> state_ = "kDisconnected"
        BY <2>1, <2>3, StartCases DEF ClientTypes
      <3>2. /\ Has("resetChannel", Queue') <=> Has("resetChannel", Queue)
            /\ Once("resetChannel", Queue) => Once("resetChannel", Queue')
            /\ Cardinality(Dying(Queue')) = Cardinality(Dying(Queue))
        BY <2>1, <2>3, <1>a, <1>b, Popped DEF One
      <3>3. Stages'
        BY <2>1, <3>1, <3>2 DEF Stages, Begun, Idle, Running
      <3>4. Accounted'
        BY <2>1, <3>1, <3>2, <1>b DEF Stages, Accounted, Begun, Idle, One
      <3> QED
        BY <3>3, <3>4
    <2>4. CASE op = "stopInLoop" /\ stopInLoop
      <3>1. CASE state_ = "kConnecting"
        <4>1. abandon
          BY <2>4, <3>1 DEF stopInLoop
        <4>2. /\ state_' = "kDisconnected" /\ channel_' = "removed"
              /\ pending' = Append(pending, "resetChannel")
              /\ sockets' = sockets - 1 /\ failed' = failed
          BY <4>1, AbandonFacts DEF ClientTypes
        <4>3. /\ Has("resetChannel", Queue')
              /\ Once("resetChannel", Queue) /\ ~Has("resetChannel", Queue) => Once("resetChannel", Queue')
              /\ Cardinality(Dying(Queue')) = Cardinality(Dying(Queue))
          BY <2>1, <2>4, <4>2, <1>a, <1>b, Swapped DEF One
        <4>4. Stages'
          BY <2>1, <3>1, <4>2, <4>3 DEF Stages, Running
        <4>5. Accounted'
          BY <2>1, <3>1, <4>2, <4>3, <1>b DEF Stages, Accounted, One
        <4> QED
          BY <4>4, <4>5
      <3>2. CASE state_ # "kConnecting"
        <4>1. UNCHANGED <<connectorVars, pending, failed>>
          BY <2>4, <3>2 DEF stopInLoop
        <4>2. /\ Has("resetChannel", Queue') <=> Has("resetChannel", Queue)
              /\ Once("resetChannel", Queue) => Once("resetChannel", Queue')
              /\ Cardinality(Dying(Queue')) = Cardinality(Dying(Queue))
          BY <2>1, <2>4, <4>1, <1>a, <1>b, Popped DEF One
        <4> QED
          BY <2>1, <4>1, <4>2 DEF Stages, Accounted, Running
      <3> QED
        BY <3>1, <3>2
    <2>5. CASE op = "resetChannel" /\ resetChannel /\ pending' = pending
      <3>1. /\ channel_' = "null" /\ UNCHANGED <<state_, sockets, failed>>
        BY <2>5 DEF resetChannel
      <3>2. /\ Has("resetChannel", Queue) /\ Once("resetChannel", Queue)
              => Once("resetChannel", Queue') /\ ~Has("resetChannel", Queue')
            /\ Has("resetChannel", Queue)
            /\ Cardinality(Dying(Queue')) = Cardinality(Dying(Queue))
        BY <2>1, <2>5, <1>a, <1>b, Popped DEF One
      <3>3. channel_ = "removed"
        BY <2>1, <3>2 DEF Stages
      <3>4. Stages'
        BY <2>1, <3>1, <3>2, <3>3 DEF Stages, Running
      <3> QED
        BY <2>1, <3>1, <3>2, <3>3, <3>4 DEF Accounted, One
    <2> QED
      BY <1>1, <2>2, <2>3, <2>4, <2>5 DEF RunConnector
  <1>2. ASSUME NEW o \in Outcomes, RetryTimer(o) PROVE Stages' /\ Accounted'
    <2>1. PICK i \in DOMAIN timers :
            startInLoop(connect_, o, SubSeq(timers, 1, i - 1) \o SubSeq(timers, i + 1, Len(timers)))
      BY <1>2 DEF RetryTimer
    <2>2. PICK ts : ts = SubSeq(timers, 1, i - 1) \o SubSeq(timers, i + 1, Len(timers))
      OBVIOUS
    <2>3. ts \in Seq(Delays) /\ startInLoop(connect_, o, ts) /\ Running
      BY <1>2, <2>1, <2>2, TimerFacts DEF RetryTimer, Dispatch, ClientTypes
    <2>4. \/ state_ = "kDisconnected" /\ (Begun(ts) \/ Idle(ts))
          \/ /\ UNCHANGED <<state_, channel_, sockets>>
             /\ Running' <=> state_ = "kDisconnected"
      BY <2>3, StartCases DEF ClientTypes
    <2>5. /\ UNCHANGED <<pending, batch, lpc, retry_, connection_, client, todo>>
          /\ Queue' = Queue /\ active' \subseteq active /\ lpc = "events"
      BY <1>2 DEF RetryTimer, Dispatch, Queue
    <2>6. Stages'
      BY <2>3, <2>4, <2>5 DEF Stages, Begun, Idle, Running
    <2>7. Accounted'
      BY <2>4, <2>5, <1>b DEF Stages, Accounted, Begun, Idle, One
    <2> QED
      BY <2>6, <2>7
  <1>c. ASSUME abandon, state_ = "kConnecting", Running, active' = active \ {"channel"},
               UNCHANGED <<batch, lpc, retry_, connection_, client, todo>>, lpc = "events"
        PROVE  Stages' /\ Accounted'
    <2>1. /\ state_' = "kDisconnected" /\ channel_' = "removed"
          /\ pending' = Append(pending, "resetChannel")
          /\ sockets' = sockets - 1 /\ failed' = failed
      BY <1>c, AbandonFacts DEF ClientTypes
    <2>2. /\ Has("resetChannel", Queue')
          /\ Once("resetChannel", Queue) /\ ~Has("resetChannel", Queue) => Once("resetChannel", Queue')
          /\ Cardinality(Dying(Queue')) = Cardinality(Dying(Queue))
      BY <1>c, <2>1, <1>a, <1>b, Pushed DEF One
    <2>3. Stages'
      BY <1>c, <2>1, <2>2 DEF Stages, Running
    <2>4. Accounted'
      BY <1>c, <2>1, <2>2, <1>b DEF Stages, Accounted, One
    <2> QED
      BY <2>3, <2>4
  <1>3. CASE ChannelError
    <2>1. CASE state_ = "kConnecting"
      <3>1. abandon
        BY <1>3, <2>1 DEF ChannelError, handleError
      <3> QED
        BY <1>3, <2>1, <3>1, <1>c DEF ChannelError, Dispatch
    <2>2. CASE state_ # "kConnecting"
      <3>1. UNCHANGED <<connectorVars, pending, failed, clientVars, todo, lpc, batch, Queue>>
        BY <1>3, <2>2 DEF ChannelError, Dispatch, handleError, Queue
      <3>2. active' \subseteq active /\ lpc = "events"
        BY <1>3 DEF ChannelError, Dispatch
      <3> QED
        BY <3>1, <3>2 DEF Stages, Accounted, Running
    <2> QED
      BY <2>1, <2>2
  <1>4. ASSUME NEW good \in BOOLEAN, NEW keep \in BOOLEAN, ChannelWritable(good, keep)
        PROVE  Stages' /\ Accounted'
    <2>1. /\ Running /\ lpc = "events" /\ todo = "none" /\ active' = active \ {"channel"}
          /\ UNCHANGED <<batch, lpc, retry_, client, todo>>
      BY <1>4 DEF ChannelWritable, Dispatch
    <2>2. CASE state_ = "kConnecting" /\ good
      <3>1. /\ state_' = "kConnected" /\ channel_' = "removed"
            /\ pending' = Append(pending, "resetChannel")
            /\ failed' = failed /\ sockets' = IF connect_ THEN sockets ELSE sockets - 1
        BY <1>4, <2>2 DEF ChannelWritable, handleWrite, removeAndResetChannel, handsOver
      <3>2. connection_' = IF connect_ THEN "up" ELSE connection_
        BY <1>4, <3>1 DEF ChannelWritable, newConnection, handsOver
      <3>3. /\ Has("resetChannel", Queue')
            /\ Once("resetChannel", Queue) /\ ~Has("resetChannel", Queue) => Once("resetChannel", Queue')
            /\ Cardinality(Dying(Queue')) = Cardinality(Dying(Queue))
        BY <2>1, <3>1, <1>a, <1>b, Pushed DEF One
      <3>4. Stages'
        BY <2>1, <2>2, <3>1, <3>2, <3>3 DEF Stages, Running
      <3>5. Accounted'
        BY <2>1, <2>2, <3>1, <3>2, <3>3, <1>b DEF Stages, Accounted, One
      <3> QED
        BY <3>4, <3>5
    <2>3. CASE state_ = "kConnecting" /\ ~good
      <3>1. abandon
        BY <1>4, <2>3 DEF ChannelWritable, handleWrite
      <3>2. state_' # "kConnected"
        BY <3>1, AbandonFacts DEF ClientTypes
      <3>3. connection_' = connection_
        BY <1>4, <3>2 DEF ChannelWritable
      <3> QED
        BY <2>1, <2>3, <3>1, <3>3, <1>c
    <2> QED
      BY <1>4, <2>2, <2>3 DEF ChannelWritable, Dispatch, Stages
  <1>5. CASE KeeperTimer
    <2>1. /\ UNCHANGED <<connectorVars, pending, batch, lpc, retry_, connection_, client, todo, Queue>>
          /\ active' \subseteq active /\ lpc = "events" /\ Running
      BY <1>5 DEF KeeperTimer, Dispatch, Queue
    <2> QED
      BY <2>1 DEF Stages, Accounted, Running
  <1>6. CASE doPendingFunctors
    <2>1. Queue' = Queue
      BY <1>6, Taken DEF Stages, doPendingFunctors
    <2> QED
      BY <1>6, <2>1 DEF doPendingFunctors, Stages, Accounted, Running
  <1>7. CASE EndFunctors
    <2>1. Queue' = Queue
      BY <1>7 DEF EndFunctors, Queue
    <2> QED
      BY <1>7, <2>1 DEF EndFunctors, Stages, Accounted, Running
  <1>8. CASE PeerCloses
    <2>1. /\ connection_' = "down" /\ todo' = "removeConnection"
          /\ connection_ \in {"up", "shut"} /\ active' = active \ {"connection"} /\ lpc = "events"
          /\ UNCHANGED <<connectorVars, pending, failed, retry_, client, lpc, batch, Queue>>
      BY <1>8 DEF PeerCloses, Dispatch, ConnectionDown, Stages, Queue
    <2> QED
      BY <2>1 DEF Stages, Accounted, Running, One
  <1>9. CASE ForceClose
    <2>1. /\ Run("forceClose") /\ pending' = pending /\ UNCHANGED <<lpc, active, connectorVars, failed>>
          /\ UNCHANGED <<retry_, client>> /\ lpc = "functors" /\ active = {} /\ todo = "none"
      BY <1>9 DEF ForceClose, Run, ConnectionDown, Stages
    <2>2. /\ Has("resetChannel", Queue') <=> Has("resetChannel", Queue)
          /\ Once("resetChannel", Queue) => Once("resetChannel", Queue')
          /\ Cardinality(Dying(Queue')) = Cardinality(Dying(Queue))
      BY <2>1, <1>a, <1>b, Popped DEF One
    <2>3. CASE connection_ \in {"up", "shut"} /\ ConnectionDown
      <3>1. connection_' = "down" /\ todo' = "removeConnection"
        BY <2>3 DEF ConnectionDown
      <3>2. Stages'
        BY <2>1, <2>2, <2>3, <3>1 DEF Stages, Running
      <3> QED
        BY <2>1, <2>2, <2>3, <3>1, <3>2 DEF Accounted, One
    <2>4. CASE UNCHANGED <<connectorVars, pending, failed, clientVars, todo, userVars>>
      BY <2>1, <2>2, <2>4 DEF Stages, Accounted, Running
    <2> QED
      BY <1>9, <2>3, <2>4 DEF ForceClose
  <1>10. CASE removeConnection
    <2>1. /\ connection_ = "down" /\ connection_' = "none" /\ pending' = Append(pending, "connectDestroyed")
          /\ todo' = "restart" => client /\ retry_
          /\ todo' # "removeConnection"
          /\ UNCHANGED <<connectorVars, failed, retry_, client, lpc, active, batch>>
      BY <1>10 DEF removeConnection, Stages, reconnects
    <2>2. /\ Has("resetChannel", Queue') <=> Has("resetChannel", Queue)
          /\ Once("resetChannel", Queue) => Once("resetChannel", Queue')
          /\ Cardinality(Dying(Queue')) = Cardinality(Dying(Queue)) + 1
      BY <2>1, <1>a, <1>b, Pushed DEF One
    <2>3. Stages'
      BY <2>1, <2>2 DEF Stages, Running
    <2> QED
      BY <2>1, <2>2, <2>3, <1>b DEF Accounted, One
  <1>11. CASE connectDestroyed
    <2>1. /\ Run("connectDestroyed") /\ sockets' = sockets - 1
          /\ UNCHANGED <<lpc, active, pending, failed, state_, channel_, clientVars, todo>>
          /\ lpc = "functors"
      BY <1>11 DEF connectDestroyed, Run
    <2>2. /\ Has("resetChannel", Queue') <=> Has("resetChannel", Queue)
          /\ Once("resetChannel", Queue) => Once("resetChannel", Queue')
          /\ Cardinality(Dying(Queue')) = Cardinality(Dying(Queue)) - 1
      BY <2>1, <1>a, <1>b, Popped DEF One
    <2>3. Stages'
      BY <2>1, <2>2 DEF Stages, Running
    <2> QED
      BY <2>1, <2>2, <2>3, <1>b DEF Accounted, One
  <1>12. ASSUME NEW o \in Outcomes, Restart(o) PROVE Stages' /\ Accounted'
    <2>1. Begun(timers) \/ Idle(timers)
      BY <1>12, RestartCases DEF Restart, ClientTypes
    <2>2. /\ Running /\ todo = "restart" /\ todo' = "none"
          /\ UNCHANGED <<pending, clientVars, lpc, active, batch, Queue>>
      BY <1>12 DEF Restart, Queue
    <2>3. connection_ = "none" /\ state_ = "kConnected" /\ channel_ # "polled"
      BY <2>2 DEF Stages
    <2>4. Stages'
      BY <2>1, <2>2, <2>3 DEF Stages, Begun, Idle, Running
    <2>5. Accounted'
      BY <2>1, <2>2, <2>3, <1>b DEF Accounted, Begun, Idle, One
    <2> QED
      BY <2>4, <2>5
  <1>13. ASSUME NEW ready \in SUBSET Sources, Poll(ready) PROVE Stages' /\ Accounted'
    <2>1. /\ lpc = "poll" /\ lpc' = "events" /\ active' = ready
          /\ UNCHANGED <<connectorVars, pending, failed, clientVars, batch, todo, Queue>>
      BY <1>13 DEF Poll, Queue
    <2>2. /\ "channel" \in ready => channel_ = "polled"
          /\ "connection" \in ready => connection_ \in {"up", "shut"}
      BY DEF Sources
    <2> QED
      BY <2>1, <2>2 DEF Stages, Accounted, Running
  <1>14. ASSUME NEW op \in LoopCalls, NEW o \in Outcomes, LoopCall(op, o) PROVE Stages' /\ Accounted'
    <2>1. /\ lpc # "poll" /\ todo # "restart" /\ Running
          /\ UNCHANGED <<retry_, client, loopVars>>
      BY <1>14 DEF LoopCall, MayCall
    <2>2. CASE startInLoop(TRUE, o, timers) /\ UNCHANGED <<pending, connection_>>
      <3>1. \/ state_ = "kDisconnected" /\ (Begun(timers) \/ Idle(timers))
            \/ /\ UNCHANGED <<state_, channel_, sockets>>
               /\ Running' <=> state_ = "kDisconnected"
        BY <2>1, <2>2, StartCases DEF ClientTypes
      <3>2. Queue' = Queue
        BY <2>1, <2>2 DEF Queue
      <3>3. Stages'
        BY <2>1, <2>2, <3>1, <3>2 DEF Stages, Begun, Idle, Running
      <3>4. Accounted'
        BY <2>1, <2>2, <3>1, <3>2, <1>b DEF Stages, Accounted, Begun, Idle, One
      <3> QED
        BY <3>3, <3>4
    <2>3. CASE Shutdown /\ UNCHANGED <<connectorVars, pending, failed>>
      <3>1. Queue' = Queue
        BY <2>1, <2>3 DEF Queue
      <3>2. Stages'
        BY <2>1, <2>3, <3>1 DEF Stages, Shutdown, Running
      <3> QED
        BY <2>1, <2>3, <3>1, <3>2 DEF Accounted, Shutdown, One
    <2>4. CASE /\ pending' = Append(pending, "stopInLoop")
               /\ UNCHANGED <<state_, channel_, sockets, failed, connection_>>
      <3>1. /\ Has("resetChannel", Queue') <=> Has("resetChannel", Queue)
            /\ Once("resetChannel", Queue) => Once("resetChannel", Queue')
            /\ Cardinality(Dying(Queue')) = Cardinality(Dying(Queue))
        BY <2>1, <2>4, <1>a, <1>b, Pushed DEF One
      <3> QED
        BY <2>1, <2>4, <3>1 DEF Stages, Accounted, Running
    <2> QED
      BY <1>14, <2>2, <2>3, <2>4 DEF LoopCall
  <1>15. CASE DestroyClient
    <2>1. /\ UNCHANGED <<connection_, retry_, loopVars, state_, channel_, sockets>>
          /\ todo # "restart" /\ Running
      BY <1>15 DEF DestroyClient, MayCall
    <2>2. \/ pending' = pending
          \/ pending' = Append(pending, "stopInLoop")
          \/ pending' = Append(pending, "forceClose")
      BY <1>15 DEF DestroyClient
    <2>3. /\ Has("resetChannel", Queue') <=> Has("resetChannel", Queue)
          /\ Once("resetChannel", Queue) => Once("resetChannel", Queue')
          /\ Cardinality(Dying(Queue')) = Cardinality(Dying(Queue))
      <3>1. CASE pending' = pending
        BY <2>1, <3>1 DEF Queue
      <3>2. CASE pending' = Append(pending, "stopInLoop")
        BY <2>1, <3>2, <1>a, <1>b, Pushed DEF One
      <3>3. CASE pending' = Append(pending, "forceClose")
        BY <2>1, <3>3, <1>a, <1>b, Pushed DEF One
      <3> QED
        BY <2>2, <3>1, <3>2, <3>3
    <2> QED
      BY <2>1, <2>3 DEF Stages, Accounted, Running
  <1>16. ASSUME NEW op \in ForeignCalls, ForeignCall(op) PROVE Stages' /\ Accounted'
    <2>1. UNCHANGED <<connectorVars, pending, failed, retry_, connection_, client, loopVars, Queue>>
      BY <1>16 DEF ForeignCall, Queue
    <2> QED
      BY <2>1 DEF Stages, Accounted, Running
  <1>17. CASE ForeignSet
    <2>1. /\ UNCHANGED <<state_, channel_, sockets, pending, failed, retry_, client, loopVars, Queue>>
          /\ connection_' = connection_ \/ Shutdown
      BY <1>17 DEF ForeignSet, Queue
    <2>2. Stages'
      BY <2>1 DEF Stages, Shutdown, Running
    <2> QED
      BY <2>1, <2>2 DEF Accounted, Shutdown, One
  <1>18. CASE ForeignQueue
    <2>1. /\ pending' = Append(pending, "startInLoop") \/ pending' = Append(pending, "stopInLoop")
          /\ UNCHANGED <<connectorVars, failed, clientVars, loopVars>>
      BY <1>18 DEF ForeignQueue
    <2>2. /\ Has("resetChannel", Queue') <=> Has("resetChannel", Queue)
          /\ Once("resetChannel", Queue) => Once("resetChannel", Queue')
          /\ Cardinality(Dying(Queue')) = Cardinality(Dying(Queue))
      BY <2>1, <1>a, <1>b, Pushed DEF One
    <2> QED
      BY <2>1, <2>2 DEF Stages, Accounted, Running
  <1>19. CASE UNCHANGED vars
    <2>1. Queue' = Queue
      BY <1>19 DEF vars, Queue
    <2> QED
      BY <1>19, <2>1 DEF vars, Stages, Accounted, Running
  <1> QED
    BY <1>1, <1>2, <1>3, <1>4, <1>5, <1>6, <1>7, <1>8, <1>9, <1>10, <1>11, <1>12, <1>13, <1>14,
       <1>15, <1>16, <1>17, <1>18, <1>19 DEF Next, LoopStep, ConnectorStep

LEMMA StagesInvariance == Spec => []StageInv
  BY StagesInit, StagesStep, PTL DEF Spec

\* Whatever the calls, even those the assertions of Connector refuse, every
\* socket that Connector and TcpClient have opened and not closed belongs to
\* the attempt under way, to the connection, or to a connection whose
\* connectDestroyed() is queued.
THEOREM SocketsBalance == Spec => []SocketsAccounted
  <1>1. StageInv => SocketsAccounted
    BY DEF StageInv, Accounted, SocketsAccounted, One, Dying, Queue
  <1> QED
    BY <1>1, StagesInvariance, PTL

-----------------------------------------------------------------------------
(* The delays.                                                             *)

\* retryDelayMs_ goes with the last delay since a connection; while there is a
\* connection, or the news of its end is under way, it may be out of date, for
\* restart() sets it before it is used.
DelayInv ==
    /\ waited \in {0} \cup Delays
    /\ waited # 0 => retryDelayMs_ = NextDelay(waited)
    /\ waited = 0 /\ state_ # "kConnected" => retryDelayMs_ = kInitRetryDelayMs
    /\ connection_ # "none" \/ todo # "none" => waited = 0

\* What a step may do to the delays: nothing, when it at most takes a timer
\* away and does not leave kConnected;
Quiet ==
    /\ timers' = timers \/ Len(timers') < Len(timers)
    /\ UNCHANGED <<waited, retryDelayMs_>>
    /\ state_ = "kConnected" => state_' = "kConnected"
    /\ connection_' # "none" \/ todo' # "none" => connection_ # "none" \/ todo # "none"

\* schedule a retry, one timer being taken away or none;
Retries ==
    /\ state_ # "kConnected"
    /\ \E ts \in Seq(Delays) : timers' = Append(ts, retryDelayMs_)
    /\ waited' = retryDelayMs_
    /\ retryDelayMs_' = NextDelay(retryDelayMs_)
    /\ UNCHANGED <<connection_, todo>>

\* hand over a connection;
HandsOn ==
    /\ state_' = "kConnected" /\ waited' = 0
    /\ UNCHANGED <<timers, retryDelayMs_>>

\* or begin anew.
Anew ==
    /\ todo = "restart" /\ todo' = "none" /\ connection_' = connection_
    /\ \/ UNCHANGED <<timers, waited>> /\ retryDelayMs_' = kInitRetryDelayMs
       \/ /\ timers' = Append(timers, kInitRetryDelayMs) /\ waited' = kInitRetryDelayMs
          /\ retryDelayMs_' = NextDelay(kInitRetryDelayMs)

LEMMA AbandonDelays ==
    ASSUME ClientTypes, state_ = "kConnecting", abandon, UNCHANGED <<connection_, todo>>
    PROVE  Quiet \/ Retries
  BY DEF abandon, scheduleRetry, Quiet, Retries, ClientTypes

LEMMA StartDelays ==
    ASSUME ClientTypes, NEW w \in BOOLEAN, NEW o \in Outcomes, NEW ts \in Seq(Delays),
           ts = timers \/ Len(ts) < Len(timers),
           startInLoop(w, o, ts), UNCHANGED <<connection_, todo>>
    PROVE  Quiet \/ Retries
  <1>1. CASE state_ = "kDisconnected" /\ w
    <2>1. connect(TRUE, o, retryDelayMs_, ts)
      BY <1>1 DEF startInLoop
    <2>2. CASE o = "tryAgain"
      BY <1>1, <2>1, <2>2 DEF connect, scheduleRetry, Retries
    <2>3. CASE o # "tryAgain"
      BY <1>1, <2>1, <2>3 DEF connect, connecting, Quiet, Outcomes
    <2> QED
      BY <2>2, <2>3
  <1>2. CASE ~(state_ = "kDisconnected" /\ w)
    BY <1>2 DEF startInLoop, Quiet
  <1> QED
    BY <1>1, <1>2

\* Every step is one of these.
LEMMA DelaySteps ==
    ASSUME StageInv, Next
    PROVE  Quiet \/ Retries \/ HandsOn \/ Anew
  <1>0. ClientTypes /\ Stages /\ timers \in Seq(Delays) /\ connect_ \in BOOLEAN
    BY DEF StageInv, ClientTypes
  <1> USE DEF connectorVars, clientVars, loopVars, userVars
  <1>1. ASSUME NEW op, NEW o \in Outcomes, RunConnector(op, o) PROVE Quiet \/ Retries
    <2>1. UNCHANGED <<connection_, todo>>
      BY <1>1 DEF RunConnector
    <2>2. CASE startInLoop(connect_, o, timers)
      BY <1>0, <2>1, <2>2, StartDelays
    <2>3. CASE stopInLoop
      <3>1. CASE state_ = "kConnecting"
        BY <1>0, <2>1, <2>3, <3>1, AbandonDelays DEF stopInLoop
      <3>2. CASE state_ # "kConnecting"
        BY <2>1, <2>3, <3>2 DEF stopInLoop, Quiet
      <3> QED
        BY <3>1, <3>2
    <2>4. CASE UNCHANGED <<state_, retryDelayMs_, timers, waited>>
      BY <2>1, <2>4 DEF Quiet
    <2> QED
      BY <1>1, <2>2, <2>3, <2>4 DEF RunConnector, resetChannel
  <1>2. ASSUME NEW o \in Outcomes, RetryTimer(o) PROVE Quiet \/ Retries
    <2>1. UNCHANGED <<connection_, todo>>
      BY <1>2 DEF RetryTimer
    <2>2. PICK i \in DOMAIN timers :
            startInLoop(connect_, o, SubSeq(timers, 1, i - 1) \o SubSeq(timers, i + 1, Len(timers)))
      BY <1>2 DEF RetryTimer
    <2>3. PICK ts : ts = SubSeq(timers, 1, i - 1) \o SubSeq(timers, i + 1, Len(timers))
      OBVIOUS
    <2>4. ts \in Seq(Delays) /\ Len(ts) = Len(timers) - 1 /\ Len(timers) \in Nat
      BY <1>0, <2>3, TimerFacts, LenProperties
    <2>5. Len(ts) < Len(timers)
      BY <2>4
    <2>6. startInLoop(connect_, o, ts)
      BY <2>2, <2>3
    <2> QED
      BY <1>0, <2>1, <2>4, <2>5, <2>6, StartDelays
  <1>3. CASE ChannelError
    <2>1. UNCHANGED <<connection_, todo>> /\ handleError
      BY <1>3 DEF ChannelError
    <2>2. CASE state_ = "kConnecting"
      BY <1>0, <2>1, <2>2, AbandonDelays DEF handleError
    <2>3. CASE state_ # "kConnecting"
      BY <2>1, <2>3 DEF handleError, Quiet
    <2> QED
      BY <2>2, <2>3
  <1>4. ASSUME NEW good \in BOOLEAN, NEW keep \in BOOLEAN, ChannelWritable(good, keep)
        PROVE  Quiet \/ Retries \/ HandsOn
    <2>1. /\ todo' = todo /\ handleWrite(good)
          /\ ~(state_' = "kConnected" /\ handsOver) => connection_' = connection_
          /\ state_ = "kConnecting"
      BY <1>0, <1>4 DEF ChannelWritable, Dispatch, Stages
    <2>2. CASE good
      BY <2>1, <2>2 DEF handleWrite, HandsOn, Quiet
    <2>3. CASE ~good
      <3>1. abandon
        BY <2>1, <2>3 DEF handleWrite
      <3>2. state_' = "kDisconnected"
        BY <3>1 DEF abandon, scheduleRetry
      <3> QED
        BY <1>0, <2>1, <3>1, <3>2, AbandonDelays
    <2> QED
      BY <2>2, <2>3
  <1>5. CASE KeeperTimer \/ doPendingFunctors \/ EndFunctors \/ removeConnection \/ connectDestroyed
             \/ ForeignQueue \/ DestroyClient \/ \E op : ForeignCall(op)
    BY <1>5 DEF KeeperTimer, doPendingFunctors, EndFunctors, removeConnection, connectDestroyed,
                ForeignQueue, DestroyClient, ForeignCall, Quiet
  <1>6. CASE PeerCloses \/ ForceClose
    BY <1>0, <1>6 DEF PeerCloses, ForceClose, ConnectionDown, Dispatch, Stages, Quiet
  <1>7. ASSUME NEW o \in Outcomes, Restart(o) PROVE Anew
    <2>1. /\ connect(TRUE, o, kInitRetryDelayMs, timers)
          /\ todo = "restart" /\ todo' = "none" /\ connection_' = connection_
      BY <1>7 DEF Restart, restart
    <2>2. CASE o = "tryAgain"
      BY <2>1, <2>2 DEF connect, scheduleRetry, Anew
    <2>3. CASE o # "tryAgain"
      BY <2>1, <2>3 DEF connect, Anew, Outcomes
    <2> QED
      BY <2>2, <2>3
  <1>8. ASSUME NEW ready, Poll(ready) PROVE Quiet
    BY <1>8 DEF Poll, Quiet
  <1>9. ASSUME NEW op, NEW o \in Outcomes, LoopCall(op, o) PROVE Quiet \/ Retries
    <2>1. CASE startInLoop(TRUE, o, timers) /\ UNCHANGED connection_
      BY <1>0, <1>9, <2>1, StartDelays DEF LoopCall
    <2>2. CASE Shutdown /\ UNCHANGED connectorVars
      BY <1>9, <2>2 DEF LoopCall, Shutdown, Quiet
    <2>3. CASE UNCHANGED <<state_, retryDelayMs_, timers, waited, connection_>>
      BY <1>9, <2>3 DEF LoopCall, Quiet
    <2> QED
      BY <1>9, <2>1, <2>2, <2>3 DEF LoopCall
  <1>10. CASE ForeignSet
    BY <1>10 DEF ForeignSet, Shutdown, Quiet
  <1> QED
    BY <1>1, <1>2, <1>3, <1>4, <1>5, <1>6, <1>7, <1>8, <1>9, <1>10 DEF Next, LoopStep, ConnectorStep

\* The delay that Backoff asks for.
Due == IF waited = 0 THEN kInitRetryDelayMs
       ELSE IF 2 * waited <= kMaxRetryDelayMs THEN 2 * waited ELSE kMaxRetryDelayMs

LEMMA DueFacts ==
    ASSUME ClientTypes, DelayInv, state_ # "kConnected"
    PROVE  retryDelayMs_ = Due
  BY RetryDelayAssumption DEF DelayInv, Due, NextDelay, Delays

LEMMA DelayStep ==
    ASSUME StageInv, DelayInv, Next
    PROVE  /\ DelayInv'
           /\ timers' # timers /\ Len(timers') >= Len(timers) => timers'[Len(timers')] = Due
  <1>0. /\ ClientTypes /\ ClientTypes' /\ Stages /\ 0 \notin Delays
        /\ timers \in Seq(Delays) /\ timers' \in Seq(Delays) /\ retryDelayMs_ \in Delays
    <2>1. ClientTypes /\ ClientTypes' /\ Stages
      BY TypesStep DEF StageInv
    <2> QED
      BY <2>1, RetryDelayAssumption DEF ClientTypes, Delays
  <1>1. Len(timers) \in Nat /\ Len(timers') \in Nat
    BY <1>0, LenProperties
  <1>2. CASE Quiet
    BY <1>1, <1>2 DEF Quiet, DelayInv
  <1>3. CASE Retries
    <2>1. connection_ = "none" /\ todo = "none"
      BY <1>0, <1>3 DEF Retries, Stages, ClientTypes
    <2>2. DelayInv'
      BY <1>0, <1>3, <2>1 DEF Retries, DelayInv
    <2>3. timers'[Len(timers')] = retryDelayMs_
      BY <1>0, <1>3, AppendProperties DEF Retries
    <2> QED
      BY <1>0, <1>3, <2>2, <2>3, DueFacts DEF Retries
  <1>4. CASE HandsOn
    BY <1>4 DEF HandsOn, DelayInv
  <1>5. CASE Anew
    <2>1. waited = 0 /\ connection_' = "none" /\ todo' = "none"
      BY <1>0, <1>5 DEF Anew, DelayInv, Stages
    <2>2. kInitRetryDelayMs \in Delays /\ kInitRetryDelayMs # 0
      BY RetryDelayAssumption, DelayFacts
    <2>3. DelayInv'
      BY <1>5, <2>1, <2>2 DEF Anew, DelayInv
    <2>4. timers' # timers => timers'[Len(timers')] = kInitRetryDelayMs
      BY <1>0, <1>5, <2>2, AppendProperties DEF Anew
    <2> QED
      BY <2>1, <2>3, <2>4 DEF Due
  <1> QED
    BY <1>2, <1>3, <1>4, <1>5, DelaySteps

\* Whatever the calls, the retries of Connector::retry() back off: the first
\* after a connection, or the first of all, waits kInitRetryDelayMs, every other
\* twice as long as the one before it, and none longer than kMaxRetryDelayMs.
THEOREM DelaysBackOff == Spec => Backoff
  <1> DEFINE A == timers' # timers /\ Len(timers') >= Len(timers) =>
                    timers'[Len(timers')] =
                      IF waited = 0 THEN kInitRetryDelayMs
                      ELSE IF 2 * waited <= kMaxRetryDelayMs THEN 2 * waited ELSE kMaxRetryDelayMs
  <1>1. Init => DelayInv
    BY DEF Init, ConnectorInit, DelayInv
  <1>2. StageInv /\ DelayInv /\ [Next]_vars => DelayInv' /\ [A]_vars
    <2> SUFFICES ASSUME StageInv, DelayInv, [Next]_vars PROVE DelayInv' /\ [A]_vars
      OBVIOUS
    <2>1. CASE Next
      BY <2>1, DelayStep DEF Due
    <2>2. CASE UNCHANGED vars
      <3>1. DelayInv'
        BY <2>2 DEF vars, connectorVars, clientVars, loopVars, DelayInv
      <3> QED
        BY <2>2, <3>1
    <2> QED
      BY <2>1, <2>2
  <1> QED
    BY <1>1, <1>2, StagesInvariance, PTL DEF Spec, Backoff

-----------------------------------------------------------------------------
(* stop().                                                                 *)

\* The step that StopStops is about.
StopStep ==
    wanted = "no" /\ wanted' = "no" =>
      /\ state_ # "kConnecting" => state_' # "kConnecting"
      /\ connection_ = "none" => connection_' = "none"

LEMMA StoppedInit == Init => Stopped
  BY CallFacts DEF Init, ConnectorInit, Stopped

LEMMA StoppedStep ==
    ASSUME ~StopsRetrying
    PROVE  StageInv /\ Stopped /\ [Next]_vars => Stopped' /\ [StopStep]_vars
  <1> SUFFICES ASSUME ClientTypes, Stages, Stopped, [Next]_vars PROVE Stopped' /\ [StopStep]_vars
    BY DEF StageInv
  <1> USE DEF connectorVars, clientVars, loopVars, userVars
  <1>a. ASSUME UNCHANGED <<connect_, clientConnect_, retry_, client, call, wanted>>,
               todo' = todo \/ todo' # "restart",
               \/ state_' = state_
               \/ state_ = "kConnecting" /\ state_' # "kConnecting"
               \/ state_ = "kDisconnected" /\ connect_,
               connection_' = connection_ \/ connection_ # "none" \/ (connect_ /\ state_ = "kConnecting")
        PROVE  Stopped' /\ StopStep
    BY <1>a DEF Stopped, StopStep, ClientTypes
  <1>1. ASSUME NEW op \in {"startInLoop", "stopInLoop", "resetChannel"}, NEW o \in Outcomes,
               RunConnector(op, o)
        PROVE  Stopped' /\ StopStep
    <2>1. Running /\ UNCHANGED <<clientVars, todo, userVars>>
      BY <1>1 DEF RunConnector, Run
    <2>2. CASE ~connector
      <3>1. UNCHANGED connectorVars
        BY <1>1, <2>2, Zenon DEF RunConnector
      <3> QED
        BY <2>1, <3>1, <1>a
    <2>3. CASE startInLoop(connect_, o, timers)
      <3>1. /\ connect_' = connect_
            /\ \/ state_ = "kDisconnected" /\ connect_
               \/ state_' = state_
        BY <2>1, <2>3, StartCases DEF ClientTypes
      <3> QED
        BY <2>1, <3>1, <1>a
    <2>4. CASE stopInLoop
      <3>1. /\ connect_' = connect_
            /\ \/ state_ = "kConnecting" /\ state_' # "kConnecting"
               \/ state_' = state_
        BY <2>4, AbandonFacts DEF stopInLoop, ClientTypes
      <3> QED
        BY <2>1, <3>1, <1>a
    <2>5. CASE resetChannel
      BY <2>1, <2>5, <1>a DEF resetChannel
    <2> QED
      BY <1>1, <2>2, <2>3, <2>4, <2>5 DEF RunConnector
  <1>2. ASSUME NEW o \in Outcomes, RetryTimer(o) PROVE Stopped' /\ StopStep
    <2>1. PICK i \in DOMAIN timers :
            startInLoop(connect_, o, SubSeq(timers, 1, i - 1) \o SubSeq(timers, i + 1, Len(timers)))
      BY <1>2 DEF RetryTimer
    <2>2. PICK ts : ts = SubSeq(timers, 1, i - 1) \o SubSeq(timers, i + 1, Len(timers))
      OBVIOUS
    <2>3. ts \in Seq(Delays) /\ startInLoop(connect_, o, ts) /\ Running
      BY <1>2, <2>1, <2>2, TimerFacts DEF RetryTimer, Dispatch, ClientTypes
    <2>4. /\ connect_' = connect_
          /\ \/ state_ = "kDisconnected" /\ connect_
             \/ state_' = state_
      BY <2>3, StartCases DEF ClientTypes
    <2>5. UNCHANGED <<clientConnect_, retry_, connection_, client, todo, userVars>>
      BY <1>2 DEF RetryTimer
    <2> QED
      BY <2>4, <2>5, <1>a
  <1>3. CASE ChannelError
    <2>1. /\ connect_' = connect_
          /\ \/ state_ = "kConnecting" /\ state_' # "kConnecting"
             \/ state_' = state_
      BY <1>3, AbandonFacts DEF ChannelError, handleError, ClientTypes
    <2>2. UNCHANGED <<clientVars, todo, userVars>>
      BY <1>3 DEF ChannelError
    <2> QED
      BY <2>1, <2>2, <1>a
  <1>4. ASSUME NEW good \in BOOLEAN, NEW keep \in BOOLEAN, ChannelWritable(good, keep)
        PROVE  Stopped' /\ StopStep
    <2>1. UNCHANGED <<clientConnect_, retry_, client, todo, userVars>> /\ state_ = "kConnecting"
      BY <1>4 DEF ChannelWritable, Dispatch, Stages
    <2>2. connect_' = connect_ /\ state_' # "kConnecting"
      <3>1. CASE good
        BY <1>4, <2>1, <3>1 DEF ChannelWritable, handleWrite
      <3>2. CASE ~good
        BY <1>4, <2>1, <3>2, AbandonFacts DEF ChannelWritable, handleWrite, ClientTypes
      <3> QED
        BY <3>1, <3>2
    <2>3. connection_' = connection_ \/ connect_
      BY <1>4 DEF ChannelWritable, handsOver
    <2> QED
      BY <2>1, <2>2, <2>3, <1>a
  <1>5. CASE KeeperTimer
    BY <1>5, <1>a DEF KeeperTimer
  <1>6. CASE doPendingFunctors
    BY <1>6, <1>a DEF doPendingFunctors
  <1>7. CASE EndFunctors
    BY <1>7, <1>a DEF EndFunctors
  <1>8. CASE PeerCloses
    <2>1. connection_ # "none"
      BY <1>8 DEF PeerCloses, Dispatch, Stages
    <2> QED
      BY <1>8, <2>1, <1>a DEF PeerCloses, ConnectionDown
  <1>9. CASE ForceClose
    <2>1. CASE connection_ # "none" /\ ConnectionDown
      BY <2>1, <1>a DEF ConnectionDown
    <2>2. CASE UNCHANGED <<connectorVars, clientVars, todo, userVars>>
      BY <2>2, <1>a
    <2> QED
      BY <1>9, <2>1, <2>2 DEF ForceClose
  <1>10. CASE removeConnection
    <2>1. todo' = "restart" => client /\ retry_ /\ clientConnect_
      BY <1>10 DEF removeConnection, reconnects
    <2> QED
      BY <1>10, <2>1 DEF removeConnection, Stopped, StopStep
  <1>11. CASE connectDestroyed
    BY <1>11, <1>a DEF connectDestroyed
  <1>12. ASSUME NEW o \in Outcomes, Restart(o) PROVE Stopped' /\ StopStep
    <2>1. todo = "restart" /\ todo' = "none" /\ UNCHANGED <<clientVars, userVars>>
      BY <1>12 DEF Restart
    <2>2. retry_ /\ client /\ wanted # "no"
      BY <2>1 DEF Stages, Stopped
    <2> QED
      BY <2>1, <2>2 DEF Stopped, StopStep
  <1>13. ASSUME NEW ready \in SUBSET Sources, Poll(ready) PROVE Stopped' /\ StopStep
    BY <1>13, <1>a DEF Poll
  <1>14. ASSUME NEW op \in LoopCalls, NEW o \in Outcomes, LoopCall(op, o) PROVE Stopped' /\ StopStep
    <2>1. /\ todo # "restart" /\ Running /\ client
          /\ wanted' = Word(op) /\ clientConnect_' = (op = "connect")
          /\ op = "connect" => call = NoCall
          /\ UNCHANGED <<retry_, client, todo, call>>
      BY <1>14 DEF LoopCall, MayCall
    <2>2. CASE op = "connect" /\ startInLoop(TRUE, o, timers)
      BY <2>1, <2>2, CallFacts DEF Stopped, StopStep, Word
    <2>3. CASE op = "disconnect" /\ Shutdown /\ UNCHANGED connectorVars
      BY <2>1, <2>3 DEF Stopped, StopStep, Word, Shutdown
    <2>4. CASE op = "stop" /\ connect_' = FALSE /\ UNCHANGED <<state_, connection_>>
      BY <2>1, <2>4 DEF Stopped, StopStep, Word
    <2> QED
      BY <1>14, <2>2, <2>3, <2>4 DEF LoopCall
  <1>15. CASE DestroyClient
    <2>1. /\ UNCHANGED <<connection_, retry_, clientConnect_, todo, call, state_>>
          /\ todo # "restart" /\ client' = FALSE /\ wanted' = "no" /\ call = NoCall
      BY <1>15 DEF DestroyClient
    <2>2. connect_' = FALSE \/ state_ = "kConnected"
      BY <1>15 DEF DestroyClient, Stages
    <2> QED
      BY <2>1, <2>2, CallFacts DEF Stopped, StopStep
  <1>16. ASSUME NEW op \in ForeignCalls, ForeignCall(op) PROVE Stopped' /\ StopStep
    <2>1. /\ call = NoCall /\ client /\ call' = <<op, 1>>
          /\ op = "stop" => ~retry_
          /\ wanted' = IF op = "connect" THEN "yes" ELSE wanted
          /\ clientConnect_' = (op = "connect")
          /\ UNCHANGED <<connectorVars, retry_, connection_, client, todo>>
      BY <1>16 DEF ForeignCall, MayCall
    <2>2. call'[1] = op /\ call'[2] = 1
      BY <2>1
    <2>3. CASE op = "connect"
      BY <2>1, <2>2, <2>3 DEF Stopped, StopStep
    <2>4. CASE op # "connect"
      <3>1. ~clientConnect_' /\ wanted' = wanted
        BY <2>1, <2>4
      <3>2. UNCHANGED <<connect_, state_, connection_, retry_, client, todo>>
        BY <2>1
      <3>3. call'[1] = "stop" => ~retry_
        BY <2>1, <2>2
      <3>4. call'[2] # 2 /\ client
        BY <2>1, <2>2
      <3> QED
        BY <3>1, <3>2, <3>3, <3>4 DEF Stopped, StopStep
    <2> QED
      BY <2>3, <2>4
  <1>17. CASE ForeignSet
    <2>1. call # NoCall /\ client
      BY <1>17, CallFacts DEF ForeignSet, Stopped
    <2>2. /\ UNCHANGED <<state_, clientConnect_, retry_, client, todo>>
          /\ connection_' = connection_ \/ Shutdown
      BY <1>17 DEF ForeignSet
    <2>3. CASE call[1] = "disconnect"
      <3>1. call' = NoCall /\ UNCHANGED <<connect_, wanted>>
        BY <1>17, <2>3 DEF ForeignSet
      <3> QED
        BY <2>1, <2>2, <3>1, CallFacts DEF Stopped, StopStep, Shutdown
    <2>4. CASE call[1] = "connect"
      <3>1. call' = <<"connect", 2>> /\ connect_' = TRUE /\ wanted' = "yes"
        BY <1>17, <2>4 DEF ForeignSet
      <3>2. call'[1] = "connect"
        BY <3>1
      <3> QED
        BY <2>1, <2>2, <3>1, <3>2 DEF Stopped, StopStep
    <2>5. CASE call[1] = "stop"
      <3>1. call' = <<"stop", 2>> /\ connect_' = FALSE /\ wanted' = wanted
        BY <1>17, <2>5 DEF ForeignSet
      <3>2. call'[1] = "stop"
        BY <3>1
      <3> QED
        BY <2>1, <2>2, <2>5, <3>1, <3>2 DEF Stopped, StopStep, Shutdown
    <2> QED
      BY <2>1, <2>3, <2>4, <2>5, CallFacts DEF ClientTypes
  <1>18. CASE ForeignQueue
    <2>1. call # NoCall /\ client /\ call[2] = 2 /\ call' = NoCall
      BY <1>18, CallFacts DEF ForeignQueue, Stopped
    <2>2. /\ UNCHANGED <<connectorVars, clientVars, todo>>
          /\ wanted' = IF call[1] = "stop" THEN "no" ELSE wanted
      BY <1>18 DEF ForeignQueue
    <2>3. call[1] = "stop" => todo # "restart"
      BY DEF Stages, Stopped
    <2> QED
      BY <2>1, <2>2, <2>3, CallFacts DEF Stopped, StopStep
  <1>19. CASE UNCHANGED vars
    BY <1>19, <1>a DEF vars
  <1> QED
    BY <1>1, <1>2, <1>3, <1>4, <1>5, <1>6, <1>7, <1>8, <1>9, <1>10, <1>11, <1>12, <1>13, <1>14,
       <1>15, <1>16, <1>17, <1>18, <1>19 DEF Next, LoopStep, ConnectorStep

\* Once stop() or ~TcpClient() has run in the loop thread, neither a retry
\* timer, nor a functor that was queued before, nor the socket of the attempt
\* under way starts an attempt or hands over a connection.  A client that
\* reconnects is assumed not to be stopped by another thread, as restart() sets
\* Connector::connect_ again whatever stop() has written.
THEOREM StopEndsAttempts ==
    ASSUME ~StopsRetrying
    PROVE  Spec => StopStops
  <1>1. StageInv /\ Stopped /\ [Next]_vars => Stopped' /\ [StopStep]_vars
    BY StoppedStep
  <1>2. [StopStep]_vars =>
          [wanted = "no" /\ wanted' = "no" =>
             /\ state_ # "kConnecting" => state_' # "kConnecting"
             /\ connection_ = "none" => connection_' = "none"]_vars
    BY DEF StopStep
  <1> QED
    BY <1>1, <1>2, StagesInvariance, StoppedInit, PTL DEF Spec, StopStops

-----------------------------------------------------------------------------
(* The assertions.                                                         *)

LEMMA QueueFacts ==
    ASSUME ClientTypes
    PROVE  /\ \A g \in Functors : Has(g, Queue) <=> Has(g, batch) \/ Has(g, pending)
           /\ \A g : ~Has(g, <<>>)
           /\ \A g \in Functors : Has(g, Queue) => Queued(g)
           /\ StopsFirst(Queue) /\ Has("stopInLoop", Queue) => Has("startInLoop", Queue)
           /\ ~Has("stopInLoop", Queue) => StopsFirst(Queue)
           /\ \A f, g \in Functors :
                pending' = Append(pending, f) => (Has(g, pending') <=> Has(g, pending) \/ g = f)
  <1>1. \A g \in Functors : Has(g, Queue) <=> Has(g, batch) \/ Has(g, pending)
    BY ConcatFacts DEF ClientTypes, Queue
  <1>2. \A g : ~Has(g, <<>>)
    BY DEF Has
  <1>3. \A g \in Functors : Has(g, Queue) => Queued(g)
    BY <1>1 DEF Has, Queued, Range
  <1>4. StopsFirst(Queue) /\ Has("stopInLoop", Queue) => Has("startInLoop", Queue)
    BY DEF StopsFirst, Has
  <1>5. ~Has("stopInLoop", Queue) => StopsFirst(Queue)
    BY DEF StopsFirst, Has
  <1>6. \A f, g \in Functors :
          pending' = Append(pending, f) => (Has(g, pending') <=> Has(g, pending) \/ g = f)
    BY AppendFacts DEF ClientTypes
  <1> QED
    BY <1>1, <1>2, <1>3, <1>4, <1>5, <1>6

LEMMA FirstTimer ==
    /\ \A d \in Delays : Append(<<>>, d) # <<>> /\ Len(Append(<<>>, d)) = 1
    /\ \A ts \in Seq(Delays) : Len(ts) = 0 => ts = <<>>
  BY AppendProperties, EmptySeq

ClientInv == StageInv /\ Stopped /\ Running /\ Attempts /\ Pending /\ Lives

LEMMA ClientInvInit == Init => ClientInv
  <1> SUFFICES ASSUME Init PROVE ClientInv
    OBVIOUS
  <1>1. StageInv /\ Stopped
    BY StagesInit, StoppedInit
  <1>2. Queue = <<>> /\ <<>> \in Seq(Functors)
    BY ConcatFacts DEF Init, Queue
  <1>3. \A f : ~Has(f, Queue) /\ Once(f, Queue) /\ ~Has(f, pending)
    BY <1>2 DEF Has, Once, Init
  <1>4. StopsFirst(Queue)
    BY <1>2 DEF StopsFirst
  <1>5. Attempts
    BY <1>3, <1>4, CallFacts DEF Init, ConnectorInit, Attempts, Starting
  <1>6. Pending /\ Lives /\ Running
    BY <1>3 DEF Init, ConnectorInit, Pending, Lives, Running
  <1> QED
    BY <1>1, <1>5, <1>6 DEF ClientInv

LEMMA ClientInvStep ==
    ASSUME ~Reconnects, ~StopsRetrying, ~EarlyDestroy
    PROVE  ClientInv /\ [Next]_vars => ClientInv'
  <1> SUFFICES ASSUME ClientTypes, Stages, Stopped, Running, Attempts, Pending, Lives, [Next]_vars
               PROVE  Running' /\ Attempts' /\ Pending' /\ Lives'
    BY StagesStep, StoppedStep DEF ClientInv, StageInv
  <1> DEFINE Goal == Running' /\ Attempts' /\ Pending' /\ Lives'
  <1> USE DEF connectorVars, clientVars, loopVars, userVars
  <1>a. {"startInLoop", "stopInLoop", "resetChannel", "connectDestroyed", "forceClose"}
          \subseteq Functors
    BY DEF Functors
  <1>b. /\ channel_ = "null" => ~Has("resetChannel", Queue) /\ ~Has("resetChannel", pending)
        /\ batch = <<>> /\ ~Has("resetChannel", pending) => channel_ # "removed"
    BY <1>a, QueueFacts DEF Stages
  <1>c. ASSUME timers = <<>>, Idle(timers)
        PROVE  timers' = <<>> \/ (timers' # <<>> /\ Len(timers') = 1)
    BY <1>c, FirstTimer DEF Idle
  <1>1. ASSUME NEW op \in {"startInLoop", "stopInLoop", "resetChannel"}, NEW o \in Outcomes,
               RunConnector(op, o)
        PROVE  Goal
    <2>1. /\ Run(op) /\ todo = "none" /\ lpc = "functors" /\ active = {}
          /\ UNCHANGED <<lpc, active, clientVars, todo, userVars>>
          /\ op \in Functors
      BY <1>1, <1>a DEF RunConnector, Run, Stages
    <2>2. Has(op, Queue)
      <3>1. Head(batch) = op /\ batch \in Seq(Functors) /\ batch # <<>>
        BY <2>1 DEF Run, ClientTypes
      <3>2. Has(op, batch)
        BY <3>1, TailFacts
      <3> QED
        BY <2>1, <3>2, QueueFacts
    <2>3. connector
      BY <2>2 DEF Lives
    <2>4. CASE op = "startInLoop" /\ startInLoop(connect_, o, timers) /\ pending' = pending
      <3>1. state_ = "kDisconnected" /\ channel_ = "null" /\ timers = <<>> /\ wanted # "fresh"
        BY <2>2, <2>4 DEF Attempts, Starting
      <3>2. call[1] # "connect"
        BY <2>2, <2>4 DEF Attempts
      <3>3. /\ connect_' = connect_
            /\ \/ connect_ /\ (Begun(timers) \/ Idle(timers))
               \/ UNCHANGED <<state_, channel_, timers>> /\ Running'
        BY <2>4, <3>1, StartCases DEF ClientTypes
      <3>4. /\ ~Has("startInLoop", Queue') /\ Once("startInLoop", Queue')
            /\ Has("stopInLoop", Queue') => Has("stopInLoop", Queue)
            /\ Has("forceClose", Queue') => Has("forceClose", Queue)
            /\ ~Has("resetChannel", Queue')
            /\ StopsFirst(Queue) => StopsFirst(Queue')
        BY <2>1, <2>4, <3>1, <1>a, <1>b, Popped DEF Attempts
      <3>5. /\ Running'
            /\ \/ state_' = "kConnecting" /\ channel_' = "polled" /\ timers' = <<>>
               \/ /\ state_' = "kDisconnected" /\ channel_' = "null"
                  /\ timers' = <<>> \/ (timers' # <<>> /\ Len(timers') = 1)
        BY <3>1, <3>3, <1>c DEF Begun, Idle, Running
      <3>6. Attempts'
        BY <2>1, <3>1, <3>2, <3>3, <3>4, <3>5 DEF Attempts, Starting
      <3>7. Pending'
        BY <2>1, <2>4, <3>1, <3>5, <1>b DEF Pending, Stages
      <3>8. Lives'
        BY <2>1, <2>2, <2>3, <2>4, <3>3, <3>4, <3>5 DEF Lives
      <3> QED
        BY <3>5, <3>6, <3>7, <3>8
    <2>5. CASE op = "stopInLoop" /\ stopInLoop
      <3>1. CASE state_ = "kConnecting"
        <4>1. abandon
          BY <2>5, <3>1 DEF stopInLoop
        <4>2. ~connect_ /\ ~Starting /\ timers = <<>> /\ wanted # "fresh"
          BY <2>2, <2>5, <3>1, QueueFacts DEF Attempts, Starting
        <4>3. /\ state_' = "kDisconnected" /\ channel_' = "removed"
              /\ pending' = Append(pending, "resetChannel")
              /\ UNCHANGED <<connect_, timers, failed>>
          BY <4>1, <4>2, AbandonFacts DEF ClientTypes
        <4>4. /\ Has("startInLoop", Queue') <=> Has("startInLoop", Queue)
              /\ Once("startInLoop", Queue')
              /\ Has("forceClose", Queue') => Has("forceClose", Queue)
          BY <2>1, <2>5, <4>3, <1>a, Swapped DEF Attempts
        <4>5. connection_ = "none" /\ channel_ # "null"
          BY <3>1 DEF Stages
        <4>6. Attempts'
          BY <2>1, <4>2, <4>3, <4>4 DEF Attempts, Starting
        <4>7. Pending'
          BY <2>1, <4>2, <4>3, <4>5 DEF Pending
        <4>8. Lives'
          BY <2>1, <4>2, <4>3, <4>4, <4>5 DEF Lives
        <4> QED
          BY <4>3, <4>6, <4>7, <4>8 DEF Running
      <3>2. CASE state_ # "kConnecting"
        <4>1. UNCHANGED <<connectorVars, pending, failed>>
          BY <2>5, <3>2 DEF stopInLoop
        <4>2. /\ Has("startInLoop", Queue') <=> Has("startInLoop", Queue)
              /\ Once("startInLoop", Queue')
              /\ Has("stopInLoop", Queue') => Has("stopInLoop", Queue)
              /\ Has("resetChannel", Queue') => Has("resetChannel", Queue)
              /\ Has("forceClose", Queue') => Has("forceClose", Queue)
              /\ StopsFirst(Queue) => StopsFirst(Queue')
          BY <2>1, <2>5, <4>1, <1>a, Popped DEF Attempts
        <4>3. Attempts'
          BY <2>1, <4>1, <4>2 DEF Attempts, Starting
        <4>4. Pending' /\ Lives'
          BY <2>1, <4>1, <4>2 DEF Pending, Lives
        <4> QED
          BY <4>1, <4>3, <4>4 DEF Running
      <3> QED
        BY <3>1, <3>2
    <2>6. CASE op = "resetChannel" /\ resetChannel /\ pending' = pending
      <3>1. channel_ = "removed"
        BY <2>2, <2>6 DEF Stages
      <3>2. channel_' = "null" /\ UNCHANGED <<connect_, state_, timers, failed>>
        BY <2>6 DEF resetChannel
      <3>3. /\ Has("startInLoop", Queue') <=> Has("startInLoop", Queue)
            /\ Once("startInLoop", Queue')
            /\ Has("stopInLoop", Queue') => Has("stopInLoop", Queue)
            /\ Has("resetChannel", Queue') => Has("resetChannel", Queue)
            /\ Has("forceClose", Queue') => Has("forceClose", Queue)
            /\ StopsFirst(Queue) => StopsFirst(Queue')
        BY <2>1, <2>6, <1>a, Popped DEF Attempts
      <3>4. Attempts'
        BY <2>1, <3>1, <3>2, <3>3 DEF Attempts, Starting
      <3>5. Pending' /\ Lives'
        BY <2>1, <2>2, <2>6, <3>2, <3>3 DEF Pending, Lives
      <3> QED
        BY <3>2, <3>4, <3>5 DEF Running
    <2> QED
      BY <1>1, <2>3, <2>4, <2>5, <2>6 DEF RunConnector
  <1>2. ASSUME NEW o \in Outcomes, RetryTimer(o) PROVE Goal
    <2>1. /\ "timer" \in active /\ active' = active \ {"timer"} /\ lpc = "events"
          /\ UNCHANGED <<pending, lpc, batch, clientConnect_, retry_, connection_, client, keeper,
                         todo, userVars, Queue>>
      BY <1>2 DEF RetryTimer, Dispatch, Queue
    <2>2. timers # <<>> /\ channel_ = "null" /\ Len(timers) = 1 /\ state_ = "kDisconnected"
      BY <2>1 DEF Pending, Attempts
    <2>3. /\ wanted # "fresh" /\ ~Starting /\ connector /\ connection_ = "none"
          /\ connect_ => client
          /\ active \cap {"channel", "connection"} = {} /\ todo = "none"
      BY <2>1, <2>2, <1>2 DEF Attempts, Lives, Stopped, Stages, RetryTimer, Dispatch, ClientTypes
    <2>4. PICK i \in DOMAIN timers :
            startInLoop(connect_, o, SubSeq(timers, 1, i - 1) \o SubSeq(timers, i + 1, Len(timers)))
      BY <1>2 DEF RetryTimer
    <2>5. PICK ts : ts = SubSeq(timers, 1, i - 1) \o SubSeq(timers, i + 1, Len(timers))
      OBVIOUS
    <2>6. ts \in Seq(Delays) /\ Len(ts) = 0
      BY <2>2, <2>5, TimerFacts DEF ClientTypes
    <2>7. ts = <<>> /\ startInLoop(connect_, o, ts)
      BY <2>4, <2>5, <2>6, FirstTimer
    <2>8. /\ connect_' = connect_
          /\ \/ connect_ /\ (Begun(<<>>) \/ Idle(<<>>))
             \/ UNCHANGED <<state_, channel_>> /\ timers' = <<>> /\ Running'
      BY <2>2, <2>6, <2>7, StartCases DEF ClientTypes
    <2>9. /\ Running'
          /\ \/ state_' = "kConnecting" /\ channel_' = "polled" /\ timers' = <<>> /\ connect_
             \/ /\ state_' = "kDisconnected" /\ channel_' = "null"
                /\ timers' = <<>> \/ (timers' # <<>> /\ Len(timers') = 1)
      BY <2>2, <2>8, FirstTimer DEF Begun, Idle, Running
    <2>10. client \/ keeper \/ timers' # <<>> => connector'
      BY <1>2 DEF RetryTimer
    <2>11. Attempts'
      BY <2>1, <2>2, <2>3, <2>8, <2>9 DEF Attempts, Starting
    <2>12. Pending'
      BY <2>1, <2>3, <2>9 DEF Pending
    <2>13. Lives'
      BY <2>1, <2>2, <2>3, <2>8, <2>9, <2>10 DEF Lives
    <2> QED
      BY <2>9, <2>11, <2>12, <2>13
  <1>d. ASSUME NEW s \in {"channel"}, state_ = "kConnecting", lpc = "events", todo = "none",
               active' = active \ {s}, pending' = Append(pending, "resetChannel"),
               UNCHANGED <<batch, lpc, clientConnect_, retry_, client, connector, keeper, todo,
                           userVars, connect_, failed>>,
               state_' # "kConnecting", channel_' = "removed",
               state_' = "kDisconnected" \/ timers' = timers,
               timers' = timers \/ \E d \in Delays : timers' = Append(timers, d),
               connection_' = connection_ \/ connect_
        PROVE  Goal
    <2>1. /\ timers = <<>> /\ ~Starting /\ wanted # "fresh" /\ channel_ # "null"
          /\ connection_ = "none" /\ (client \/ keeper)
          /\ active \cap {"timer", "connection", "keeper"} = {}
      BY <1>d DEF Attempts, Pending, Lives, Stages, Starting
    <2>2. /\ Has("startInLoop", Queue') <=> Has("startInLoop", Queue)
          /\ Once("startInLoop", Queue')
          /\ Has("forceClose", Queue') => Has("forceClose", Queue)
          /\ StopsFirst(Queue) => StopsFirst(Queue')
      BY <1>d, <1>a, Pushed DEF Attempts
    <2>3. timers' = <<>> \/ (timers' # <<>> /\ Len(timers') = 1 /\ state_' = "kDisconnected")
      BY <1>d, <2>1, FirstTimer
    <2>4. Attempts'
      BY <1>d, <2>1, <2>2, <2>3 DEF Attempts, Starting
    <2>5. Pending'
      BY <1>d, <2>1 DEF Pending
    <2>6. Lives'
      BY <1>d, <2>1, <2>2 DEF Lives
    <2> QED
      BY <1>d, <2>4, <2>5, <2>6 DEF Running
  <1>3. CASE ChannelError
    <2>1. /\ state_ = "kConnecting" /\ lpc = "events" /\ todo = "none" /\ active' = active \ {"channel"}
          /\ UNCHANGED <<batch, lpc, clientVars, todo, userVars>>
      BY <1>3 DEF ChannelError, Dispatch, Stages
    <2>2. abandon
      BY <1>3, <2>1 DEF ChannelError, handleError
    <2> QED
      BY <2>1, <2>2, <1>d, AbandonFacts DEF ClientTypes
  <1>4. ASSUME NEW good \in BOOLEAN, NEW keep \in BOOLEAN, ChannelWritable(good, keep)
        PROVE  Goal
    <2>1. /\ state_ = "kConnecting" /\ lpc = "events" /\ todo = "none" /\ active' = active \ {"channel"}
          /\ UNCHANGED <<batch, lpc, clientConnect_, retry_, client, connector, keeper, todo, userVars>>
          /\ connection_' = connection_ \/ connect_
      BY <1>4 DEF ChannelWritable, Dispatch, Stages, handsOver
    <2>2. CASE good
      <3>1. /\ state_' = "kConnected" /\ channel_' = "removed"
            /\ pending' = Append(pending, "resetChannel")
            /\ UNCHANGED <<connect_, timers, failed>>
        BY <1>4, <2>1, <2>2 DEF ChannelWritable, handleWrite, removeAndResetChannel
      <3> QED
        BY <2>1, <3>1, <1>d
    <2>3. CASE ~good
      <3>1. abandon
        BY <1>4, <2>1, <2>3 DEF ChannelWritable, handleWrite
      <3> QED
        BY <2>1, <3>1, <1>d, AbandonFacts DEF ClientTypes
    <2> QED
      BY <2>2, <2>3
  <1>5. CASE KeeperTimer
    <2>1. /\ "keeper" \in active /\ active' = active \ {"keeper"} /\ lpc = "events"
          /\ keeper' = FALSE /\ connector' = (timers # <<>>)
          /\ UNCHANGED <<connectorVars, pending, batch, lpc, clientConnect_, retry_, connection_, client,
                         todo, userVars, Queue>>
      BY <1>5 DEF KeeperTimer, Dispatch, Queue
    <2>2. keeper /\ pending = <<>> /\ channel_ = "null" /\ batch = <<>> /\ ~client
      BY <2>1 DEF Pending, Lives, Stages
    <2>3. ~Has("startInLoop", Queue) /\ ~Has("stopInLoop", Queue) /\ ~Has("resetChannel", Queue)
      BY <2>2, <1>a, QueueFacts
    <2>4. Running'
      BY <1>5, <2>2 DEF KeeperTimer, Asserts, Running
    <2>5. Attempts'
      BY <2>1 DEF Attempts, Starting
    <2>6. Pending'
      BY <2>1 DEF Pending
    <2>7. Lives'
      BY <2>1, <2>2, <2>3 DEF Lives
    <2> QED
      BY <2>4, <2>5, <2>6, <2>7
  <1>6. CASE doPendingFunctors
    <2>1. Queue' = Queue
      BY <1>6, Taken DEF Stages, doPendingFunctors
    <2>2. /\ pending' = <<>> /\ lpc' = "functors" /\ active = {}
          /\ UNCHANGED <<connectorVars, failed, clientVars, active, todo, userVars>>
      BY <1>6 DEF doPendingFunctors
    <2>3. ~Has("resetChannel", pending')
      BY <2>2, QueueFacts
    <2>4. Attempts' /\ Lives'
      BY <2>1, <2>2 DEF Attempts, Starting, Lives
    <2> QED
      BY <2>2, <2>3, <2>4 DEF Pending, Running
  <1>7. CASE EndFunctors
    <2>1. /\ lpc = "functors" /\ lpc' = "poll" /\ batch = <<>> /\ active = {}
          /\ UNCHANGED <<connectorVars, pending, failed, clientVars, active, batch, todo, userVars, Queue>>
      BY <1>7 DEF EndFunctors, Queue, Stages
    <2>2. (timers # <<>> \/ connection_ # "none") => channel_ = "null"
      BY <2>1, <1>b DEF Pending, Attempts, Stages, ClientTypes
    <2>3. Attempts' /\ Lives'
      BY <2>1 DEF Attempts, Starting, Lives
    <2> QED
      BY <2>1, <2>2, <2>3 DEF Pending, Running
  <1>8. CASE PeerCloses
    <2>1. /\ connection_' = "down" /\ todo' = "removeConnection" /\ lpc = "events"
          /\ "connection" \in active /\ active' = active \ {"connection"} /\ connection_ # "none"
          /\ UNCHANGED <<connectorVars, pending, failed, retry_, client, lpc, batch, Queue,
                         clientConnect_, connector, keeper, userVars>>
      BY <1>8 DEF PeerCloses, Dispatch, ConnectionDown, Stages, Queue
    <2>2. Attempts'
      BY <2>1 DEF Attempts, Starting
    <2>3. Pending' /\ Lives'
      BY <2>1 DEF Pending, Lives
    <2> QED
      BY <2>1, <2>2, <2>3 DEF Running
  <1>9. CASE ForceClose
    <2>1. /\ Run("forceClose") /\ lpc = "functors" /\ active = {}
          /\ UNCHANGED <<lpc, active, connectorVars, pending, failed, retry_, client, clientConnect_,
                         connector, keeper, userVars>>
          /\ \/ connection_ # "none" /\ connection_' = "down" /\ todo' = "removeConnection"
             \/ UNCHANGED <<connection_, todo>>
      BY <1>9 DEF ForceClose, Run, ConnectionDown, Stages
    <2>2. /\ Has("forceClose", Queue)
          /\ Has("startInLoop", Queue') <=> Has("startInLoop", Queue)
          /\ Once("startInLoop", Queue')
          /\ Has("stopInLoop", Queue') <=> Has("stopInLoop", Queue)
          /\ Has("resetChannel", Queue') <=> Has("resetChannel", Queue)
          /\ StopsFirst(Queue) => StopsFirst(Queue')
      BY <2>1, <1>a, Popped DEF Attempts
    <2>3. ~client
      BY <2>2 DEF Lives
    <2>4. Attempts'
      BY <2>1, <2>2, <2>3 DEF Attempts, Starting
    <2>5. Pending'
      BY <2>1, <2>3 DEF Pending
    <2>6. Lives'
      BY <2>1, <2>2, <2>3 DEF Lives
    <2> QED
      BY <2>1, <2>4, <2>5, <2>6 DEF Running
  <1>10. CASE removeConnection
    <2>1. /\ connection_ = "down" /\ connection_' = "none" /\ pending' = Append(pending, "connectDestroyed")
          /\ todo = "removeConnection" /\ todo' # "removeConnection"
          /\ todo' = "restart" => client /\ retry_ /\ clientConnect_
          /\ UNCHANGED <<connectorVars, failed, clientConnect_, retry_, client, connector, keeper,
                         lpc, active, batch, userVars>>
      BY <1>10 DEF removeConnection, Stages, reconnects
    <2>2. /\ Has("startInLoop", Queue') <=> Has("startInLoop", Queue)
          /\ Once("startInLoop", Queue')
          /\ Has("stopInLoop", Queue') <=> Has("stopInLoop", Queue)
          /\ Has("resetChannel", Queue') <=> Has("resetChannel", Queue)
          /\ Has("forceClose", Queue') <=> Has("forceClose", Queue)
          /\ StopsFirst(Queue) => StopsFirst(Queue')
      BY <2>1, <1>a, Pushed DEF Attempts
    <2>3. state_ = "kConnected" /\ ~keeper /\ "connection" \notin active
      BY <2>1 DEF Stages, Lives
    <2>4. todo' = "restart" => connect_ /\ channel_ = "null"
      <3>1. wanted # "fresh" /\ call[1] # "connect"
        BY <2>3 DEF Attempts, Starting
      <3>2. call # <<"connect", 1>>
        BY <3>1
      <3> QED
        BY <2>1, <3>1, <3>2 DEF Attempts, Pending
    <2>5. Attempts'
      BY <2>1, <2>2, <2>4 DEF Attempts, Starting
    <2>6. Has("resetChannel", pending') <=> Has("resetChannel", pending)
      BY <2>1, <1>a, QueueFacts
    <2>7. Pending'
      BY <2>1, <2>3, <2>6 DEF Pending
    <2>8. Lives'
      BY <2>1, <2>2, <2>3 DEF Lives
    <2> QED
      BY <2>1, <2>5, <2>7, <2>8 DEF Running
  <1>11. CASE connectDestroyed
    <2>1. /\ Run("connectDestroyed") /\ lpc = "functors" /\ active = {}
          /\ UNCHANGED <<lpc, active, pending, failed, connect_, state_, channel_, timers, clientVars,
                         todo, userVars>>
      BY <1>11 DEF connectDestroyed, Run, Stages
    <2>2. /\ Has("startInLoop", Queue') <=> Has("startInLoop", Queue)
          /\ Once("startInLoop", Queue')
          /\ Has("stopInLoop", Queue') <=> Has("stopInLoop", Queue)
          /\ Has("resetChannel", Queue') <=> Has("resetChannel", Queue)
          /\ Has("forceClose", Queue') <=> Has("forceClose", Queue)
          /\ StopsFirst(Queue) => StopsFirst(Queue')
      BY <2>1, <1>a, Popped DEF Attempts
    <2>3. Attempts'
      BY <2>1, <2>2 DEF Attempts, Starting
    <2>4. Pending' /\ Lives'
      BY <2>1, <2>2 DEF Pending, Lives
    <2> QED
      BY <2>1, <2>3, <2>4 DEF Running
  <1>12. ASSUME NEW o \in Outcomes, Restart(o) PROVE Goal
    <2>1. /\ todo = "restart" /\ todo' = "none"
          /\ UNCHANGED <<pending, clientVars, lpc, active, batch, userVars, Queue>>
      BY <1>12 DEF Restart, Queue
    <2>2. /\ connection_ = "none" /\ state_ = "kConnected" /\ connect_ /\ channel_ = "null" /\ client
          /\ timers = <<>> /\ ~Starting /\ wanted # "fresh" /\ ~keeper /\ connector
      BY <2>1 DEF Stages, Attempts, Lives
    <2>3. connect_' = TRUE /\ (Begun(timers) \/ Idle(timers))
      BY <1>12, RestartCases DEF Restart, ClientTypes
    <2>4. /\ Running'
          /\ \/ state_' = "kConnecting" /\ channel_' = "polled" /\ timers' = <<>>
             \/ /\ state_' = "kDisconnected" /\ channel_' = "null"
                /\ timers' = <<>> \/ (timers' # <<>> /\ Len(timers') = 1)
      BY <2>2, <2>3, <1>c DEF Begun, Idle, Running
    <2>5. active \cap {"timer", "connection", "keeper"} = {}
      BY <2>2 DEF Pending, Stages, Lives
    <2>6. Attempts'
      BY <2>1, <2>2, <2>3, <2>4 DEF Attempts, Starting
    <2>7. Pending'
      BY <2>1, <2>2, <2>4, <2>5, <1>b DEF Pending
    <2>8. Lives'
      BY <2>1, <2>2, <2>4, <2>5 DEF Lives
    <2> QED
      BY <2>4, <2>6, <2>7, <2>8
  <1>13. ASSUME NEW ready \in SUBSET Sources, Poll(ready) PROVE Goal
    <2>1. /\ lpc = "poll" /\ lpc' = "events" /\ active' = ready
          /\ UNCHANGED <<connectorVars, pending, failed, clientVars, batch, todo, userVars, Queue>>
      BY <1>13 DEF Poll, Queue
    <2>2. /\ "timer" \in ready => timers # <<>>
          /\ "connection" \in ready => connection_ # "none"
          /\ "keeper" \in ready => keeper /\ pending = <<>> /\ channel_ = "null"
      BY DEF Sources
    <2>3. Attempts'
      BY <2>1 DEF Attempts, Starting
    <2>4. Pending' /\ Lives'
      BY <2>1, <2>2 DEF Pending, Lives
    <2> QED
      BY <2>1, <2>3, <2>4 DEF Running
  <1>14. ASSUME NEW op \in LoopCalls, NEW o \in Outcomes, LoopCall(op, o) PROVE Goal
    <2>1. /\ lpc # "poll" /\ todo # "restart" /\ client /\ wanted' = Word(op)
          /\ clientConnect_' = (op = "connect")
          /\ op = "connect" => call = NoCall /\ wanted = "fresh"
          /\ UNCHANGED <<retry_, client, connector, keeper, loopVars, call>>
      BY <1>14 DEF LoopCall, MayCall
    <2>2. ~keeper /\ connector
      BY <2>1 DEF Lives
    <2>3. CASE op = "connect" /\ startInLoop(TRUE, o, timers) /\ UNCHANGED <<pending, connection_>>
      <3>1. /\ state_ = "kDisconnected" /\ channel_ = "null" /\ timers = <<>> /\ ~Starting
            /\ ~Has("stopInLoop", Queue) /\ call = NoCall /\ wanted' = "yes"
        BY <2>1, <2>3 DEF Attempts, Word
      <3>2. Queue' = Queue
        BY <2>1, <2>3 DEF Queue
      <3>3. connect_' = TRUE /\ (Begun(timers) \/ Idle(timers))
        <4>1. /\ connect_' = TRUE
              /\ \/ Begun(timers) \/ Idle(timers)
                 \/ UNCHANGED <<state_, channel_, sockets>> /\ timers' = timers /\ Running'
          BY <2>3, <3>1, StartCases DEF ClientTypes
        <4>2. connect(TRUE, o, retryDelayMs_, timers)
          BY <2>3, <3>1 DEF startInLoop
        <4> QED
          BY <4>1, <4>2, ConnectCases DEF Idle, ClientTypes
      <3>4. /\ Running'
            /\ \/ state_' = "kConnecting" /\ channel_' = "polled" /\ timers' = <<>>
               \/ /\ state_' = "kDisconnected" /\ channel_' = "null"
                  /\ timers' = <<>> \/ (timers' # <<>> /\ Len(timers') = 1)
        BY <3>1, <3>3, <1>c DEF Begun, Idle, Running
      <3>5. active \cap {"timer", "connection", "keeper"} = {} /\ connection_ = "none"
        BY <3>1, <2>2 DEF Pending, Stages, Lives
      <3>6. StopsFirst(Queue)
        BY <3>1, QueueFacts
      <3>7. Attempts'
        BY <2>1, <3>1, <3>2, <3>3, <3>4, <3>6 DEF Attempts, Starting
      <3>8. todo # "removeConnection"
        BY <3>5 DEF Stages
      <3>9. Pending'
        BY <2>1, <2>3, <3>1, <3>4, <3>5, <3>8, <1>b DEF Pending
      <3>10. Lives'
        BY <2>1, <2>2, <3>2, <3>4, <3>5 DEF Lives
      <3> QED
        BY <3>4, <3>7, <3>9, <3>10
    <2>4. CASE op = "disconnect" /\ Shutdown /\ UNCHANGED <<connectorVars, pending, failed>>
      <3>1. Queue' = Queue /\ wanted' = wanted /\ ~clientConnect_'
        BY <2>1, <2>4 DEF Queue, Word
      <3>2. connection_' = "none" <=> connection_ = "none"
        BY <2>4 DEF Shutdown
      <3>3. Attempts'
        BY <2>1, <2>4, <3>1 DEF Attempts, Starting
      <3>4. Pending' /\ Lives'
        BY <2>1, <2>4, <3>1, <3>2 DEF Pending, Lives
      <3> QED
        BY <2>4, <3>3, <3>4 DEF Running
    <2>5. CASE /\ op = "stop" /\ connect_' = FALSE
               /\ pending' = Append(pending, "stopInLoop")
               /\ UNCHANGED <<state_, retryDelayMs_, channel_, timers, sockets, waited, gaveUp, failed,
                              connection_>>
      <3>1. /\ Has("startInLoop", Queue') <=> Has("startInLoop", Queue)
            /\ Once("startInLoop", Queue')
            /\ Has("forceClose", Queue') <=> Has("forceClose", Queue)
        BY <2>1, <2>5, <1>a, Pushed DEF Attempts
      <3>2. wanted' = "no" /\ ~clientConnect_'
        BY <2>1, <2>5 DEF Word
      <3>3. Has("resetChannel", pending') <=> Has("resetChannel", pending)
        BY <2>5, <1>a, QueueFacts
      <3>4. Attempts'
        BY <2>1, <2>5, <3>1, <3>2 DEF Attempts, Starting
      <3>5. "keeper" \notin active
        BY <2>2 DEF Lives
      <3>6. Pending' /\ Lives'
        BY <2>1, <2>2, <2>5, <3>1, <3>3, <3>5 DEF Pending, Lives
      <3> QED
        BY <2>5, <3>4, <3>6 DEF Running
    <2> QED
      BY <1>14, <2>3, <2>4, <2>5 DEF LoopCall
  <1>15. CASE DestroyClient
    <2>1. /\ UNCHANGED <<clientConnect_, connection_, retry_, loopVars, call, state_, channel_, timers>>
          /\ todo # "restart" /\ client /\ client' = FALSE /\ wanted' = "no" /\ call = NoCall
      BY <1>15 DEF DestroyClient, MayCall
    <2>2. ~keeper /\ connector /\ "keeper" \notin active /\ call[1] # "connect"
      BY <2>1, CallFacts DEF Lives
    <2>3. CASE connection_ = "none"
      <3>1. /\ connect_' = FALSE /\ pending' = Append(pending, "stopInLoop") /\ keeper' = TRUE
            /\ UNCHANGED <<connector, failed>>
        BY <1>15, <2>3 DEF DestroyClient
      <3>2. /\ Has("startInLoop", Queue') <=> Has("startInLoop", Queue)
            /\ Once("startInLoop", Queue')
        BY <2>1, <3>1, <1>a, Pushed DEF Attempts
      <3>3. Has("resetChannel", pending') <=> Has("resetChannel", pending)
        BY <3>1, <1>a, QueueFacts
      <3>4. Attempts'
        BY <2>1, <3>1, <3>2 DEF Attempts, Starting
      <3>5. Pending' /\ Lives'
        BY <2>1, <2>2, <2>3, <3>1, <3>3 DEF Pending, Lives
      <3> QED
        BY <3>1, <3>4, <3>5 DEF Running
    <2>4. CASE connection_ # "none"
      <3>1. /\ pending' = pending \/ pending' = Append(pending, "forceClose")
            /\ connector' = (timers # <<>>) /\ UNCHANGED <<connect_, keeper>>
            /\ failed' = IF connector' \/ channel_ = "null" THEN failed ELSE failed \cup {"~Connector"}
            /\ ~Queued("stopInLoop") /\ ~Queued("resetChannel")
        BY <1>15, <2>4 DEF DestroyClient, Asserts
      <3>2. /\ ~Has("stopInLoop", Queue) /\ ~Has("resetChannel", Queue) /\ ~Has("startInLoop", Queue)
            /\ channel_ = "null" /\ timers = <<>>
        BY <2>4, <3>1, <1>a, QueueFacts DEF Stages, Attempts, Starting, ClientTypes
      <3>3. /\ ~Has("stopInLoop", Queue') /\ ~Has("resetChannel", Queue') /\ ~Has("startInLoop", Queue')
            /\ Once("startInLoop", Queue') /\ (StopsFirst(Queue) => StopsFirst(Queue'))
            /\ ~Has("resetChannel", pending')
        <4>1. CASE pending' = pending
          BY <2>1, <3>2, <4>1, <1>b DEF Queue, Attempts
        <4>2. CASE pending' = Append(pending, "forceClose")
          BY <2>1, <3>2, <4>2, <1>a, <1>b, Pushed, QueueFacts DEF Attempts
        <4> QED
          BY <3>1, <4>1, <4>2
      <3>4. Attempts'
        BY <2>1, <2>2, <3>1, <3>2, <3>3 DEF Attempts, Starting
      <3>5. Pending'
        BY <2>1, <3>2, <3>3 DEF Pending
      <3>6. Lives'
        BY <2>1, <2>2, <3>1, <3>2, <3>3 DEF Lives
      <3> QED
        BY <3>1, <3>2, <3>4, <3>5, <3>6 DEF Running
    <2> QED
      BY <2>3, <2>4
  <1>16. ASSUME NEW op \in ForeignCalls, ForeignCall(op) PROVE Goal
    <2>1. /\ call = NoCall /\ client /\ call' = <<op, 1>>
          /\ op = "connect" => wanted = "fresh"
          /\ wanted' = IF op = "connect" THEN "yes" ELSE wanted
          /\ clientConnect_' = (op = "connect")
          /\ UNCHANGED <<connectorVars, pending, failed, retry_, connection_, client, connector, keeper,
                         loopVars, Queue>>
      BY <1>16 DEF ForeignCall, MayCall, Queue
    <2>2. call'[1] = op /\ call[1] # "connect"
      BY <2>1, CallFacts
    <2>3. Attempts'
      <3>1. CASE op = "connect"
        BY <2>1, <2>2, <3>1 DEF Attempts, Starting
      <3>2. CASE op # "connect"
        <4>1. ~clientConnect_' /\ wanted' = wanted
          BY <2>1, <3>2
        <4> QED
          BY <2>1, <2>2, <3>2, <4>1 DEF Attempts, Starting
      <3> QED
        BY <3>1, <3>2
    <2>4. Pending' /\ Lives'
      BY <2>1 DEF Pending, Lives
    <2> QED
      BY <2>1, <2>3, <2>4 DEF Running
  <1>17. CASE ForeignSet
    <2>1. call # NoCall /\ client /\ ~keeper
      BY <1>17, CallFacts DEF ForeignSet, Stopped, Lives
    <2>2. /\ UNCHANGED <<state_, channel_, timers, pending, failed, clientConnect_, retry_, client,
                         connector, keeper, loopVars, Queue>>
          /\ connection_' = connection_ \/ Shutdown
      BY <1>17 DEF ForeignSet, Queue
    <2>3. connection_' = "none" <=> connection_ = "none"
      BY <2>2 DEF Shutdown
    <2>4. Pending' /\ Lives'
      BY <2>1, <2>2, <2>3 DEF Pending, Lives
    <2>5. Attempts'
      <3>1. CASE call[1] = "disconnect"
        <4>1. call' = NoCall /\ UNCHANGED <<connect_, wanted>>
          BY <1>17, <3>1 DEF ForeignSet
        <4>2. call # <<"connect", 1>>
          BY <3>1
        <4> QED
          BY <2>2, <3>1, <4>1, <4>2, CallFacts DEF Attempts, Starting
      <3>2. CASE call[1] = "connect"
        <4>1. call' = <<"connect", 2>> /\ connect_' = TRUE /\ wanted' = "yes"
          BY <1>17, <3>2 DEF ForeignSet
        <4>2. call'[1] = "connect"
          BY <4>1
        <4> QED
          BY <2>2, <3>2, <4>1, <4>2 DEF Attempts, Starting
      <3>3. CASE call[1] = "stop"
        <4>1. call' = <<"stop", 2>> /\ connect_' = FALSE /\ wanted' = wanted
          BY <1>17, <3>3 DEF ForeignSet
        <4>2. call'[1] = "stop" /\ ~retry_ /\ todo # "restart"
          BY <3>3, <4>1 DEF Stopped, Stages
        <4> QED
          BY <2>2, <3>3, <4>1, <4>2 DEF Attempts, Starting
      <3> QED
        BY <2>1, <3>1, <3>2, <3>3, CallFacts DEF ClientTypes
    <2> QED
      BY <2>2, <2>4, <2>5 DEF Running
  <1>18. CASE ForeignQueue
    <2>1. call # NoCall /\ client /\ call[2] = 2 /\ call' = NoCall /\ ~keeper
      BY <1>18, CallFacts DEF ForeignQueue, Stopped, Lives
    <2>2. /\ UNCHANGED <<connectorVars, failed, clientVars, loopVars>>
          /\ pending' = Append(pending, IF call[1] = "connect" THEN "startInLoop" ELSE "stopInLoop")
          /\ wanted' = IF call[1] = "stop" THEN "no" ELSE wanted
      BY <1>18 DEF ForeignQueue
    <2>3. call # <<"connect", 1>> /\ "keeper" \notin active
      BY <2>1 DEF Lives
    <2>4. CASE call[1] = "connect"
      <3>1. pending' = Append(pending, "startInLoop") /\ wanted' = wanted /\ ~Has("startInLoop", Queue)
        BY <2>2, <2>4 DEF Attempts
      <3>2. /\ Has("stopInLoop", Queue') <=> Has("stopInLoop", Queue)
            /\ Has("resetChannel", Queue') <=> Has("resetChannel", Queue)
            /\ Has("forceClose", Queue') <=> Has("forceClose", Queue)
            /\ Once("startInLoop", Queue') /\ StopsFirst(Queue')
        BY <2>2, <3>1, <1>a, Pushed DEF Attempts
      <3>3. Has("resetChannel", pending') <=> Has("resetChannel", pending)
        BY <3>1, <1>a, QueueFacts
      <3>4. Attempts'
        BY <2>1, <2>2, <2>3, <2>4, <3>1, <3>2, CallFacts DEF Attempts, Starting
      <3>5. Pending' /\ Lives'
        BY <2>1, <2>2, <2>3, <3>2, <3>3 DEF Pending, Lives
      <3> QED
        BY <2>2, <3>4, <3>5 DEF Running
    <2>5. CASE call[1] = "stop"
      <3>1. pending' = Append(pending, "stopInLoop") /\ wanted' = "no" /\ ~connect_
        BY <2>1, <2>2, <2>5 DEF Stopped
      <3>2. /\ Has("startInLoop", Queue') <=> Has("startInLoop", Queue)
            /\ Has("resetChannel", Queue') <=> Has("resetChannel", Queue)
            /\ Has("forceClose", Queue') <=> Has("forceClose", Queue)
            /\ Once("startInLoop", Queue')
        BY <2>2, <3>1, <1>a, Pushed DEF Attempts
      <3>3. Has("resetChannel", pending') <=> Has("resetChannel", pending)
        BY <3>1, <1>a, QueueFacts
      <3>4. client /\ retry_ /\ clientConnect_ => FALSE
        BY <2>5 DEF Stopped
      <3>5. Attempts'
        BY <2>1, <2>2, <2>3, <2>5, <3>1, <3>2, <3>4, CallFacts DEF Attempts, Starting
      <3>6. Pending' /\ Lives'
        BY <2>1, <2>2, <2>3, <3>2, <3>3 DEF Pending, Lives
      <3> QED
        BY <2>2, <3>5, <3>6 DEF Running
    <2> QED
      BY <2>1, <2>4, <2>5, CallFacts DEF ClientTypes
  <1>19. CASE UNCHANGED vars
    <2>1. Queue' = Queue
      BY <1>19 DEF vars, Queue
    <2>2. Attempts'
      BY <1>19, <2>1 DEF vars, Attempts, Starting
    <2> QED
      BY <1>19, <2>1, <2>2 DEF vars, Pending, Lives, Running
  <1> QED
    BY <1>1, <1>2, <1>3, <1>4, <1>5, <1>6, <1>7, <1>8, <1>9, <1>10, <1>11, <1>12, <1>13, <1>14,
       <1>15, <1>16, <1>17, <1>18, <1>19 DEF Next, LoopStep, ConnectorStep

\* For a client that is connected once, whose user does not destroy it under
\* functors of the Connector and does not stop it from another thread while it
\* reconnects: startInLoop() always finds kDisconnected, connecting() a channel
\* that was reset, ~Connector() none, and every functor its Connector.
THEOREM ConnectorAssertions ==
    ASSUME ~Reconnects, ~StopsRetrying, ~EarlyDestroy
    PROVE  Spec => []ConnectorAssertionsHold
  <1>1. ClientInv /\ [Next]_vars => ClientInv'
    BY ClientInvStep
  <1>2. ClientInv => ConnectorAssertionsHold
    BY DEF ClientInv, ConnectorAssertionsHold
  <1> QED
    BY <1>1, <1>2, ClientInvInit, PTL DEF Spec
=============================================================================
