------------------------------ MODULE TcpClient ------------------------------
(***************************************************************************)
(* A muduo::net::TcpClient with its Connector, the event loop both live in,*)
(* the server, user code in the loop thread and one other thread.          *)
(*                                                                         *)
(* poll() reports a set of sources; their handlers run, then the functors  *)
(* that were queued by then.  User code in the loop thread runs between    *)
(* any two of these, and inside the callback that tells of a connection's  *)
(* end.  Of the connection itself (see TcpConnection) only its life is     *)
(* kept: up, half closed by shutdown(), down.                              *)
(***************************************************************************)
EXTENDS Connector, FiniteSets

CONSTANTS LoopCalls,    \* calls made from user code in the loop thread
          ForeignCalls, \* calls made by the other thread
          Reconnects,   \* connect() is also called again after stop()
          StopsRetrying,\* another thread also stops a client that reconnects
          EarlyDestroy, \* ~TcpClient() while functors of the Connector are queued
          MaxCalls      \* bound: calls in all

ClientCalls == {"connect", "disconnect", "stop", "destroy"}

ASSUME ClientCallsAssumption == /\ LoopCalls \subseteq ClientCalls
                                /\ ForeignCalls \subseteq ClientCalls \ {"destroy"}
                                /\ Reconnects \in BOOLEAN
                                /\ StopsRetrying \in BOOLEAN
                                /\ EarlyDestroy \in BOOLEAN
                                /\ MaxCalls \in Nat

VARIABLES
    clientConnect_, \* TcpClient::connect_
    retry_,
    connection_,    \* "none", "up", "shut" or "down"
    held,           \* the user keeps a TcpConnectionPtr
    client,         \* the TcpClient exists
    connector,      \* the Connector exists
    keeper,         \* the timer of ~TcpClient() that keeps the Connector alive
    lpc,            \* "poll", "events" or "functors"
    active,         \* sources that poll() reported, not yet handled
    batch,          \* functors being run
    todo,           \* what the handler that called user code has still to do
    call,           \* <<op, step>>: where the other thread is in a call, or NoCall
    wanted,         \* history: "fresh", then by the last connect() or stop() "yes" or "no"
    calls           \* calls so far

clientVars == <<clientConnect_, retry_, connection_, held, client, connector, keeper>>
loopVars == <<lpc, active, batch, todo>>
userVars == <<call, wanted, calls>>
vars == <<connectorVars, pending, failed, clientVars, loopVars, userVars>>

NoCall == <<"none", 0>>

Init == /\ ConnectorInit
        /\ pending = <<>>
        /\ failed = {}
        /\ clientConnect_ = TRUE
        /\ retry_ \in BOOLEAN
        /\ connection_ = "none"
        /\ held = FALSE
        /\ client = TRUE
        /\ connector = TRUE
        /\ keeper = FALSE
        /\ lpc = "functors"
        /\ active = {}
        /\ batch = <<>>
        /\ todo = "none"
        /\ call = NoCall
        /\ wanted = "fresh"
        /\ calls = 0

Running == failed = {}
-----------------------------------------------------------------------------
(* The loop.                                                               *)

Sources == {s \in {"channel", "timer", "connection", "keeper"} :
              \/ s = "channel" /\ channel_ = "polled"
              \/ s = "timer" /\ timers # <<>>
              \/ s = "connection" /\ connection_ \in {"up", "shut"}
              \/ s = "keeper" /\ keeper /\ pending = <<>> /\ channel_ = "null"}

\* poll() returns.  Assumed of "keeper": an iteration of the loop ends within
\* the second that ~TcpClient() allows for the functors it has queued.
Poll(ready) ==
    /\ Running
    /\ lpc = "poll"
    /\ ready # {} \/ pending # <<>>
    /\ lpc' = "events"
    /\ active' = ready
    /\ UNCHANGED <<connectorVars, pending, failed, clientVars, batch, todo, userVars>>

\* The source s is handled next.
Dispatch(s) ==
    /\ Running
    /\ lpc = "events"
    /\ todo = "none"
    /\ s \in active
    /\ active' = active \ {s}
    /\ UNCHANGED <<lpc, batch>>

doPendingFunctors ==
    /\ Running
    /\ lpc = "events"
    /\ active = {}
    /\ todo = "none"
    /\ lpc' = "functors"
    /\ batch' = pending
    /\ pending' = <<>>
    /\ UNCHANGED <<connectorVars, failed, clientVars, active, todo, userVars>>

EndFunctors ==
    /\ Running
    /\ lpc = "functors"
    /\ batch = <<>>
    /\ todo = "none"
    /\ lpc' = "poll"
    /\ UNCHANGED <<connectorVars, pending, failed, clientVars, active, batch, todo, userVars>>

\* The next functor is op.
Run(op) ==
    /\ Running
    /\ lpc = "functors"
    /\ todo = "none"
    /\ batch # <<>>
    /\ Head(batch) = op
    /\ batch' = Tail(batch)
    /\ UNCHANGED <<lpc, active>>

\* Functors bound to a raw Connector find it alive, or run on freed memory.
RunConnector(op, outcome) ==
    /\ Run(op)
    /\ IF ~connector THEN /\ Asserts(FALSE, "raw this")
                          /\ UNCHANGED <<connectorVars, pending>>
       ELSE \/ /\ op = "startInLoop"
               /\ startInLoop(connect_, outcome, timers)
               /\ UNCHANGED pending
            \/ op = "stopInLoop" /\ stopInLoop
            \/ op = "resetChannel" /\ resetChannel /\ UNCHANGED pending
    /\ UNCHANGED <<clientVars, todo, userVars>>

-----------------------------------------------------------------------------
(* Events of the connector's socket and its timers.                        *)

ChannelError ==
    /\ Dispatch("channel")
    /\ handleError
    /\ UNCHANGED <<clientVars, todo, userVars>>

\* newConnection(); the user may keep a pointer to the connection.
newConnection(keep) ==
    /\ connection_' = "up"
    /\ held' = keep

ChannelWritable(good, keep) ==
    /\ Dispatch("channel")
    /\ handleWrite(good)
    /\ IF state_' = "kConnected" /\ handsOver
         THEN newConnection(keep)
         ELSE UNCHANGED <<connection_, held>>
    /\ UNCHANGED <<clientConnect_, retry_, client, connector, keeper, todo, userVars>>

\* A retry timer holds the Connector by a shared pointer.
RetryTimer(outcome) ==
    /\ Dispatch("timer")
    /\ \E i \in DOMAIN timers :
         startInLoop(connect_, outcome, SubSeq(timers, 1, i - 1) \o SubSeq(timers, i + 1, Len(timers)))
    /\ connector' = (client \/ keeper \/ timers' # <<>>)
    /\ UNCHANGED <<pending, clientConnect_, retry_, connection_, held, client, keeper, todo, userVars>>

\* removeConnector() does nothing, but the pointer bound to it goes.
KeeperTimer ==
    /\ Dispatch("keeper")
    /\ keeper' = FALSE
    /\ connector' = (timers # <<>>)
    /\ Asserts(connector' \/ channel_ = "null", "~Connector")
    /\ UNCHANGED <<connectorVars, pending, clientConnect_, retry_, connection_, held, client, todo,
                   userVars>>

-----------------------------------------------------------------------------
(* The connection.                                                         *)

\* TcpConnection::handleClose(): the user is told, then closeCallback_ is called.
ConnectionDown ==
    /\ connection_' = "down"
    /\ held' = FALSE
    /\ todo' = "removeConnection"
    /\ UNCHANGED <<connectorVars, pending, failed, clientConnect_, retry_, client, connector, keeper,
                   userVars>>

PeerCloses == Dispatch("connection") /\ ConnectionDown

\* forceCloseInLoop()
ForceClose ==
    /\ Run("forceClose")
    /\ IF connection_ \in {"up", "shut"} THEN ConnectionDown
       ELSE UNCHANGED <<connectorVars, pending, failed, clientVars, todo, userVars>>

reconnects == retry_ /\ clientConnect_

\* closeCallback_: TcpClient::removeConnection(), or what ~TcpClient() has put
\* in its place.  Whether to reconnect is decided here,
removeConnection ==
    /\ Running
    /\ todo = "removeConnection"
    /\ connection_' = "none"
    /\ pending' = Append(pending, "connectDestroyed")
    /\ todo' = IF client /\ reconnects THEN "restart" ELSE "none"
    /\ UNCHANGED <<connectorVars, failed, clientConnect_, retry_, held, client, connector, keeper,
                   lpc, active, batch, userVars>>

\* and done here.
Restart(outcome) ==
    /\ Running
    /\ todo = "restart"
    /\ todo' = "none"
    /\ restart(outcome)
    /\ UNCHANGED <<pending, clientVars, lpc, active, batch, userVars>>

\* Mutant: the socket of a connection is left open.
connectDestroyedLeaks ==
    /\ Run("connectDestroyed")
    /\ UNCHANGED <<connectorVars, pending, failed, clientVars, todo, userVars>>

\* The last pointer to the connection goes, and its Socket with it.
connectDestroyed ==
    /\ Run("connectDestroyed")
    /\ sockets' = sockets - 1
    /\ UNCHANGED <<connect_, state_, retryDelayMs_, channel_, timers, waited, gaveUp, pending, failed,
                   clientVars, todo, userVars>>

-----------------------------------------------------------------------------
(* The API.                                                                *)

\* The user calls the client while it exists, and does not connect() it while
\* another thread is in a call, nor again unless Reconnects and after stop().
MayCall(op) ==
    /\ Running
    /\ client
    /\ calls < MaxCalls
    /\ op = "connect" => call = NoCall /\ (wanted = "fresh" \/ (Reconnects /\ wanted = "no"))
    /\ calls' = calls + 1

Word(op) == IF op = "connect" THEN "yes" ELSE IF op = "disconnect" THEN wanted ELSE "no"

Shutdown == connection_' = IF connection_ = "up" THEN "shut" ELSE connection_

\* In the loop thread runInLoop() starts an attempt at once.
LoopCall(op, outcome) ==
    /\ lpc # "poll"
    /\ todo \in {"none", "removeConnection"}
    /\ MayCall(op)
    /\ wanted' = Word(op)
    /\ clientConnect_' = (op = "connect")
    /\ \/ /\ op = "connect"
          /\ startInLoop(TRUE, outcome, timers)
          /\ UNCHANGED <<pending, connection_>>
       \/ /\ op = "disconnect"
          /\ Shutdown
          /\ UNCHANGED <<connectorVars, pending, failed>>
       \/ /\ op = "stop"
          /\ connect_' = FALSE
          /\ pending' = Append(pending, "stopInLoop")
          /\ UNCHANGED <<state_, retryDelayMs_, channel_, timers, sockets, waited, gaveUp, failed,
                         connection_>>
    /\ UNCHANGED <<retry_, held, client, connector, keeper, loopVars, call>>

Queued(f) == f \in Range(pending) \cup Range(batch)

\* ~TcpClient() in the loop thread.  A connection that nobody else holds is
\* closed; without a connection the Connector is told to stop, and a timer
\* keeps it for a second.  Nothing keeps it when there is a connection.
DestroyClient ==
    /\ lpc # "poll"
    /\ todo \in {"none", "removeConnection"}
    /\ call = NoCall
    /\ EarlyDestroy \/ connection_ = "none" \/ ~(Queued("stopInLoop") \/ Queued("resetChannel"))
    /\ MayCall("destroy")
    /\ wanted' = "no"
    /\ client' = FALSE
    /\ IF connection_ = "none"
         THEN /\ connect_' = FALSE
              /\ pending' = Append(pending, "stopInLoop")
              /\ keeper' = TRUE
              /\ UNCHANGED <<state_, retryDelayMs_, channel_, timers, sockets, waited, gaveUp, failed,
                             connector>>
         ELSE /\ pending' = IF ~held /\ connection_ # "down" THEN Append(pending, "forceClose")
                            ELSE pending
              /\ connector' = (timers # <<>>)
              /\ Asserts(connector' \/ channel_ = "null", "~Connector")
              /\ UNCHANGED <<connectorVars, keeper>>
    /\ UNCHANGED <<clientConnect_, retry_, connection_, held, loopVars, call>>

\* The other thread sets TcpClient::connect_,
ForeignCall(op) ==
    /\ call = NoCall
    /\ op = "stop" => ~retry_ \/ StopsRetrying
    /\ MayCall(op)
    /\ call' = <<op, 1>>
    /\ wanted' = IF op = "connect" THEN "yes" ELSE wanted
    /\ clientConnect_' = (op = "connect")
    /\ UNCHANGED <<connectorVars, pending, failed, retry_, connection_, held, client, connector,
                   keeper, loopVars>>

\* then Connector::connect_, or shuts the connection down under mutex_,
ForeignSet ==
    LET op == call[1]
    IN  /\ Running
        /\ call[2] = 1
        /\ wanted' = IF op = "connect" THEN "yes" ELSE wanted
        /\ IF op = "disconnect"
             THEN /\ Shutdown
                  /\ call' = NoCall
                  /\ UNCHANGED connect_
             ELSE /\ connect_' = (op = "connect")
                  /\ call' = <<op, 2>>
                  /\ UNCHANGED connection_
        /\ UNCHANGED <<state_, retryDelayMs_, channel_, timers, sockets, waited, gaveUp, pending, failed,
                       clientConnect_, retry_, held, client, connector, keeper, loopVars, calls>>

\* and queues the functor.
ForeignQueue ==
    /\ Running
    /\ call[2] = 2
    /\ call' = NoCall
    /\ pending' = Append(pending, IF call[1] = "connect" THEN "startInLoop" ELSE "stopInLoop")
    /\ wanted' = IF call[1] = "stop" THEN "no" ELSE wanted
    /\ UNCHANGED <<connectorVars, failed, clientVars, loopVars, calls>>

-----------------------------------------------------------------------------
ConnectorStep ==
    \/ \E op \in {"startInLoop", "stopInLoop", "resetChannel"}, o \in Outcomes : RunConnector(op, o)
    \/ \E o \in Outcomes : RetryTimer(o)
    \/ ChannelError
    \/ \E good, keep \in BOOLEAN : ChannelWritable(good, keep)

LoopStep ==
    \/ ConnectorStep \/ KeeperTimer \/ doPendingFunctors \/ EndFunctors
    \/ PeerCloses \/ ForceClose \/ removeConnection \/ connectDestroyed
    \/ \E o \in Outcomes : Restart(o)

Next == \/ LoopStep
        \/ \E ready \in SUBSET Sources : Poll(ready)
        \/ \E op \in LoopCalls, o \in Outcomes : LoopCall(op, o)
        \/ "destroy" \in LoopCalls /\ DestroyClient
        \/ \E op \in ForeignCalls : ForeignCall(op)
        \/ ForeignSet
        \/ ForeignQueue

Spec == Init /\ [][Next]_vars

\* The threads run, timers expire, the server answers every attempt, and it
\* does not refuse or drop them for ever.
Fairness == /\ WF_vars(LoopStep)
            /\ WF_vars(ForeignSet)
            /\ WF_vars(ForeignQueue)
            /\ WF_vars(Poll({}))
            /\ SF_vars(\E ready \in SUBSET Sources : "timer" \in ready /\ Poll(ready))
            /\ SF_vars(\E ready \in SUBSET Sources : "channel" \in ready /\ Poll(ready))
            /\ SF_vars(RetryTimer("inProgress"))
            /\ SF_vars(\E keep \in BOOLEAN : ChannelWritable(TRUE, keep))

FairSpec == Spec /\ Fairness

-----------------------------------------------------------------------------
(* Properties.                                                             *)

\* The assertions of Connector hold, and no functor runs on a Connector that is
\* gone: an attempt never starts while another is under way or its channel is
\* not reset yet, and the Connector outlives what it has queued.
ConnectorAssertionsHold == Running

\* startInLoop() asserts that no attempt is under way and none has succeeded.
StartsDisconnected == "startInLoop" \notin failed

\* Once stop() or ~TcpClient() has been called in the loop thread, no attempt
\* begins and no connection is handed to the user, whatever retry timers and
\* functors are still about.
StopStops ==
    [][wanted = "no" /\ wanted' = "no" =>
         /\ state_ # "kConnecting" => state_' # "kConnecting"
         /\ connection_ = "none" => connection_' = "none"]_vars

\* Every socket is closed once, by whoever is responsible: those open are the
\* one of the attempt under way, the connection's, and those of connections
\* about to be destroyed.
SocketsAccounted ==
    LET one(p) == IF p THEN 1 ELSE 0
        queue == batch \o pending
        dying == {i \in DOMAIN queue : queue[i] = "connectDestroyed"}
    IN  sockets = one(channel_ = "polled") + one(connection_ # "none") + Cardinality(dying)

\* The delays begin at kInitRetryDelayMs with the first retry after a
\* connection, whether the attempt fails at once or later, and each retry after
\* it waits twice as long as the one before, kMaxRetryDelayMs at most.
Backoff ==
    [][timers' # timers /\ Len(timers') >= Len(timers) =>
         timers'[Len(timers')] =
           IF waited = 0 THEN kInitRetryDelayMs
           ELSE IF 2 * waited <= kMaxRetryDelayMs THEN 2 * waited ELSE kMaxRetryDelayMs]_vars

\* A client that was told to connect gets its connection, unless it is told to
\* stop or connect(2) fails with an error that is not retried; with retry_ it
\* also gets another one when that is lost.
Connects ==
    (wanted = "yes" /\ (state_ # "kConnected" \/ todo = "restart"))
        ~> (connection_ # "none" \/ wanted = "no" \/ gaveUp)
=============================================================================
