------------------------------ MODULE TcpServer ------------------------------
(***************************************************************************)
(* A muduo::net::TcpServer with its Acceptor in the base loop and its      *)
(* connections in the base loop or in io loops, each a thread of its own.  *)
(*                                                                         *)
(* A connection is accepted in the base loop, established and closed in    *)
(* its io loop, erased from connections_ in the base loop and destroyed in *)
(* its io loop: the functors that carry it from loop to loop hold it by    *)
(* TcpConnectionPtr, but hold the server by a raw pointer.  A loop is its  *)
(* queue of functors, which EventLoop shows to be first in, first out, and *)
(* it handles events between any two of them.  Of a connection (see        *)
(* TcpConnection) its state and its channel are kept.                      *)
(***************************************************************************)
EXTENDS Integers, Sequences, FiniteSets, Functions

CONSTANTS MaxThreads,  \* bound: io loops
          MaxConns,    \* bound: clients that connect
          MaxFds,      \* descriptors left for connections, then accept() fails with EMFILE
          ForeignClose, \* forceClose() is called in threads other than the connection's
          OwnerLeaves, \* states of a connection in which ~TcpServer() may find it
          DestroyWith  \* loops that ~TcpServer() may find with connections or functors

BaseLoop == 0
Loops == 0..MaxThreads
Conns == 1..MaxConns

ASSUME ServerAssumption == /\ MaxThreads \in Nat
                           /\ MaxConns \in Nat
                           /\ MaxFds \in Nat \ {0}
                           /\ ForeignClose \in BOOLEAN
                           /\ DestroyWith \subseteq Loops

VARIABLES
    numThreads_,
    next_,        \* of the pool, see EventLoopThread
    listening_,
    backlog,      \* clients that connect(2) has put in the queue of accept(2)
    nextConnId_,
    connections_,
    server,       \* "up", "destroying" or "gone"
    queue,        \* queue[l]: pendingFunctors_ of loop l
    stopped,      \* loops whose loop() has returned
    closing,      \* closing[l]: the connection whose handleClose() l is in, or 0
    forcing,      \* forcing[l]: the connection whose forceClose() l is in, or 0
    state_,       \* of each connection; "none" before it is accepted
    channel,      \* of each: "kNew", "on", "off": in the poller without events
    ioLoop,       \* of each
    failed

serverVars == <<numThreads_, next_, listening_, backlog, nextConnId_, server, stopped>>
threadVars == <<closing, forcing>>
connVars == <<state_, channel, ioLoop>>
vars == <<serverVars, connections_, queue, threadVars, connVars, failed>>

Init == /\ numThreads_ \in 0..MaxThreads
        /\ next_ = 0
        /\ listening_ = FALSE
        /\ backlog = 0
        /\ nextConnId_ = 1
        /\ connections_ = {}
        /\ server = "up"
        /\ queue = [l \in Loops |-> <<>>]
        /\ stopped = {}
        /\ closing = [l \in Loops |-> 0]
        /\ forcing = [l \in Loops |-> 0]
        /\ state_ = [c \in Conns |-> "none"]
        /\ channel = [c \in Conns |-> "kNew"]
        /\ ioLoop = [c \in Conns |-> BaseLoop]
        /\ failed = {}

Running == failed = {}

Functor(op, c) == [op |-> op, conn |-> c]
Push(q, l, op, c) == [q EXCEPT ![l] = Append(@, Functor(op, c))]

Fails(p, a) == IF p THEN {a} ELSE {}

\* Somebody holds a TcpConnectionPtr to c: the map, a functor, a handler or user code.
Alive(c) == \/ c \in connections_
            \/ \E l \in Loops : \/ c \in {closing[l], forcing[l]}
                               \/ \E f \in Range(queue[l]) : f.conn = c

\* Loop l is between two functors or events.
Idle(l) == /\ Running
           /\ closing[l] = 0
           /\ forcing[l] = 0
           /\ l \notin stopped
           /\ l = BaseLoop => server # "destroying"

-----------------------------------------------------------------------------
(* The base loop: accepting.                                               *)

\* Acceptor::listen()
listen == listening_' = TRUE

start ==
    /\ Idle(BaseLoop)
    /\ server = "up"
    /\ ~listening_
    /\ listen
    /\ UNCHANGED <<numThreads_, next_, backlog, nextConnId_, server, stopped, connections_, queue,
                   threadVars, connVars, failed>>

\* EventLoopThreadPool::getNextLoop(): the next loop, counted from 1.
getNextLoop == IF numThreads_ = 0 THEN BaseLoop ELSE next_ + 1

\* The state of a connection and of its channel after connectEstablished().
Establish(c) == /\ state_' = [state_ EXCEPT ![c] = "kConnected"]
                /\ channel' = [channel EXCEPT ![c] = "on"]

\* newConnection(): connectEstablished() runs at once or in the io loop.
newConnection(c) ==
    /\ nextConnId_' = c + 1
    /\ next_' = IF next_ + 1 >= numThreads_ THEN 0 ELSE next_ + 1
    /\ connections_' = connections_ \cup {c}
    /\ ioLoop' = [ioLoop EXCEPT ![c] = getNextLoop]
    /\ IF getNextLoop = BaseLoop THEN Establish(c) /\ UNCHANGED queue
       ELSE /\ queue' = Push(queue, getNextLoop, "connectEstablished", c)
            /\ state_' = [state_ EXCEPT ![c] = "kConnecting"]
            /\ UNCHANGED channel

\* Acceptor::handleRead().  With no descriptor left accept() fails: nothing is
\* done but to try again, for ever if need be.
handleRead ==
    /\ Idle(BaseLoop)
    /\ server = "up"
    /\ listening_
    /\ backlog > 0
    /\ Cardinality({c \in Conns : Alive(c)}) < MaxFds
    /\ backlog' = backlog - 1
    /\ newConnection(nextConnId_)
    /\ UNCHANGED <<numThreads_, listening_, server, stopped, threadVars, failed>>

-----------------------------------------------------------------------------
(* Closing.                                                                *)

\* Mutant: the channel keeps its events.
handleCloseEnabled(l, c) ==
    /\ state_' = [state_ EXCEPT ![c] = "kDisconnected"]
    /\ closing' = [closing EXCEPT ![l] = c]
    /\ UNCHANGED channel

\* Mutant: connectDestroyed() is left to set the state.
handleCloseLateState(l, c) ==
    /\ channel' = [channel EXCEPT ![c] = "off"]
    /\ closing' = [closing EXCEPT ![l] = c]
    /\ UNCHANGED state_

\* TcpConnection::handleClose() in loop l, up to the call of closeCallback_.
handleClose(l, c) ==
    /\ state_' = [state_ EXCEPT ![c] = "kDisconnected"]
    /\ channel' = [channel EXCEPT ![c] = "off"]
    /\ closing' = [closing EXCEPT ![l] = c]

\* The peer has closed the connection.
PeerCloses(c) ==
    /\ Idle(ioLoop[c])
    /\ channel[c] = "on"
    /\ failed' = failed \cup Fails(state_[c] \notin {"kConnected", "kDisconnecting"}, "handleClose")
    /\ handleClose(ioLoop[c], c)
    /\ UNCHANGED <<serverVars, connections_, queue, forcing, ioLoop>>

\* User code in the io loop shuts the connection down.
UserShutdown(c) ==
    /\ Idle(ioLoop[c])
    /\ state_[c] = "kConnected"
    /\ state_' = [state_ EXCEPT ![c] = "kDisconnecting"]
    /\ UNCHANGED <<serverVars, connections_, queue, threadVars, channel, ioLoop, failed>>

\* User code in loop l calls forceClose() (bound: once at a time for each
\* connection).  It tests state_,
ForceTest(l, c) ==
    /\ Idle(l)
    /\ l = ioLoop[c] \/ ForeignClose
    /\ Alive(c)
    /\ state_[c] \in {"kConnected", "kDisconnecting"}
    /\ Functor("forceClose", c) \notin Range(queue[ioLoop[c]])
    /\ \A m \in Loops : forcing[m] # c
    /\ forcing' = [forcing EXCEPT ![l] = c]
    /\ UNCHANGED <<serverVars, connections_, queue, closing, connVars, failed>>

\* and then sets it and queues the rest, while the other loops run on.  The
\* loops that the server does not use stand for any other thread.
ForceSet(l) ==
    LET c == forcing[l]
    IN  /\ Running
        /\ c # 0
        /\ forcing' = [forcing EXCEPT ![l] = 0]
        /\ state_' = [state_ EXCEPT ![c] = "kDisconnecting"]
        /\ queue' = Push(queue, ioLoop[c], "forceClose", c)
        /\ failed' = failed \cup Fails(ioLoop[c] \in stopped, "raw loop")
        /\ UNCHANGED <<serverVars, connections_, closing, channel, ioLoop>>

\* Mutant: the entry stays in the map.
removeConnectionInLoopKeeps(q, c) ==
    /\ queue' = Push(q, ioLoop[c], "connectDestroyed", c)
    /\ UNCHANGED <<connections_, failed>>

\* Mutant: the connection is not destroyed in its loop.
removeConnectionInLoopOnly(q, c) ==
    /\ failed' = failed \cup Fails(c \notin connections_, "removeConnection")
    /\ connections_' = connections_ \ {c}
    /\ queue' = q

\* In the base loop, q being the queues; the server may be gone by then.
removeConnectionInLoop(q, c) ==
    /\ failed' = failed \cup Fails(server = "gone", "raw server")
                        \cup Fails(c \notin connections_, "removeConnection")
    /\ connections_' = connections_ \ {c}
    /\ queue' = Push(q, ioLoop[c], "connectDestroyed", c)

\* closeCallback_ is removeConnection(), on the raw server: at once in the
\* base loop, otherwise by a functor.
removeConnection(l) ==
    LET c == closing[l]
    IN  /\ Running
        /\ c # 0
        /\ closing' = [closing EXCEPT ![l] = 0]
        /\ IF l = BaseLoop THEN removeConnectionInLoop(queue, c)
           ELSE /\ failed' = failed \cup Fails(server = "gone", "raw server")
                /\ queue' = Push(queue, BaseLoop, "removeConnectionInLoop", c)
                /\ UNCHANGED connections_
        /\ UNCHANGED <<serverVars, forcing, connVars>>

\* connectDestroyed() closes a connection that is up, and removes the channel.
connectDestroyed(c) ==
    /\ state_' = [state_ EXCEPT ![c] = IF @ = "kConnected" THEN "kDisconnected" ELSE @]
    /\ channel' = [channel EXCEPT ![c] = "kNew"]
    /\ failed' = failed
         \cup Fails(state_[c] # "kConnected" /\ channel[c] = "on", "Channel::remove")
         \cup Fails(channel[c] = "kNew", "removeChannel")

\* Loop l runs its next functor.
RunFunctor(l) ==
    LET f == Head(queue[l])
        rest == [queue EXCEPT ![l] = Tail(@)]
        open == state_[f.conn] \in {"kConnected", "kDisconnecting"}
    IN  /\ Idle(l)
        /\ queue[l] # <<>>
        /\ \/ /\ f.op = "connectEstablished"
              /\ Establish(f.conn)
              /\ failed' = failed \cup Fails(state_[f.conn] # "kConnecting", f.op)
              /\ queue' = rest
              /\ UNCHANGED <<connections_, closing>>
           \/ /\ f.op = "forceClose"
              /\ IF open THEN handleClose(l, f.conn)
                 ELSE UNCHANGED <<state_, channel, closing>>
              /\ queue' = rest
              /\ UNCHANGED <<connections_, failed>>
           \/ /\ f.op = "removeConnectionInLoop"
              /\ removeConnectionInLoop(rest, f.conn)
              /\ UNCHANGED <<closing, state_, channel>>
           \/ /\ f.op = "connectDestroyed"
              /\ connectDestroyed(f.conn)
              /\ queue' = rest
              /\ UNCHANGED <<connections_, closing>>
        /\ UNCHANGED <<serverVars, forcing, ioLoop>>

-----------------------------------------------------------------------------
(* ~TcpServer(), in the base loop.                                         *)

\* The owner has waited for the loops outside DestroyWith to have no connection
\* and nothing left to do.
BeginDestroy ==
    /\ Idle(BaseLoop)
    /\ server = "up"
    /\ \A c \in connections_ : ioLoop[c] \in DestroyWith /\ state_[c] \in OwnerLeaves
    /\ \A l \in Loops \ DestroyWith : queue[l] = <<>> /\ closing[l] = 0 /\ forcing[l] = 0
    /\ server' = "destroying"
    /\ UNCHANGED <<numThreads_, next_, listening_, backlog, nextConnId_, stopped, connections_, queue,
                   threadVars, connVars, failed>>

\* One iteration of its loop; runInLoop() for connections of other loops queues.
DestroyConnection(c) ==
    /\ Running
    /\ server = "destroying"
    /\ c \in connections_
    /\ connections_' = connections_ \ {c}
    /\ IF ioLoop[c] = BaseLoop THEN connectDestroyed(c) /\ UNCHANGED queue
       ELSE /\ queue' = Push(queue, ioLoop[c], "connectDestroyed", c)
            /\ UNCHANGED <<state_, channel, failed>>
    /\ UNCHANGED <<serverVars, threadVars, ioLoop>>

\* threadPool_ goes after that: the threads of the io loops are told to quit and
\* are joined, one after the other.  A loop that quits drops what was queued
\* since it last took its functors, here anything that is queued.
LoopEnds(l) ==
    /\ Running
    /\ server = "destroying"
    /\ connections_ = {}
    /\ l \in 1..numThreads_
    /\ 1..(l - 1) \subseteq stopped /\ l \notin stopped
    /\ closing[l] = 0 /\ forcing[l] = 0
    /\ stopped' = stopped \cup {l}
    /\ queue' = [queue EXCEPT ![l] = <<>>]
    /\ UNCHANGED <<numThreads_, next_, listening_, backlog, nextConnId_, server, connections_,
                   threadVars, connVars, failed>>

\* The last of the members is acceptor_.
EndDestroy ==
    /\ Running
    /\ server = "destroying"
    /\ connections_ = {}
    /\ 1..numThreads_ \subseteq stopped
    /\ server' = "gone"
    /\ listening_' = FALSE
    /\ UNCHANGED <<numThreads_, next_, backlog, nextConnId_, stopped, connections_, queue, threadVars,
                   connVars, failed>>

-----------------------------------------------------------------------------
\* A client connects.
ClientConnects ==
    /\ Running
    /\ listening_
    /\ nextConnId_ + backlog <= MaxConns
    /\ backlog' = backlog + 1
    /\ UNCHANGED <<numThreads_, next_, listening_, nextConnId_, server, stopped, connections_, queue,
                   threadVars, connVars, failed>>

LoopStep(l) == RunFunctor(l) \/ removeConnection(l) \/ ForceSet(l)
Destruction == \/ \E c \in Conns : DestroyConnection(c)
               \/ \E l \in Loops : LoopEnds(l)
               \/ EndDestroy

Next == \/ start
        \/ handleRead
        \/ \E l \in Loops : LoopStep(l)
        \/ BeginDestroy
        \/ Destruction
        \/ ClientConnects
        \/ \E c \in Conns : PeerCloses(c) \/ UserShutdown(c)
        \/ \E l \in Loops, c \in Conns : ForceTest(l, c)

Spec == Init /\ [][Next]_vars

\* The threads run; the listening socket is polled for as long as a client
\* waits; every client closes its connection in the end.
Fairness == /\ \A l \in Loops : WF_vars(LoopStep(l))
            /\ WF_vars(Destruction)
            /\ WF_vars(handleRead)
            /\ \A c \in Conns : WF_vars(PeerCloses(c))

FairSpec == Spec /\ Fairness

-----------------------------------------------------------------------------
(* Properties.                                                             *)

\* A connection that nobody holds any more is closed and out of its poller:
\* ~TcpConnection() and ~Channel() assert it, whoever drops the last pointer.
ReleasedClosed ==
    \A c \in 1..(nextConnId_ - 1) : ~Alive(c) => state_[c] = "kDisconnected" /\ channel[c] = "kNew"

\* The assertions of the server, of its connections and of their channels
\* hold, those of the destructors too, and nothing is called on a server or a
\* loop that is gone.
ServerAssertionsHold == Running /\ ReleasedClosed

\* While the server is up, connections_ has every connection that is not
\* closed, although it is closed in one thread and erased in another; what is
\* in connections_ but closed is on its way to the base loop.
MapMatches ==
    server = "up" =>
      \A c \in 1..(nextConnId_ - 1) :
        IF c \in connections_
          THEN state_[c] = "kDisconnected" =>
                 \/ closing[ioLoop[c]] = c
                 \/ Functor("removeConnectionInLoop", c) \in Range(queue[BaseLoop])
          ELSE state_[c] = "kDisconnected"

\* A connection that is closed is taken out of its poller and released, so that
\* its descriptor is free again, and so is every connection of a server that
\* is destroyed.
Reclaimed ==
    \A c \in Conns :
      (state_[c] = "kDisconnected" \/ (server = "gone" /\ state_[c] # "none"))
          ~> (channel[c] = "kNew" /\ ~Alive(c) /\ state_[c] = "kDisconnected")

\* Clients that come when there is no descriptor left are accepted later.
AcceptsAgain == (backlog > 0) ~> (backlog = 0 \/ server # "up")
=============================================================================
