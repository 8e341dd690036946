---------------------------- MODULE TcpConnection ----------------------------
(***************************************************************************)
(* One muduo::net::TcpConnection with its Channel, its registration in the *)
(* EPollPoller of the io loop, the functors queued in that loop, the owner *)
(* (a TcpServer or TcpClient in the same loop) that destroys it, and the   *)
(* peer.                                                                   *)
(*                                                                         *)
(* The loop thread works off a list, todo: the handlers that one reported  *)
(* event, one functor or one API call still has to run.  "userCode" stands *)
(* for a callback of the user, who may call the connection from there.     *)
(* Other threads call it too: they test state_ in one step and act on it   *)
(* in the next.  The loop itself (FIFO functors, no lost wakeup) is as     *)
(* EventLoop proves it to be.                                              *)
(*                                                                         *)
(* A failed assertion aborts the program: failed records which, and no     *)
(* step follows.  A message is two units long, so that it can be written   *)
(* in part.                                                                *)
(***************************************************************************)
EXTENDS Integers, Sequences, FiniteSets, Functions

CONSTANTS Threads,       \* threads other than the loop's
          LoopCalls,     \* API calls made from user code in the loop thread
          ForeignCalls,  \* API calls made by other threads
          OwnerLeaves,   \* states of the connection in which ~TcpServer() may find it
          MaxCalls,      \* bound: API calls in all
          MaxArrivals,   \* bound: pieces of data from the peer
          HighWaterMark  \* highWaterMark_, in units

ApiCalls == {"send", "shutdown", "forceClose", "forceCloseWithDelay", "startRead", "stopRead"}
States == {"kDisconnected", "kConnecting", "kConnected", "kDisconnecting"}

ASSUME CallsAssumption == /\ LoopCalls \subseteq ApiCalls
                          /\ ForeignCalls \subseteq ApiCalls
                          /\ OwnerLeaves \subseteq States
ASSUME ConnectionBoundsAssumption == /\ MaxCalls \in Nat
                                     /\ MaxArrivals \in Nat
                                     /\ HighWaterMark \in Nat

VARIABLES
    state_, reading_,
    events,        \* channel_->events_, a subset of {"R", "W"}
    index,         \* channel_->index_, what EPollPoller knows of the channel
    outputBuffer_, \* units not yet written
    wire,          \* units handed to the kernel
    accepted,      \* history: units that sendInLoop() took, in order
    peer,          \* "open", "fin": no more data will come, "rst": reset
    arrived,       \* data from the peer is waiting in the kernel
    soError,       \* SO_ERROR is set
    wrShut,        \* shutdown(SHUT_WR) has been called
    lpc,           \* "poll", "events" or "functors"
    todo,          \* see above
    pending,       \* the loop's pendingFunctors_, as far as they concern us
    batch,         \* the functors still to run of those swapped out
    batchHolds,    \* the swapped-out vector holds a TcpConnectionPtr
    owned,         \* the owner's map holds a TcpConnectionPtr
    hold,          \* hold[t]: thread t holds a TcpConnectionPtr
    call,          \* call[t]: the call that t has tested state_ for, or NoCall
    alive,         \* the TcpConnection object exists
    failed,        \* the assertions that failed
    closing,       \* history: shutdown() or forceClose() passed its test of state_
    downs,         \* history: calls of connectionCallback_ with "down"
    calls,         \* API calls so far
    arrivals       \* pieces of data from the peer so far

connVars == <<state_, reading_>>
chanVars == <<events, index>>
dataVars == <<outputBuffer_, wire, accepted>>
sockVars == <<peer, arrived, soError, wrShut>>
queueVars == <<lpc, pending, batch, batchHolds>>
refVars == <<owned, hold, alive>>
countVars == <<closing, calls, arrivals>>
vars == <<connVars, chanVars, dataVars, sockVars, queueVars, todo, refVars, call,
          failed, downs, countVars>>

\* What a handler in the loop thread leaves alone in any case.
Outside == <<lpc, batch, batchHolds, hold, alive, call, peer, countVars>>

Task(op) == [op |-> op, msg |-> 0]
\* A functor holds the connection by TcpConnectionPtr, or by raw this.
Shared(op) == [op |-> op, msg |-> 0, shared |-> TRUE]
Raw(op, m) == [op |-> op, msg |-> m, shared |-> FALSE]
Units(m) == <<m, m>>
NoCall == Task("none")

Init == /\ state_ = "kConnecting"
        /\ reading_ = TRUE
        /\ events = {}
        /\ index = "kNew"
        /\ outputBuffer_ = <<>>
        /\ wire = <<>>
        /\ accepted = <<>>
        /\ peer = "open"
        /\ arrived = FALSE
        /\ soError = FALSE
        /\ wrShut = FALSE
        /\ lpc = "poll"
        /\ todo = <<>>
        /\ pending = <<Shared("connectEstablished")>>
        /\ batch = <<>>
        /\ batchHolds = FALSE
        /\ owned = TRUE
        /\ hold = [t \in Threads |-> FALSE]
        /\ call = [t \in Threads |-> NoCall]
        /\ alive = TRUE
        /\ failed = {}
        /\ downs = 0
        /\ closing = FALSE
        /\ calls = 0
        /\ arrivals = 0

\* No assertion has failed so far.
Running == failed = {}

isWriting == "W" \in events
isReading == "R" \in events

\* The assertion named a fails unless p holds.
Asserts(p, a) == failed' = IF p THEN failed ELSE failed \cup {a}

\* The next entry of todo is op, and it is replaced by what follows from it.
Do(op) == Running /\ todo # <<>> /\ Head(todo).op = op
Then(more) == todo' = more \o Tail(todo)

\* Channel::update() and EPollPoller::updateChannel(): an update of a channel
\* that is not in the epoll set adds it, even with no event to wait for.
UpdateChannel(ev) ==
    /\ events' = ev
    /\ index' = IF index = "kAdded" /\ ev = {} THEN "kDeleted" ELSE "kAdded"

enableReading == UpdateChannel(events \cup {"R"})
disableReading == UpdateChannel(events \ {"R"})
enableWriting == UpdateChannel(events \cup {"W"})
disableWriting == UpdateChannel(events \ {"W"})
disableAll == UpdateChannel({})

-----------------------------------------------------------------------------
(* The io loop.                                                            *)

\* What epoll reports of the socket, w being whether it is writable: IN and
\* OUT if asked for, ERR and HUP in any case, nothing once it is not in the
\* epoll set.
Revents(w) ==
    IF index # "kAdded" THEN {}
    ELSE {r \in {"IN", "OUT", "ERR", "HUP"} :
            \/ r = "IN" /\ isReading /\ (arrived \/ peer # "open")
            \/ r = "OUT" /\ isWriting /\ (w \/ peer = "rst")
            \/ r = "ERR" /\ soError
            \/ r = "HUP" /\ (peer = "rst" \/ (peer = "fin" /\ wrShut))}

\* Channel::handleEventWithGuard(): the callbacks of one event and their order.
handleEvent(revents) ==
    LET callback(p, op) == IF p THEN <<Task(op)>> ELSE <<>>
    IN  callback("HUP" \in revents /\ "IN" \notin revents, "handleClose")
        \o callback("ERR" \in revents, "handleError")
        \o callback("IN" \in revents, "handleRead")
        \o callback("OUT" \in revents, "handleWrite")

\* poll() returns: the channel is active, or only a wakeup came.
Poll(w) ==
    /\ Running
    /\ lpc = "poll"
    /\ Revents(w) # {} \/ pending # <<>>
    /\ lpc' = "events"
    /\ todo' = handleEvent(Revents(w))
    /\ UNCHANGED <<connVars, chanVars, dataVars, sockVars, refVars, pending, batch, batchHolds,
                   call, failed, downs, countVars>>

doPendingFunctors ==
    /\ Running
    /\ lpc = "events"
    /\ todo = <<>>
    /\ lpc' = "functors"
    /\ batch' = pending
    /\ pending' = <<>>
    /\ batchHolds' = \E f \in Range(pending) : f.shared
    /\ UNCHANGED <<connVars, chanVars, dataVars, sockVars, refVars, todo, call, failed,
                   downs, countVars>>

\* A functor bound to a raw this must find the object.
RunFunctor ==
    /\ Running
    /\ lpc = "functors"
    /\ todo = <<>>
    /\ batch # <<>>
    /\ batch' = Tail(batch)
    /\ Asserts(Head(batch).shared \/ alive, "raw this")
    /\ todo' = <<[op |-> Head(batch).op, msg |-> Head(batch).msg]>>
    /\ UNCHANGED <<connVars, chanVars, dataVars, sockVars, refVars, lpc, pending, batchHolds,
                   call, downs, countVars>>

\* ~TcpConnection() and ~Channel(), when the last TcpConnectionPtr goes.
Destroy(last) ==
    /\ alive' = (alive /\ ~last)
    /\ failed' = failed \cup
         (IF alive /\ last
            THEN (IF state_ # "kDisconnected" THEN {"~TcpConnection"} ELSE {})
                 \cup (IF index # "kNew" THEN {"~Channel"} ELSE {})
            ELSE {})

QueuedPtr == \E f \in Range(pending) : f.shared

\* doPendingFunctors() returns and its vector goes, with the pointers in it.
EndFunctors ==
    /\ Running
    /\ lpc = "functors"
    /\ todo = <<>>
    /\ batch = <<>>
    /\ lpc' = "poll"
    /\ batchHolds' = FALSE
    /\ Destroy(~owned /\ ~QueuedPtr /\ \A t \in Threads : ~hold[t])
    /\ UNCHANGED <<connVars, chanVars, dataVars, sockVars, todo, pending, batch, owned, hold,
                   call, downs, countVars>>

-----------------------------------------------------------------------------
(* The handlers of TcpConnection, in the loop thread.                      *)

\* The user takes TcpConnectionPtrs for other threads in the callback.
connectEstablished ==
    /\ Do("connectEstablished")
    /\ Asserts(state_ = "kConnecting", "connectEstablished")
    /\ state_' = "kConnected"
    /\ enableReading
    /\ hold' = [t \in Threads |-> TRUE]
    /\ Then(<<Task("userCode")>>)
    /\ UNCHANGED <<reading_, dataVars, sockVars, queueVars, owned, alive, call, downs, countVars>>

\* Mutant: end of file is taken for an empty read.
handleReadIgnoreEof ==
    /\ Do("handleRead")
    /\ arrived' = FALSE
    /\ soError' = IF arrived THEN soError ELSE FALSE
    /\ Then(IF arrived THEN <<Task("userCode")>> ELSE <<>>)
    /\ UNCHANGED <<connVars, chanVars, dataVars, wrShut, pending, owned, failed, downs, Outside>>

\* n > 0: the message callback; n = 0: handleClose(); n < 0: handleError().
handleRead ==
    /\ Do("handleRead")
    /\ arrived' = FALSE
    /\ soError' = IF arrived THEN soError ELSE FALSE
    /\ Then(IF arrived THEN <<Task("userCode")>>
            ELSE IF soError THEN <<>> ELSE <<Task("handleClose")>>)
    /\ UNCHANGED <<connVars, chanVars, dataVars, wrShut, pending, owned, failed, downs, Outside>>

\* getSocketError() clears SO_ERROR.
handleError ==
    /\ Do("handleError")
    /\ soError' = FALSE
    /\ Then(<<>>)
    /\ UNCHANGED <<connVars, chanVars, dataVars, arrived, wrShut, pending, owned, failed, downs,
                   Outside>>

\* Mutant: the channel keeps its events.
handleCloseEnabled ==
    /\ Do("handleClose")
    /\ Asserts(state_ \in {"kConnected", "kDisconnecting"}, "handleClose")
    /\ state_' = "kDisconnected"
    /\ downs' = downs + 1
    /\ Then(<<Task("userCode"), Task("closeCallback")>>)
    /\ UNCHANGED <<reading_, chanVars, dataVars, arrived, soError, wrShut, pending, owned, Outside>>

\* Mutant: the state is set by connectDestroyed() only.
handleCloseLateState ==
    /\ Do("handleClose")
    /\ Asserts(state_ \in {"kConnected", "kDisconnecting"}, "handleClose")
    /\ disableAll
    /\ downs' = downs + 1
    /\ Then(<<Task("userCode"), Task("closeCallback")>>)
    /\ UNCHANGED <<connVars, dataVars, arrived, soError, wrShut, pending, owned, Outside>>

handleClose ==
    /\ Do("handleClose")
    /\ Asserts(state_ \in {"kConnected", "kDisconnecting"}, "handleClose")
    /\ state_' = "kDisconnected"
    /\ disableAll
    /\ downs' = downs + 1
    /\ Then(<<Task("userCode"), Task("closeCallback")>>)
    /\ UNCHANGED <<reading_, dataVars, arrived, soError, wrShut, pending, owned, Outside>>

\* Mutant: the owner leaves the cleanup to its own destructor.
closeCallbackKeeps ==
    /\ Do("closeCallback")
    /\ Then(<<>>)
    /\ UNCHANGED <<connVars, chanVars, dataVars, arrived, soError, wrShut, pending, owned, failed,
                   downs, Outside>>

\* closeCallback_: removeConnection() of the server or client takes the
\* connection out of its map and queues connectDestroyed().
closeCallback ==
    /\ Do("closeCallback")
    /\ Asserts(owned, "removeConnection")
    /\ owned' = FALSE
    /\ pending' = Append(pending, Shared("connectDestroyed"))
    /\ Then(<<>>)
    /\ UNCHANGED <<connVars, chanVars, dataVars, arrived, soError, wrShut, downs, Outside>>

\* ~TcpServer(), run by some functor of the loop: the server's pointer goes
\* and runInLoop() calls connectDestroyed() at once.
DestroyOwner ==
    /\ Running
    /\ lpc = "functors"
    /\ todo = <<>>
    /\ owned
    /\ state_ \in OwnerLeaves
    /\ owned' = FALSE
    /\ todo' = <<Task("connectDestroyed")>>
    /\ UNCHANGED <<connVars, chanVars, dataVars, sockVars, queueVars, hold, alive, call, failed,
                   downs, countVars>>

\* connectDestroyed() first closes a connection that is still up.
connectDestroyed ==
    /\ Do("connectDestroyed")
    /\ IF state_ = "kConnected"
         THEN /\ state_' = "kDisconnected"
              /\ disableAll
              /\ downs' = downs + 1
              /\ Then(<<Task("userCode"), Task("remove")>>)
         ELSE /\ Then(<<Task("remove")>>)
              /\ UNCHANGED <<state_, chanVars, downs>>
    /\ UNCHANGED <<reading_, dataVars, arrived, soError, wrShut, pending, owned, failed, Outside>>

\* Channel::remove(), EventLoop::removeChannel(), EPollPoller::removeChannel().
removeChannel ==
    /\ Do("remove")
    /\ failed' = failed \cup (IF events # {} THEN {"Channel::remove"} ELSE {})
                        \cup (IF index = "kNew" THEN {"removeChannel"} ELSE {})
    /\ index' = "kNew"
    /\ Then(<<>>)
    /\ UNCHANGED <<connVars, events, dataVars, arrived, soError, wrShut, pending, owned, downs,
                   Outside>>

\* Mutant: the direct write is tried while older units are still buffered.
WriteDirectlyAlways == TRUE

\* sendInLoop() writes directly when nothing is queued.
WriteDirectly == ~isWriting /\ outputBuffer_ = <<>>

\* sendInLoop(): write what the kernel takes, n units, buffer the rest, ask
\* for write events.  After a reset or a shutdown the write fails for good,
\* which reports SO_ERROR and clears it, and the message is dropped.
sendInLoop(n) ==
    LET u == Units(Head(todo).msg)
        broken == WriteDirectly /\ (peer = "rst" \/ wrShut)
        rest == IF WriteDirectly THEN SubSeq(u, n + 1, Len(u)) ELSE u
        old == Len(outputBuffer_)
        crosses == old < HighWaterMark /\ old + Len(rest) >= HighWaterMark
    IN  /\ Do("send")
        /\ ~WriteDirectly => n = 0
        /\ \/ /\ state_ = "kDisconnected" \/ broken
              /\ n = 0
              /\ UNCHANGED <<dataVars, chanVars, pending>>
           \/ /\ state_ # "kDisconnected" /\ ~broken
              /\ wire' = wire \o SubSeq(u, 1, n)
              /\ outputBuffer_' = outputBuffer_ \o rest
              /\ accepted' = accepted \o u
              /\ IF rest = <<>> THEN /\ pending' = Append(pending, Shared("writeComplete"))
                                     /\ UNCHANGED chanVars
                 ELSE /\ pending' = IF crosses THEN Append(pending, Shared("highWater"))
                                    ELSE pending
                      /\ IF isWriting THEN UNCHANGED chanVars
                         ELSE enableWriting
        /\ soError' = (soError /\ ~(state_ # "kDisconnected" /\ broken))
        /\ Then(<<>>)
        /\ UNCHANGED <<connVars, arrived, wrShut, owned, failed, downs, Outside>>

\* outputBuffer_.retrieve(n)
Retrieve(n) == SubSeq(outputBuffer_, n + 1, Len(outputBuffer_))

\* Mutant: the last unit written leaves the write interest on.
DrainedStayOn ==
    /\ pending' = Append(pending, Shared("writeComplete"))
    /\ Then(IF state_ = "kDisconnecting" THEN <<Task("shutdown")>> ELSE <<>>)
    /\ UNCHANGED chanVars

\* Mutant: a shutdown that had to wait for the buffer is forgotten.
DrainedForgetful ==
    /\ disableWriting
    /\ pending' = Append(pending, Shared("writeComplete"))
    /\ Then(<<>>)

\* handleWrite() has written the last unit: no more write events, and now the
\* shutdown that waited for the buffer.
Drained ==
    /\ disableWriting
    /\ pending' = Append(pending, Shared("writeComplete"))
    /\ Then(IF state_ = "kDisconnecting" THEN <<Task("shutdown")>> ELSE <<>>)

\* handleWrite() writes n units of the buffer, none after a reset.
handleWrite(n) ==
    /\ Do("handleWrite")
    /\ n = 0 <=> (~isWriting \/ peer = "rst")
    /\ wire' = wire \o SubSeq(outputBuffer_, 1, n)
    /\ outputBuffer_' = Retrieve(n)
    /\ IF n > 0 /\ outputBuffer_' = <<>> THEN Drained
       ELSE Then(<<>>) /\ UNCHANGED <<chanVars, pending>>
    /\ soError' = (soError /\ ~isWriting)
    /\ UNCHANGED <<connVars, arrived, wrShut, owned, failed, downs, accepted, Outside>>

\* Mutant: shutdownInLoop() does not wait for the buffer.
shutdownInLoopAtOnce ==
    /\ Do("shutdown")
    /\ wrShut' = TRUE
    /\ Then(<<>>)
    /\ UNCHANGED <<connVars, chanVars, dataVars, arrived, soError, pending, owned, failed, downs,
                   Outside>>

\* shutdownInLoop(); shutdown(2) fails on a connection that has been reset.
shutdownInLoop ==
    /\ Do("shutdown")
    /\ Asserts(isWriting \/ peer # "rst", "shutdownWrite")
    /\ wrShut' = (wrShut \/ ~isWriting)
    /\ Then(<<>>)
    /\ UNCHANGED <<connVars, chanVars, dataVars, arrived, soError, pending, owned, downs, Outside>>

forceCloseInLoop ==
    /\ Do("forceClose")
    /\ Then(IF state_ \in {"kConnected", "kDisconnecting"} THEN <<Task("handleClose")>> ELSE <<>>)
    /\ UNCHANGED <<connVars, chanVars, dataVars, arrived, soError, wrShut, pending, owned, failed,
                   downs, Outside>>

startReadInLoop ==
    /\ Do("startRead")
    /\ reading_' = TRUE
    /\ IF ~reading_ \/ ~isReading THEN enableReading ELSE UNCHANGED chanVars
    /\ Then(<<>>)
    /\ UNCHANGED <<state_, dataVars, arrived, soError, wrShut, pending, owned, failed, downs, Outside>>

stopReadInLoop ==
    /\ Do("stopRead")
    /\ reading_' = FALSE
    /\ IF reading_ \/ isReading THEN disableReading ELSE UNCHANGED chanVars
    /\ Then(<<>>)
    /\ UNCHANGED <<state_, dataVars, arrived, soError, wrShut, pending, owned, failed, downs, Outside>>

\* writeCompleteCallback_ and highWaterMarkCallback_ are user code.
userCallback ==
    /\ Do("writeComplete") \/ Do("highWater")
    /\ Then(<<Task("userCode")>>)
    /\ UNCHANGED <<connVars, chanVars, dataVars, arrived, soError, wrShut, pending, owned, failed,
                   downs, Outside>>

-----------------------------------------------------------------------------
(* The API.                                                                *)

\* The state in which a call does anything at all.
Accepts(op) == CASE op \in {"send", "shutdown"} -> state_ = "kConnected"
                 [] op \in {"startRead", "stopRead"} -> TRUE
                 [] OTHER -> state_ \in {"kConnected", "kDisconnecting"}

\* setState() in the calls that close the connection.
SetState(op) == state_' = IF op \in {"shutdown", "forceClose", "forceCloseWithDelay"}
                            THEN "kDisconnecting" ELSE state_

\* A call of user code in the loop thread.  runInLoop() runs the handler at
\* once, forceClose() queues it; forceCloseWithDelay() only sets the state, as
\* the timer that would close the connection is commented out.  Neither the
\* code nor a comment says so, but startRead() and stopRead() must not be called
\* on a connection that is down: they would register its channel again.
LoopCall(op) ==
    /\ Do("userCode")
    /\ calls < MaxCalls
    /\ Accepts(op)
    /\ op \in {"startRead", "stopRead"} => state_ # "kDisconnected"
    /\ calls' = calls + 1
    /\ closing' = (closing \/ op \in {"shutdown", "forceClose"})
    /\ SetState(op)
    /\ pending' = IF op = "forceClose" THEN Append(pending, Shared(op)) ELSE pending
    /\ todo' = IF op \in {"forceClose", "forceCloseWithDelay"} THEN todo
               ELSE <<[op |-> op, msg |-> calls + 1]>> \o todo
    /\ UNCHANGED <<reading_, chanVars, dataVars, sockVars, lpc, batch, batchHolds, refVars, call,
                   failed, downs, arrivals>>

userCodeReturns ==
    /\ Do("userCode")
    /\ Then(<<>>)
    /\ UNCHANGED <<connVars, chanVars, dataVars, arrived, soError, wrShut, pending, owned, failed,
                   downs, Outside>>

\* A call in another thread: state_ is tested ...
ForeignTest(t, op) ==
    /\ Running
    /\ hold[t]
    /\ call[t] = NoCall
    /\ calls < MaxCalls
    /\ Accepts(op)
    /\ calls' = calls + 1
    /\ call' = [call EXCEPT ![t] = [op |-> op, msg |-> calls + 1]]
    /\ closing' = (closing \/ op \in {"shutdown", "forceClose"})
    /\ UNCHANGED <<connVars, chanVars, dataVars, sockVars, queueVars, todo, refVars, failed, downs,
                   arrivals>>

\* ... and then set, and the handler queued, with a TcpConnectionPtr in the
\* case of forceClose() only.  The two are one step: only the late store is seen
\* by the loop.
ForeignQueue(t) ==
    LET op == call[t].op
    IN  /\ Running
        /\ call[t] # NoCall
        /\ call' = [call EXCEPT ![t] = NoCall]
        /\ SetState(op)
        /\ pending' = CASE op = "forceClose" -> Append(pending, Shared(op))
                         [] op = "forceCloseWithDelay" -> pending
                         [] OTHER -> Append(pending, Raw(op, call[t].msg))
        /\ UNCHANGED <<reading_, chanVars, dataVars, sockVars, lpc, todo, batch, batchHolds,
                       refVars, failed, downs, countVars>>

\* The thread lets go of its pointer; a careful one keeps it while functors
\* bound to a raw this are queued.
Release(t) ==
    /\ Running
    /\ hold[t]
    /\ call[t] = NoCall
    /\ \A f \in Range(pending) \cup Range(batch) : f.shared
    /\ hold' = [hold EXCEPT ![t] = FALSE]
    /\ Destroy(/\ ~owned /\ ~QueuedPtr /\ ~batchHolds /\ todo = <<>>
               /\ \A s \in Threads \ {t} : ~hold[s])
    /\ UNCHANGED <<connVars, chanVars, dataVars, sockVars, queueVars, todo, owned, call, downs, countVars>>

-----------------------------------------------------------------------------
(* The peer.                                                               *)

PeerSends ==
    /\ Running
    /\ peer = "open"
    /\ arrivals < MaxArrivals
    /\ arrivals' = arrivals + 1
    /\ arrived' = TRUE
    /\ UNCHANGED <<connVars, chanVars, dataVars, peer, soError, wrShut, queueVars, todo, refVars,
                   call, failed, downs, closing, calls>>

PeerFinishes ==
    /\ Running
    /\ peer = "open"
    /\ peer' = "fin"
    /\ UNCHANGED <<connVars, chanVars, dataVars, arrived, soError, wrShut, queueVars, todo, refVars,
                   call, failed, downs, countVars>>

PeerResets ==
    /\ Running
    /\ peer # "rst"
    /\ peer' = "rst"
    /\ soError' = TRUE
    /\ UNCHANGED <<connVars, chanVars, dataVars, arrived, wrShut, queueVars, todo, refVars, call,
                   failed, downs, countVars>>

-----------------------------------------------------------------------------
Handler ==
    \/ connectEstablished \/ handleRead \/ handleError \/ handleClose
    \/ closeCallback \/ connectDestroyed \/ removeChannel
    \/ \E n \in 0..2 : sendInLoop(n)
    \/ \E n \in 0..Len(outputBuffer_) : handleWrite(n)
    \/ shutdownInLoop \/ forceCloseInLoop \/ startReadInLoop \/ stopReadInLoop
    \/ userCallback \/ userCodeReturns

LoopStep == \/ Handler \/ doPendingFunctors \/ RunFunctor \/ EndFunctors

Peer == PeerSends \/ PeerFinishes \/ PeerResets

Foreign == \E t \in Threads : \/ \E op \in ForeignCalls : ForeignTest(t, op)
                              \/ ForeignQueue(t)
                              \/ Release(t)

Next == \/ LoopStep
        \/ \E w \in BOOLEAN : Poll(w)
        \/ \E op \in LoopCalls : LoopCall(op)
        \/ Foreign
        \/ Peer
        \/ DestroyOwner

Spec == Init /\ [][Next]_vars

\* The loop thread runs; poll() reports what is there; a peer that has not
\* reset the connection goes on reading, so that the socket is writable again
\* and again.
Fairness == /\ WF_vars(LoopStep)
            /\ WF_vars(Poll(FALSE))
            /\ SF_vars(Poll(TRUE) /\ "OUT" \in Revents(TRUE))
            /\ \A t \in Threads : WF_vars(ForeignQueue(t))

FairSpec == Spec /\ Fairness

-----------------------------------------------------------------------------
(* Properties.                                                             *)

Assertions == {"connectEstablished", "handleClose", "removeConnection", "Channel::remove",
               "removeChannel", "shutdownWrite", "~TcpConnection", "~Channel", "raw this"}

\* Type invariant: the members of TcpConnection and Channel keep their types,
\* and no more is written to the socket than was sent.
TypeOK ==
    /\ state_ \in States
    /\ reading_ \in BOOLEAN
    /\ events \subseteq {"R", "W"}
    /\ index \in {"kNew", "kAdded", "kDeleted"}
    /\ outputBuffer_ \in Seq(1..MaxCalls)
    /\ wire \in Seq(1..MaxCalls) /\ Len(wire) <= 2 * MaxCalls
    /\ accepted \in Seq(1..MaxCalls)
    /\ peer \in {"open", "fin", "rst"}
    /\ arrived \in BOOLEAN
    /\ soError \in BOOLEAN
    /\ wrShut \in BOOLEAN
    /\ lpc \in {"poll", "events", "functors"}
    /\ batchHolds \in BOOLEAN
    /\ owned \in BOOLEAN
    /\ hold \in [Threads -> BOOLEAN]
    /\ call \in [Threads -> [op : ApiCalls \cup {"none"}, msg : 0..MaxCalls]]
    /\ alive \in BOOLEAN
    /\ failed \subseteq Assertions
    /\ downs \in 0..2
    /\ closing \in BOOLEAN
    /\ calls \in 0..MaxCalls
    /\ arrivals \in 0..MaxArrivals

\* The library's own assertions hold, whatever the order of user calls, peer
\* events, queued functors and the owner's cleanup, but for the two that
\* runs of their own refute.
AssertionsHold == failed \subseteq {"shutdownWrite", "handleClose"}

\* What has been handed to the kernel and what is buffered is, in order and
\* without gaps, what sendInLoop() took.
StreamIntact == wire \o outputBuffer_ = accepted

\* As long as the connection is up, write events are asked for exactly while
\* there is something to write: no busy loop, no stuck data.
WritingWhileBuffered ==
    state_ \in {"kConnected", "kDisconnecting"} => (isWriting <=> outputBuffer_ # <<>>)

\* The write side is shut down only after everything accepted was written.
FinAfterData == wrShut => outputBuffer_ = <<>>

\* The user learns once that the connection is down, before it is destroyed.
DownOnce == Running => /\ downs <= 1
                       /\ downs = 1 <=> state_ = "kDisconnected"
                       /\ ~alive => downs = 1

\* While the connection is being read, the peer's close or reset is noticed: it
\* is taken down, or the user stops reading.
CloseNoticed == (peer # "open" /\ isReading) ~> (~isReading \/ ~Running)

\* A connection that is down is taken out of the poller and, once no other
\* thread holds a pointer to it, destroyed.
DownIsDestroyed ==
    state_ = "kDisconnected"
        ~> ((index = "kNew" /\ (alive => \E t \in Threads : hold[t])) \/ ~Running)

\* After shutdown() the connection finishes writing and sends its FIN, after
\* forceClose() it is closed, or it is closed for another reason.
ShutdownCompletes ==
    closing ~> (wrShut \/ state_ = "kDisconnected" \/ ~Running)

\* sockets::shutdownWrite() asserts that shutdown(2) succeeds.
ShutdownWriteSucceeds == "shutdownWrite" \notin failed

\* TcpConnection::handleClose() asserts that the connection is not down yet.
HandleCloseOnce == "handleClose" \notin failed

\* ~TcpConnection() asserts that the connection is down.
DestroyedDown == "~TcpConnection" \notin failed
=============================================================================
