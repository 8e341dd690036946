------------------------------ MODULE Connector ------------------------------
(***************************************************************************)
(* The connection attempts of muduo::net::Connector: what each of its      *)
(* handlers does to its members, to the loop's queue of functors and to    *)
(* the retry timers.  The handlers run in the loop thread; TcpClient puts  *)
(* them together with the loop, the server, the user and another thread.   *)
(*                                                                         *)
(* A timer, a functor and a callback run startInLoop(), and nothing but    *)
(* its assertion keeps two attempts apart.  A failed assertion aborts the  *)
(* program: failed records which.                                          *)
(***************************************************************************)
EXTENDS Integers, Sequences, Functions

CONSTANTS kInitRetryDelayMs, kMaxRetryDelayMs

ASSUME RetryDelayAssumption == /\ kInitRetryDelayMs \in Nat \ {0}
                               /\ kMaxRetryDelayMs \in Nat
                               /\ kInitRetryDelayMs <= kMaxRetryDelayMs

VARIABLES
    connect_, state_, retryDelayMs_,
    channel_,   \* "null", "polled", or "removed": no longer polled, not yet reset
    timers,     \* delays of the retry timers that have not fired
    sockets,    \* open sockets, those of the connections included
    waited,     \* history: delay of the last retry since a connection was handed over, or 0
    gaveUp,     \* history: the last attempt met an error that is not retried
    pending,    \* functors queued in the loop
    failed      \* the assertions that failed

connectorVars == <<connect_, state_, retryDelayMs_, channel_, timers, sockets, waited, gaveUp>>

States == {"kDisconnected", "kConnecting", "kConnected"}

\* What connect(2) may answer: in progress, an error worth a retry, another error.
Outcomes == {"inProgress", "tryAgain", "fatal"}

ConnectorInit == /\ connect_ = FALSE
                 /\ state_ = "kDisconnected"
                 /\ retryDelayMs_ = kInitRetryDelayMs
                 /\ channel_ = "null"
                 /\ timers = <<>>
                 /\ sockets = 0
                 /\ waited = 0
                 /\ gaveUp = FALSE

\* The assertion named a fails unless p holds.
Asserts(p, a) == failed' = IF p THEN failed ELSE failed \cup {a}

\* Mutant: the delay does not grow.
NextDelayConstant(d) == d

NextDelay(d) == IF 2 * d < kMaxRetryDelayMs THEN 2 * d ELSE kMaxRetryDelayMs

\* retry(), the delay being d and ts the timers: another attempt, if one is
\* still wanted, after d.  sockets::close() is the caller's.
scheduleRetry(wanted, d, ts) ==
    /\ state_' = "kDisconnected"
    /\ timers' = IF wanted THEN Append(ts, d) ELSE ts
    /\ retryDelayMs_' = IF wanted THEN NextDelay(d) ELSE d
    /\ waited' = IF wanted THEN d ELSE waited

connecting ==
    /\ Asserts(channel_ = "null", "connecting")
    /\ state_' = "kConnecting"
    /\ channel_' = "polled"
    /\ sockets' = sockets + 1

\* connect(), then connecting() or retry(), or the socket is closed and that is
\* all.
connect(wanted, outcome, d, ts) ==
    /\ connect_' = wanted
    /\ gaveUp' = (outcome = "fatal")
    /\ CASE outcome = "inProgress" ->
              /\ connecting
              /\ timers' = ts
              /\ retryDelayMs_' = d
              /\ UNCHANGED waited
         [] outcome = "tryAgain" ->
              /\ scheduleRetry(wanted, d, ts)
              /\ UNCHANGED <<channel_, sockets, failed>>
         [] outcome = "fatal" ->
              /\ timers' = ts
              /\ retryDelayMs_' = d
              /\ state_' = "kDisconnected"
              /\ UNCHANGED <<channel_, sockets, waited, failed>>

\* startInLoop(), wanted being the value of connect_ that it finds, ts the
\* timers left.
startInLoop(wanted, outcome, ts) ==
    IF state_ = "kDisconnected" /\ wanted
      THEN connect(TRUE, outcome, retryDelayMs_, ts)
      ELSE /\ Asserts(state_ = "kDisconnected", "startInLoop")
           /\ connect_' = wanted
           /\ timers' = ts
           /\ UNCHANGED <<state_, retryDelayMs_, channel_, sockets, waited, gaveUp>>

\* Mutant: the delay of the last outage is kept.
restartKeepingDelay(outcome) == connect(TRUE, outcome, retryDelayMs_, timers)

restart(outcome) == connect(TRUE, outcome, kInitRetryDelayMs, timers)

\* Mutant: the pointer to the channel is kept.
removeAndKeepChannel ==
    /\ channel_' = "removed"
    /\ UNCHANGED pending

\* removeAndResetChannel(): the channel leaves the poller now, but channel_ is
\* only reset by a functor, as the channel may be handling an event.
removeAndResetChannel ==
    /\ channel_' = "removed"
    /\ pending' = Append(pending, "resetChannel")

resetChannel ==
    /\ channel_' = "null"
    /\ UNCHANGED <<connect_, state_, retryDelayMs_, timers, sockets, waited, gaveUp, failed>>

\* Mutant: a failed attempt is not followed by another.
abandonForGood ==
    /\ removeAndResetChannel
    /\ sockets' = sockets - 1
    /\ state_' = "kDisconnected"
    /\ UNCHANGED <<connect_, timers, retryDelayMs_, waited, gaveUp, failed>>

\* The attempt under way failed: remove the channel, close the socket, retry.
abandon ==
    /\ removeAndResetChannel
    /\ sockets' = sockets - 1
    /\ scheduleRetry(connect_, retryDelayMs_, timers)
    /\ UNCHANGED <<connect_, gaveUp, failed>>

stopInLoop == IF state_ = "kConnecting" THEN abandon
              ELSE UNCHANGED <<connectorVars, pending, failed>>

\* handleError(), and with it handleWrite() for the same event, which then
\* finds kDisconnected and does nothing.
handleError == IF state_ = "kConnecting" THEN abandon
               ELSE UNCHANGED <<connectorVars, pending, failed>>

\* Mutant: a connection that nobody wants is handed on.
handsOverAlways == TRUE

\* handleWrite() calls newConnectionCallback_ if a connection is still wanted,
handsOver == connect_

\* and otherwise closes the socket; an error or a self connect is retried.
handleWrite(good) ==
    CASE state_ = "kConnecting" /\ good ->
           /\ removeAndResetChannel
           /\ state_' = "kConnected"
           /\ sockets' = IF handsOver THEN sockets ELSE sockets - 1
           /\ waited' = IF handsOver THEN 0 ELSE waited
           /\ UNCHANGED <<connect_, retryDelayMs_, timers, gaveUp, failed>>
      [] state_ = "kConnecting" /\ ~good -> abandon
      [] OTHER -> /\ Asserts(state_ = "kDisconnected", "handleWrite")
                  /\ UNCHANGED <<connectorVars, pending>>
=============================================================================
