---------------------------- MODULE FunctorQueue ----------------------------
(***************************************************************************)
(* What EventLoop::queueInLoop promises, with no event loop in sight: the  *)
(* functors handed over by all threads form one queue, and one functor at  *)
(* a time is taken off its front and run.  No functor is dropped, run      *)
(* twice, or overtaken.                                                    *)
(***************************************************************************)
EXTENDS Sequences

CONSTANTS Functor,    \* the functors that may be queued
          NoFunctor   \* "nothing is running"

VARIABLES waiting,    \* queued and not yet started, in order
          running     \* the functor being run, or NoFunctor

vars == <<waiting, running>>

Init == /\ waiting = <<>>
        /\ running = NoFunctor

Submit(f) == /\ waiting' = Append(waiting, f)
             /\ UNCHANGED running

\* The previous functor, if any, has returned and the next one begins.
Start == /\ waiting # <<>>
         /\ running' = Head(waiting)
         /\ waiting' = Tail(waiting)

Finish == /\ running # NoFunctor
          /\ running' = NoFunctor
          /\ UNCHANGED waiting

Next == \/ \E f \in Functor : Submit(f)
        \/ Start
        \/ Finish

Spec == Init /\ [][Next]_vars
=============================================================================
