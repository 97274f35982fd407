-------------------------------- MODULE Fifo --------------------------------
(***************************************************************************)
(* What the rest of the program takes the list of commands to be           *)
(* (serverdatalist.h): what is pushed comes out once, in the order it went *)
(* in. The code keeps that promise until a take has met a push; what it    *)
(* does afterwards is left open here (broken).                             *)
(***************************************************************************)
EXTENDS Naturals, Sequences

CONSTANT Command        \* what may be pushed

VARIABLES waiting,      \* pushed and not yet dealt with, the oldest first
          dealt,        \* what dealJsonData has been called with
          broken        \* a take has met a push

fifoVars == <<waiting, dealt, broken>>

Init == waiting = <<>> /\ dealt = <<>> /\ broken = FALSE

Push(c) ==
    /\ waiting' = Append(waiting, c)
    /\ UNCHANGED <<dealt, broken>>

Take ==
    /\ waiting # <<>>
    /\ waiting' = Tail(waiting)
    /\ dealt' = Append(dealt, Head(waiting))
    /\ UNCHANGED broken

\* From a take that meets a push on, nothing is promised.
Break == broken' = TRUE

Next == (\E c \in Command : Push(c)) \/ Take \/ Break

Spec == Init /\ [][Next]_fifoVars
=============================================================================
