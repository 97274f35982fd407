------------------------------ MODULE Turnstile ------------------------------
(***************************************************************************)
(* What the hand-over of faces (faceinterface.h) promises: a face is       *)
(* offered when the one before has been dealt with, and gets one decision, *)
(* about itself, which is carried out once, or none if it is not known     *)
(* yet.  The code keeps the promise until a decision outlasts its time;    *)
(* what it does afterwards is left open (broken).                          *)
(***************************************************************************)
CONSTANTS Face,         \* what may be offered
          Undecided,    \* those of them that get no decision
          Nothing

VARIABLES stage, offer, decision

turnVars == <<stage, offer, decision>>

Init == stage = "free" /\ offer = Nothing /\ decision = Nothing

Offer ==
    /\ stage = "free" /\ stage' = "offered"
    /\ offer' \in Face
    /\ UNCHANGED decision

Decide ==
    /\ stage = "offered" /\ stage' = "decided"
    /\ offer \notin Undecided
    /\ decision' = offer
    /\ UNCHANGED offer

PassOver ==
    /\ stage = "offered" /\ stage' = "done"
    /\ offer \in Undecided
    /\ UNCHANGED <<offer, decision>>

CarryOut ==
    /\ stage = "decided" /\ stage' = "done"
    /\ decision' = Nothing
    /\ UNCHANGED offer

Finish ==
    /\ stage = "done" /\ stage' = "free"
    /\ offer' = Nothing
    /\ UNCHANGED decision

\* From a decision that outlasts its time on, nothing is promised.
Break == stage' = "broken" /\ offer' = Nothing /\ decision' = Nothing

Next == Offer \/ Decide \/ PassOver \/ CarryOut \/ Finish \/ Break

Spec == Init /\ [][Next]_turnVars
=============================================================================
