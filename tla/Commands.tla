------------------------------ MODULE Commands ------------------------------
(***************************************************************************)
(* The ways of a command of the back end into the terminal: TcpClient and  *)
(* the MQTT client push it onto the list of ServerDataList, the thread of  *)
(* ServerDataDeal takes it. The MQTT client receives what its session is   *)
(* subscribed to.                                                          *)
(***************************************************************************)
EXTENDS CommandList, MqttLoop

CONSTANTS Tcp, Mqtt     \* the two threads that push

ASSUME PusherAssumption == Pusher = {Tcp, Mqtt}

vars == <<listVars, mqttVars>>

TypeOK == ListType /\ MqttType

Init == ListInit /\ MqttInit

\* parseData's SERVER_REQUEST_CMD, and messageArrived.
Receive(t) ==
    /\ t = Mqtt => broker /\ connected /\ subscribed
    /\ PushLock(t)

\* A take that has met a push reads or frees what it must not: anything may follow, and the
\* list is not followed any further.
PushStep(t) == ~raced /\ Push(t) /\ UNCHANGED mqttVars
ReceiveStep(t) == ~raced /\ Receive(t) /\ UNCHANGED mqttVars
TakeStep == ~raced /\ Take /\ UNCHANGED mqttVars
MqttStep == MqttRun /\ UNCHANGED listVars
KeepAliveStep == KeepAlive /\ UNCHANGED listVars

Next ==
    \/ \E t \in Pusher : ReceiveStep(t) \/ PushStep(t)
    \/ TakeStep
    \/ MqttStep
    \/ KeepAliveStep
    \/ Broker /\ UNCHANGED listVars

Fairness ==
    /\ \A t \in Pusher : WF_vars(PushStep(t))
    /\ WF_vars(TakeStep)
    /\ WF_vars(MqttStep)
    /\ WF_vars(KeepAliveStep)

Spec == Init /\ [][Next]_vars /\ Fairness

-----------------------------------------------------------------------------
(* Properties.                                                              *)

\* What has been pushed and not dealt with, the oldest first: a slot not yet written is not in it.
First == IF \E t \in Pusher : pushing[t] = "write" THEN begin + 1
         ELSE IF Moving THEN 0 ELSE begin
Down(a, lo, hi) == [i \in 1..(hi - lo) |-> a[hi - i]]
Listed == Down(array, First, end)
InHand == IF taking = "deal" THEN <<packet>> ELSE <<>>
Waiting == IF raced THEN <<>> ELSE InHand \o Listed

\* The list with its unlocked take is the queue of Fifo, which UserSync assumes, as long as no take
\* has met a push (serverdatalist.cpp:30).
Queue == INSTANCE Fifo WITH waiting <- Waiting, broken <- raced
ListIsFifo == Queue!Spec

\* A command received is dealt with, however many wait before it (ServerDataDeal::run).
CommandIsDealtWith ==
    \A t \in Pusher, n \in 1..MaxSent :
        sent[t] >= n ~> (raced \/ \E i \in 1..Len(dealt) : dealt[i] = <<t, n>>)

\* A subscription that is lost is always noticed: between two rounds run() finds itself disconnected, or the keep-alive
\* will find the session gone, unless it has been refused after a reconnection (mqttmodule.cpp:89-116).
LossIsNoticed == at = "top" /\ status /\ connected /\ session => subscribed \/ refusedAgain

\* Once the broker stays, the terminal is subscribed again, unless it has been refused after a
\* reconnection: then run() finds itself connected and asks no more (mqttmodule.cpp:105).
SubscribedAgain == <>[](broker /\ ~refusedAgain) => <>[]subscribed
=============================================================================
