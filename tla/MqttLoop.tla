------------------------------ MODULE MqttLoop ------------------------------
(***************************************************************************)
(* MqttModule::run (mqttmodule.cpp): connect, subscribe, and from then on  *)
(* look every half second whether the client still is connected. The       *)
(* library's calls succeed, fail for want of a connection, or, the         *)
(* subscription, because the broker refuses it.                            *)
(***************************************************************************)
EXTENDS Naturals

CONSTANTS MaxLosses,    \* bound: times the broker goes away or drops the connection
          MaxRefusals   \* bound: subscriptions it refuses

ASSUME BoundsAssumption == MaxLosses \in Nat /\ MaxRefusals \in Nat

VARIABLES
    at,                 \* where run() is
    status,             \* its variable: the first subscription has succeeded
    connected,          \* MQTTClient_isConnected
    session,            \* the broker still has the session of this connection
    subscribed,         \* and its topic (cleansession = 1)
    broker,             \* the broker can be reached
    losses, refusals,   \* bounds
    refusedAgain        \* history: a subscription refused after a reconnection

mqttVars == <<at, status, connected, session, subscribed, broker, losses,
              refusals, refusedAgain>>
faultVars == <<broker, losses, refusals, refusedAgain>>

MqttType ==
    /\ at \in {"top", "subscribe", "reconnect", "resubscribe"}
    /\ {status, connected, session, subscribed, broker, refusedAgain} \subseteq BOOLEAN
    /\ losses \in 0..MaxLosses /\ refusals \in 0..MaxRefusals

MqttInit ==
    /\ at = "top" /\ status = FALSE
    /\ connected = FALSE /\ session = FALSE /\ subscribed = FALSE
    /\ broker = TRUE /\ losses = 0 /\ refusals = 0 /\ refusedAgain = FALSE

\* MQTTClient_connect: the old session, if any, is replaced by a new one.
Connect(next) ==
    /\ connected' = broker /\ session' = broker /\ subscribed' = FALSE
    /\ at' = IF broker THEN next ELSE "top"
    /\ UNCHANGED <<status, faultVars>>

Answered == broker /\ connected /\ session

\* MQTTClient_subscribe, its failures first: no answer closes the connection, a refusal does not.
SubscribeFails ==
    /\ ~ Answered
    /\ connected' = FALSE /\ session' = FALSE /\ subscribed' = FALSE
    /\ at' = "top"
    /\ UNCHANGED <<status, faultVars>>

SubscribeRefused ==
    /\ Answered /\ refusals < MaxRefusals
    /\ refusals' = refusals + 1
    /\ refusedAgain' = (refusedAgain \/ status)
    /\ at' = "top"
    /\ UNCHANGED <<status, connected, session, subscribed, broker, losses>>

SubscribeDone ==
    /\ Answered
    /\ subscribed' = TRUE /\ status' = TRUE
    /\ at' = "top"
    /\ UNCHANGED <<connected, session, faultVars>>

Subscribe == SubscribeFails \/ SubscribeRefused \/ SubscribeDone

\* while(true): not yet subscribed for the first time.
MqttFirst == at = "top" /\ ~status /\ Connect("subscribe")

MqttFirstSubscribe == at = "subscribe" /\ Subscribe

\* "mqtt reconnect": unsubscribing fails without a connection and its result is overwritten.
MqttCheck ==
    /\ at = "top" /\ status /\ ~connected
    /\ at' = "reconnect"
    /\ UNCHANGED <<status, connected, session, subscribed, faultVars>>

\* Mutant: a reconnection that relies on the subscription of the old session.
MqttReconnectOnly == at = "reconnect" /\ Connect("top")

MqttReconnect == at = "reconnect" /\ Connect("resubscribe")

MqttResubscribe == at = "resubscribe" /\ Subscribe

MqttRun == MqttFirst \/ MqttFirstSubscribe \/ MqttCheck \/ MqttReconnect \/ MqttResubscribe

-----------------------------------------------------------------------------
(* The broker and the library's keep-alive.                                 *)

\* The broker goes away, its sessions with it or not.
BrokerLost ==
    /\ broker /\ losses < MaxLosses
    /\ broker' = FALSE /\ losses' = losses + 1
    /\ session' \in {session, FALSE}
    /\ subscribed' = (subscribed /\ session')
    /\ UNCHANGED <<at, status, connected, refusals, refusedAgain>>

BrokerBack ==
    /\ ~broker
    /\ broker' = TRUE
    /\ UNCHANGED <<at, status, connected, session, subscribed, losses, refusals, refusedAgain>>

\* keepAliveInterval: no answer, or the refusal of a connection the broker has dropped.
KeepAlive ==
    /\ connected /\ ~ Answered
    /\ connected' = FALSE /\ session' = FALSE /\ subscribed' = FALSE
    /\ UNCHANGED <<at, status, faultVars>>

SessionDropped ==
    /\ broker /\ session /\ losses < MaxLosses
    /\ session' = FALSE /\ subscribed' = FALSE
    /\ losses' = losses + 1
    /\ UNCHANGED <<at, status, connected, broker, refusals, refusedAgain>>

Broker == BrokerLost \/ BrokerBack \/ SessionDropped
=============================================================================
