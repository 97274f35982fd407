\* Two pushers, two commands each, the broker lost twice, one subscription refused.
CONSTANTS
    Tcp = Tcp
    Mqtt = Mqtt
    Nobody = Nobody
    Stale = Stale
    MaxSent = 2
    Room = 2
    MaxLosses = 2
    MaxRefusals = 1
CONSTANT Pusher <- MCPusher
SPECIFICATION Spec
INVARIANTS LossIsNoticed
PROPERTIES ListIsFifo CommandIsDealtWith SubscribedAgain
CHECK_DEADLOCK FALSE
