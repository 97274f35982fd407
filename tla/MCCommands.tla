----------------------------- MODULE MCCommands -----------------------------
\* Two commands over TCP and two over MQTT; a move leaves room for all four.
EXTENDS Commands
MCPusher == {Tcp, Mqtt}
=============================================================================
