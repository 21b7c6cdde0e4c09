-------------------------- MODULE MCMqttConnection --------------------------
\* Two command topics, as model values.
EXTENDS MqttConnection
CONSTANTS preset, custom
MCTopics == {preset, custom}
=============================================================================
