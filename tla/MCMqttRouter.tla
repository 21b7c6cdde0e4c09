---------------------------- MODULE MCMqttRouter ----------------------------
\* A command topic with a route and one without, as model values.
EXTENDS MqttRouter
CONSTANTS presetSet, other
MCCommands == <<presetSet>>
MCTopics == {presetSet, other}
=============================================================================
