--------------------------- MODULE MqttConnection ---------------------------
(***************************************************************************)
(* The connection to the broker (src/src/mqtt.c) and what Home Assistant   *)
(* shows of the device's availability (ha_mqtt.c, ha_status.c).  The main  *)
(* thread connects, reconnects and disconnects; paho reports a lost        *)
(* session with conn_lost on a thread of its own; both write the flag      *)
(* connected without a lock.  The broker holds the last will and publishes *)
(* it when it notices that a session ended without a DISCONNECT.           *)
(***************************************************************************)
EXTENDS Integers

CONSTANTS Topics,       \* the command topics to subscribe to
          CleanSession, \* mqtt.clean_session
          RetainedOnline, \* mqtt.retained_online
          Delay,        \* RECONNECT_DELAY
          MaxSetBack,   \* bound: how far the wall clock is ever set back
          MaxLosses,    \* bound: losses of the session
          MaxStarts     \* bound: times the process is started

ASSUME SettingsAssumption ==
    CleanSession \in BOOLEAN /\ RetainedOnline \in BOOLEAN /\ Delay \in Nat \ {0}
ASSUME BoundsAssumption ==
    MaxSetBack \in Nat /\ MaxLosses \in Nat /\ MaxStarts \in Nat \ {0}

VARIABLES
  main,       \* where the main thread is
  stop,       \* running is 0
  connected,  \* the flag of mqtt.c
  since,      \* now - last_attempt, which starts at Never, capped at Delay
  asked,      \* command topics that ha_on_connect has subscribed so far
  session,    \* "up" while broker and client have a session
  reported,   \* FALSE while a conn_lost is on its way
  will,       \* "armed" while the broker holds the last will
  subscribed, \* the broker's subscriptions for this client
  refused,    \* history: the subscriptions that failed since the connect
  retained,   \* the retained payload of the availability topic
  shown,      \* availability in Home Assistant: the last payload it knows
  setBack, losses, starts  \* counters of the bounds

process == <<main, stop, connected, since, asked>>
paho == <<session, reported>>
availability == <<retained, shown>>
broker == <<will, subscribed, refused, availability>>
bounds == <<setBack, losses, starts>>
vars == <<process, paho, broker, bounds>>

Never == Delay + 1
Alive == main \notin {"exited", "dead"}

\* The flag says connected, there is no session, and no conn_lost will say so.
Stale == Alive /\ connected /\ session = "down" /\ reported

Init ==
    /\ main = "loop" /\ stop = FALSE /\ connected = FALSE /\ since = Never
    /\ asked = {}
    /\ session = "down" /\ reported = TRUE
    /\ will = "none" /\ subscribed = {} /\ refused = {}
    /\ retained = "unset" /\ shown = "unknown"
    /\ setBack = 0 /\ losses = 0 /\ starts = 1

\* Home Assistant knows two payloads and ignores any other.
Understood(payload, before) == IF payload \in {"online", "offline"} THEN payload ELSE before

\* Seeded fault: the payload of ha_on_disconnect is taken at face value.
PublishAnyPayload(payload) ==
    /\ shown' = IF session = "up" THEN payload ELSE shown
    /\ UNCHANGED retained

\* mqtt_publish on the availability topic, always retained: lost without a session.
PublishAvailability(payload) ==
    IF session = "up" THEN retained' = payload /\ shown' = Understood(payload, shown)
                      ELSE UNCHANGED availability

\* Seeded fault: the will is not retained.
WillRetainedNot == FALSE

\* The last argument of mqtt_set_last_will.
WillRetained == RetainedOnline

\* The broker publishes the will.
PublishWill ==
    /\ shown' = "offline"
    /\ retained' = IF WillRetained THEN "offline" ELSE retained
-----------------------------------------------------------------------------
(* The main thread: mqtt_loop and mqtt_connect_internal.                   *)

\* Seeded faults: only the first attempt is ever due; the flag is not set; the
\* connect options carry no will; the availability is not announced; a loss
\* reported during ha_on_connect is ignored.
DueOnce == since = Never
ConnectedFlagNot == FALSE
WillNot == "none"
PresenceNot == "unset"
FlagOnLossDeferred == main = "on_connect"

Due == since >= Delay
ConnectedFlag == TRUE
Will == "armed"
Presence == "online"
FlagOnLoss == FALSE

Attempt ==
    /\ main = "loop" /\ ~stop /\ ~connected /\ Due
    /\ main' = "connecting"
    /\ since' = 0
    /\ UNCHANGED <<stop, connected, asked, paho, broker, bounds>>

\* MQTTClient_connect fails, or the options are not usable.
ConnectFails ==
    /\ main = "connecting"
    /\ main' = "loop"
    /\ UNCHANGED <<stop, connected, since, asked, paho, broker, bounds>>

\* MQTTClient_connect returns.  The broker ends a session it still believes in
\* and publishes its will before it accepts the new one.
ConnectSucceeds ==
    /\ main = "connecting"
    /\ main' = "flag"
    /\ session' = "up"
    /\ will' = Will
    /\ IF will = "armed" THEN PublishWill ELSE UNCHANGED availability
    /\ subscribed' = IF CleanSession THEN {} ELSE subscribed
    /\ refused' = {}
    /\ UNCHANGED <<stop, connected, since, asked, reported, bounds>>

\* The flag is set after MQTTClient_connect, then ha_on_connect is called.
SetConnected ==
    /\ main = "flag"
    /\ connected' = ConnectedFlag
    /\ asked' = {}
    /\ main' = "on_connect"
    /\ UNCHANGED <<stop, since, paho, broker, bounds>>

\* ha_topic_subscribe_commands: a failure is logged and forgotten.
Subscribe(t, ok) ==
    /\ main = "on_connect" /\ t \notin asked
    /\ ok => session = "up"
    /\ asked' = asked \cup {t}
    /\ subscribed' = IF ok THEN subscribed \cup {t} ELSE subscribed
    /\ refused' = IF ok THEN refused ELSE refused \cup {t}
    /\ UNCHANGED <<main, stop, connected, since, paho, will, availability, bounds>>

\* ha_on_connect ends with the availability.
Announce ==
    /\ main = "on_connect" /\ asked = Topics
    /\ PublishAvailability(Presence)
    /\ main' = "loop"
    /\ UNCHANGED <<stop, connected, since, asked, paho, will, subscribed, refused, bounds>>
-----------------------------------------------------------------------------
(* The main thread: the end of main.                                       *)

LeaveLoop ==
    /\ main = "loop" /\ stop
    /\ main' = "goodbye"
    /\ UNCHANGED <<stop, connected, since, asked, paho, broker, bounds>>

\* mqtt_disconnect calls ha_on_disconnect, whose payload is misspelt.
Goodbye ==
    /\ main = "goodbye"
    /\ PublishAvailability("fffline")
    /\ main' = "disconnect"
    /\ UNCHANGED <<stop, connected, since, asked, paho, will, subscribed, refused, bounds>>

\* MQTTClient_disconnect: a DISCONNECT discards the will.
Disconnect ==
    /\ main = "disconnect"
    /\ main' = "exited"
    /\ session' = "down" /\ reported' = TRUE
    /\ will' = IF session = "up" THEN "none" ELSE will
    /\ UNCHANGED <<stop, connected, since, asked, subscribed, refused, availability, bounds>>
-----------------------------------------------------------------------------
(* Paho, the broker, the clock and the process.                            *)

LoseSession ==
    /\ session = "up" /\ losses < MaxLosses
    /\ losses' = losses + 1
    /\ session' = "down" /\ reported' = FALSE
    /\ UNCHANGED <<process, broker, setBack, starts>>

\* conn_lost, on paho's thread.
ConnLost ==
    /\ ~reported
    /\ reported' = TRUE
    /\ connected' = FlagOnLoss
    /\ UNCHANGED <<main, stop, since, asked, session, broker, bounds>>

\* The broker finds the session dead and publishes the will.
BrokerNotices ==
    /\ session = "down" /\ will = "armed"
    /\ will' = "none"
    /\ PublishWill
    /\ UNCHANGED <<process, paho, subscribed, refused, bounds>>

\* Home Assistant is started again and reads what is retained.
HomeAssistantRestart ==
    /\ shown' = Understood(retained, "unknown")
    /\ UNCHANGED <<process, paho, will, subscribed, refused, retained, bounds>>

Tick ==
    /\ since < Delay
    /\ since' = since + 1
    /\ UNCHANGED <<main, stop, connected, asked, paho, broker, bounds>>

\* time(NULL) is the wall clock, which may be set back.
SetClockBack(seconds) ==
    /\ Alive /\ since # Never /\ setBack + seconds <= MaxSetBack
    /\ setBack' = setBack + seconds
    /\ since' = since - seconds
    /\ UNCHANGED <<main, stop, connected, asked, paho, broker, losses, starts>>

StopRequested ==
    /\ Alive /\ ~stop
    /\ stop' = TRUE
    /\ UNCHANGED <<main, connected, since, asked, paho, broker, bounds>>

Crash ==
    /\ Alive
    /\ main' = "dead"
    /\ session' = "down" /\ reported' = TRUE
    /\ UNCHANGED <<stop, connected, since, asked, broker, bounds>>

Restart ==
    /\ ~Alive /\ starts < MaxStarts
    /\ starts' = starts + 1
    /\ main' = "loop" /\ stop' = FALSE /\ connected' = FALSE /\ since' = Never
    /\ asked' = {}
    /\ UNCHANGED <<paho, broker, setBack, losses>>

MainStep ==
    \/ Attempt \/ ConnectFails \/ ConnectSucceeds \/ SetConnected
    \/ \E t \in Topics, ok \in BOOLEAN : Subscribe(t, ok)
    \/ Announce \/ LeaveLoop \/ Goodbye \/ Disconnect

Next ==
    \/ MainStep
    \/ LoseSession \/ ConnLost \/ BrokerNotices \/ HomeAssistantRestart
    \/ Tick
    \/ \E seconds \in 1..MaxSetBack : SetClockBack(seconds)
    \/ StopRequested \/ Crash \/ Restart

Spec == Init /\ [][Next]_vars

\* The main thread is scheduled, the clock runs, a loss is reported and noticed,
\* and the broker accepts one of the attempts to come.
FairSpec ==
    /\ Spec
    /\ WF_vars(MainStep) /\ SF_vars(ConnectSucceeds)
    /\ WF_vars(Tick) /\ WF_vars(ConnLost) /\ WF_vars(BrokerNotices)
-----------------------------------------------------------------------------
(* Properties.                                                             *)

\* Every variable has its type.
TypeOK ==
    /\ main \in {"loop", "connecting", "flag", "on_connect", "goodbye",
                 "disconnect", "exited", "dead"}
    /\ {stop, connected, reported} \subseteq BOOLEAN
    /\ since \in -MaxSetBack..Never
    /\ session \in {"up", "down"} /\ will \in {"none", "armed"}
    /\ asked \subseteq Topics /\ subscribed \subseteq Topics /\ refused \subseteq Topics
    /\ shown \in {"unknown", "online", "offline"}
    /\ retained \in {"unset", "online", "offline", "fffline"}

\* MQTTClient_connect is never called over a live session, though the flag that
\* decides is written by two threads.
ConnectsWhenDown == main = "connecting" => session = "down" /\ reported

\* Back in the loop with a session, the device is shown online and every command
\* topic was subscribed or refused in this session, wherever the connection
\* failed before: an ha_on_connect cut short by a loss is run again.
AnnouncedWhenUp ==
    main = "loop" /\ session = "up" =>
        shown = "online" /\ Topics \subseteq subscribed \cup refused

\* While the device is shown online the broker holds the will that takes it
\* offline when the process dies, until the process itself disconnects.
OnlineIsGuarded ==
    [][(shown' = "online" /\ will' = "none")
         => (shown = "online" /\ will = "none") \/ main = "disconnect"]_vars

\* What the configuration guide says of retained_online: a Home Assistant that is
\* started again sees the correct state.  It never takes a device for online that
\* it took for offline before, whoever published the offline.
RestartIsTruthful == RetainedOnline /\ retained = "online" => shown = "online"

\* The flag goes stale in one place only: a session lost between the return of
\* MQTTClient_connect and the assignment after it.
StaleOnlyInWindow == [][Stale' => Stale \/ main = "flag"]_vars

\* A running service without a session gets one, unless the flag is stale.
Reconnects ==
    (Alive /\ session = "down") ~> (session = "up" \/ Stale \/ stop \/ ~Alive)

\* What the documentation says of a service that stops: the device is shown as
\* unavailable.
StoppedIsShown == main = "exited" /\ will = "none" => shown # "online"

\* What the documentation says of a service that is started again: it comes back
\* online.
ComesBackOnline ==
    starts > 1 ~> (shown = "online" /\ session = "up") \/ stop \/ ~Alive
=============================================================================
