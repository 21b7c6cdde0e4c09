------------------------ MODULE MqttConnection_proof ------------------------
(***************************************************************************)
(* The invariants of MqttConnection for every set of command topics, every *)
(* setting, delay and number of losses, restarts and clock changes.        *)
(***************************************************************************)
EXTENDS MqttConnection, TLAPS

-----------------------------------------------------------------------------
(* The inductive invariant.                                                *)

\* The counters of the bounds, and how far the age of an attempt goes below 0.
ClockInv ==
    /\ setBack \in 0..MaxSetBack /\ losses \in Nat /\ starts \in Nat
    /\ since \in Int /\ -setBack <= since /\ since <= Never

\* What the main thread may conclude from the flag: outside the window between
\* MQTTClient_connect and the assignment, a flag that is down means that there is
\* no session and that no conn_lost is on its way.
FlagInv ==
    /\ ~reported => session = "down"
    /\ main = "connecting" => ~connected
    /\ ~connected /\ main # "flag" => session = "down" /\ reported
    /\ main \in {"exited", "dead"} => session = "down" /\ reported

\* What ha_on_connect has done of its work.  The retained payload matters: Home
\* Assistant may start again and read it.
AnnounceInv ==
    /\ main = "on_connect" => asked \subseteq subscribed \cup refused
    /\ main = "loop" /\ session = "up" =>
           /\ retained = "online" /\ shown = "online"
           /\ Topics \subseteq subscribed \cup refused

\* A session has its will, until the process disconnects.
WillInv == session = "up" => will = "armed"

ConnInv ==
    TypeOK /\ ClockInv /\ FlagInv /\ AnnounceInv /\ WillInv /\ RestartIsTruthful
-----------------------------------------------------------------------------
LEMMA InitConnInv == Init => ConnInv
<1> SUFFICES ASSUME Init PROVE ConnInv
  OBVIOUS
<1>1. ClockInv /\ since \in -MaxSetBack..Never
  BY SettingsAssumption, BoundsAssumption DEF Init, ClockInv, Never
<1>2. TypeOK
  BY <1>1 DEF Init, TypeOK
<1>3. FlagInv /\ AnnounceInv /\ WillInv /\ RestartIsTruthful
  BY DEF Init, FlagInv, AnnounceInv, WillInv, RestartIsTruthful
<1>4. QED
  BY <1>1, <1>2, <1>3 DEF ConnInv

\* Every step keeps the types and the clock within its bounds.
LEMMA ConnTypeStep == ConnInv /\ [Next]_vars => TypeOK' /\ ClockInv'
<1> SUFFICES ASSUME ConnInv, [Next]_vars PROVE TypeOK' /\ ClockInv'
  OBVIOUS
<1> USE DEF process, paho, availability, broker, bounds
<1>0. TypeOK /\ ClockInv
  BY DEF ConnInv
<1>1. CASE Attempt
  BY <1>0, <1>1, SettingsAssumption, BoundsAssumption
  DEF Attempt, Never, TypeOK, ClockInv
<1>2. CASE ConnectFails
  BY <1>0, <1>2 DEF ConnectFails, TypeOK, ClockInv
<1>3. CASE ConnectSucceeds
  BY <1>0, <1>3
  DEF ConnectSucceeds, PublishWill, WillRetained, Will, TypeOK, ClockInv
<1>4. CASE SetConnected
  BY <1>0, <1>4 DEF SetConnected, ConnectedFlag, TypeOK, ClockInv
<1>5. ASSUME NEW t \in Topics, NEW ok \in BOOLEAN, Subscribe(t, ok)
      PROVE  TypeOK' /\ ClockInv'
  BY <1>0, <1>5 DEF Subscribe, TypeOK, ClockInv
<1>6. CASE Announce
  BY <1>0, <1>6
  DEF Announce, PublishAvailability, Understood, Presence, TypeOK, ClockInv
<1>7. CASE LeaveLoop
  BY <1>0, <1>7 DEF LeaveLoop, TypeOK, ClockInv
<1>8. CASE Goodbye
  BY <1>0, <1>8
  DEF Goodbye, PublishAvailability, Understood, Presence, TypeOK, ClockInv
<1>9. CASE Disconnect
  BY <1>0, <1>9 DEF Disconnect, TypeOK, ClockInv
<1>10. CASE LoseSession
  <2>1. TypeOK'
    BY <1>0, <1>10 DEF LoseSession, TypeOK
  <2>2. ClockInv'
    BY <1>0, <1>10 DEF LoseSession, ClockInv
  <2>3. QED
    BY <2>1, <2>2
<1>11. CASE ConnLost
  BY <1>0, <1>11 DEF ConnLost, FlagOnLoss, TypeOK, ClockInv
<1>12. CASE BrokerNotices
  BY <1>0, <1>12 DEF BrokerNotices, PublishWill, WillRetained, TypeOK, ClockInv
<1>13. CASE HomeAssistantRestart
  BY <1>0, <1>13 DEF HomeAssistantRestart, Understood, TypeOK, ClockInv
<1>14. CASE Tick
  BY <1>0, <1>14, SettingsAssumption, BoundsAssumption
  DEF Tick, Never, TypeOK, ClockInv
<1>15. ASSUME NEW seconds \in 1..MaxSetBack, SetClockBack(seconds)
      PROVE  TypeOK' /\ ClockInv'
  BY <1>0, <1>15, SettingsAssumption, BoundsAssumption
  DEF SetClockBack, Never, TypeOK, ClockInv
<1>16. CASE StopRequested
  BY <1>0, <1>16 DEF StopRequested, TypeOK, ClockInv
<1>17. CASE Crash
  BY <1>0, <1>17 DEF Crash, TypeOK, ClockInv
<1>18. CASE Restart
  <2>1. ClockInv' /\ (since \in -MaxSetBack..Never)'
    BY <1>0, <1>18, SettingsAssumption, BoundsAssumption
    DEF Restart, Never, ClockInv
  <2>2. TypeOK'
    BY <1>0, <1>18, <2>1 DEF Restart, TypeOK
  <2>3. QED
    BY <2>1, <2>2
<1>19. CASE UNCHANGED vars
  BY <1>0, <1>19 DEF vars, TypeOK, ClockInv
<1>20. QED
  BY <1>1, <1>2, <1>3, <1>4, <1>5, <1>6, <1>7, <1>8, <1>9, <1>10, <1>11,
     <1>12, <1>13, <1>14, <1>15, <1>16, <1>17, <1>18, <1>19 DEF Next, MainStep

\* Only conn_lost lowers the flag of a running process, after the session is gone.
LEMMA FlagStep == ConnInv /\ [Next]_vars => FlagInv'
<1> SUFFICES ASSUME ConnInv, [Next]_vars PROVE FlagInv'
  OBVIOUS
<1> USE DEF process, paho, availability, broker, bounds
<1>0. TypeOK /\ FlagInv
  BY DEF ConnInv
<1>1. CASE Attempt
  BY <1>0, <1>1 DEF Attempt, TypeOK, FlagInv
<1>2. CASE ConnectFails
  BY <1>0, <1>2 DEF ConnectFails, TypeOK, FlagInv
<1>3. CASE ConnectSucceeds
  BY <1>0, <1>3 DEF ConnectSucceeds, TypeOK, FlagInv
<1>4. CASE SetConnected
  BY <1>0, <1>4 DEF SetConnected, ConnectedFlag, TypeOK, FlagInv
<1>5. CASE Announce
  BY <1>0, <1>5 DEF Announce, TypeOK, FlagInv
<1>6. CASE LeaveLoop
  BY <1>0, <1>6 DEF LeaveLoop, TypeOK, FlagInv
<1>7. CASE Goodbye
  BY <1>0, <1>7 DEF Goodbye, TypeOK, FlagInv
<1>8. CASE Disconnect
  BY <1>0, <1>8 DEF Disconnect, TypeOK, FlagInv
<1>9. CASE LoseSession
  BY <1>0, <1>9 DEF LoseSession, TypeOK, FlagInv
<1>10. CASE ConnLost
  BY <1>0, <1>10 DEF ConnLost, FlagOnLoss, TypeOK, FlagInv
<1>11. CASE Crash
  BY <1>0, <1>11 DEF Crash, Alive, TypeOK, FlagInv
<1>12. CASE Restart
  BY <1>0, <1>12 DEF Restart, Alive, TypeOK, FlagInv
<1>13. CASE UNCHANGED <<main, connected, session, reported>>
  BY <1>0, <1>13 DEF TypeOK, FlagInv
<1>14. \/ UNCHANGED <<main, connected, session, reported>>
       \/ Attempt \/ ConnectFails \/ ConnectSucceeds \/ SetConnected
       \/ Announce \/ LeaveLoop \/ Goodbye \/ Disconnect \/ LoseSession
       \/ ConnLost \/ Crash \/ Restart
  BY DEF Next, MainStep, vars, Subscribe, BrokerNotices, HomeAssistantRestart,
     Tick, SetClockBack, StopRequested
<1>15. QED
  BY <1>1, <1>2, <1>3, <1>4, <1>5, <1>6, <1>7, <1>8, <1>9, <1>10, <1>11,
     <1>12, <1>13, <1>14

\* The session that ha_on_connect served is the one it announces: a session is up
\* in the loop only when it has not been lost since.
LEMMA AnnounceStep == ConnInv /\ [Next]_vars => AnnounceInv'
<1> SUFFICES ASSUME ConnInv, [Next]_vars PROVE AnnounceInv'
  OBVIOUS
<1> USE DEF process, paho, availability, broker, bounds
<1>0. TypeOK /\ FlagInv /\ AnnounceInv
  BY DEF ConnInv
<1>1. CASE Attempt
  BY <1>0, <1>1 DEF Attempt, TypeOK, FlagInv, AnnounceInv
<1>2. CASE ConnectFails
  BY <1>0, <1>2 DEF ConnectFails, TypeOK, FlagInv, AnnounceInv
<1>3. CASE ConnectSucceeds
  BY <1>0, <1>3 DEF ConnectSucceeds, TypeOK, FlagInv, AnnounceInv
<1>4. CASE SetConnected
  BY <1>0, <1>4 DEF SetConnected, TypeOK, FlagInv, AnnounceInv
<1>5. ASSUME NEW t \in Topics, NEW ok \in BOOLEAN, Subscribe(t, ok)
      PROVE  AnnounceInv'
  BY <1>0, <1>5 DEF Subscribe, TypeOK, FlagInv, AnnounceInv
<1>6. CASE Announce
  BY <1>0, <1>6 DEF Announce, PublishAvailability, Understood, Presence,
     TypeOK, FlagInv, AnnounceInv
<1>7. CASE LeaveLoop
  BY <1>0, <1>7 DEF LeaveLoop, TypeOK, FlagInv, AnnounceInv
<1>8. CASE Goodbye
  BY <1>0, <1>8 DEF Goodbye, PublishAvailability, Understood, Presence,
     TypeOK, FlagInv, AnnounceInv
<1>9. CASE Disconnect
  BY <1>0, <1>9 DEF Disconnect, TypeOK, FlagInv, AnnounceInv
<1>10. CASE LoseSession
  BY <1>0, <1>10 DEF LoseSession, TypeOK, FlagInv, AnnounceInv
<1>11. CASE BrokerNotices
  BY <1>0, <1>11 DEF BrokerNotices, TypeOK, FlagInv, AnnounceInv
<1>12. CASE HomeAssistantRestart
  BY <1>0, <1>12
  DEF HomeAssistantRestart, Understood, TypeOK, FlagInv, AnnounceInv
<1>13. CASE Crash
  BY <1>0, <1>13 DEF Crash, Alive, TypeOK, FlagInv, AnnounceInv
<1>14. CASE Restart
  BY <1>0, <1>14 DEF Restart, Alive, TypeOK, FlagInv, AnnounceInv
<1>15. CASE UNCHANGED <<main, asked, session, subscribed, refused, retained,
                          shown>>
  BY <1>0, <1>15 DEF TypeOK, FlagInv, AnnounceInv
<1>16. \/ UNCHANGED <<main, asked, session, subscribed, refused, retained,
                       shown>>
       \/ Attempt \/ ConnectFails \/ ConnectSucceeds \/ SetConnected
       \/ (\E t \in Topics, ok \in BOOLEAN : Subscribe(t, ok))
       \/ Announce \/ LeaveLoop \/ Goodbye \/ Disconnect
       \/ LoseSession \/ BrokerNotices \/ HomeAssistantRestart
       \/ Crash \/ Restart
  BY DEF Next, MainStep, vars, ConnLost, Tick, SetClockBack, StopRequested
<1>17. QED
  BY <1>1, <1>2, <1>3, <1>4, <1>5, <1>6, <1>7, <1>8, <1>9, <1>10, <1>11,
     <1>12, <1>13, <1>14, <1>15, <1>16

\* Every connect arms the will, and the broker drops it only without a session.
LEMMA WillStep == ConnInv /\ [Next]_vars => WillInv'
<1> SUFFICES ASSUME ConnInv, [Next]_vars PROVE WillInv'
  OBVIOUS
<1> USE DEF process, paho, availability, broker, bounds
<1>0. WillInv
  BY DEF ConnInv
<1>1. CASE ConnectSucceeds
  BY <1>0, <1>1 DEF ConnectSucceeds, Will, WillInv
<1>2. CASE Disconnect
  BY <1>0, <1>2 DEF Disconnect, WillInv
<1>3. CASE LoseSession
  BY <1>0, <1>3 DEF LoseSession, WillInv
<1>4. CASE BrokerNotices
  BY <1>0, <1>4 DEF BrokerNotices, WillInv
<1>5. CASE Crash
  BY <1>0, <1>5 DEF Crash, WillInv
<1>6. CASE UNCHANGED <<session, will>>
  BY <1>0, <1>6 DEF WillInv
<1>7. \/ UNCHANGED <<session, will>>
      \/ ConnectSucceeds \/ Disconnect \/ LoseSession \/ BrokerNotices \/ Crash
  BY DEF Next, MainStep, vars, Attempt, ConnectFails, SetConnected, Subscribe,
     Announce, LeaveLoop, Goodbye, ConnLost, HomeAssistantRestart, Tick,
        SetClockBack, StopRequested, Restart
<1>8. QED
  BY <1>1, <1>2, <1>3, <1>4, <1>5, <1>6, <1>7

\* Whoever publishes offline while online is retained retains it.
LEMMA TruthStep == ConnInv /\ [Next]_vars => RestartIsTruthful'
<1> SUFFICES ASSUME ConnInv, [Next]_vars PROVE RestartIsTruthful'
  OBVIOUS
<1> USE DEF process, paho, availability, broker, bounds
<1>0. TypeOK /\ RestartIsTruthful
  BY DEF ConnInv
<1>1. CASE ConnectSucceeds
  BY <1>0, <1>1
  DEF ConnectSucceeds, PublishWill, WillRetained, TypeOK, RestartIsTruthful
<1>2. CASE Announce
  BY <1>0, <1>2 DEF Announce, PublishAvailability, Understood, Presence,
     TypeOK, RestartIsTruthful
<1>3. CASE Goodbye
  BY <1>0, <1>3 DEF Goodbye, PublishAvailability, Understood, Presence,
     TypeOK, RestartIsTruthful
<1>4. CASE BrokerNotices
  BY <1>0, <1>4
  DEF BrokerNotices, PublishWill, WillRetained, TypeOK, RestartIsTruthful
<1>5. CASE HomeAssistantRestart
  BY <1>0, <1>5 DEF HomeAssistantRestart, Understood, TypeOK, RestartIsTruthful
<1>6. CASE UNCHANGED <<retained, shown>>
  BY <1>0, <1>6 DEF TypeOK, RestartIsTruthful
<1>7. \/ UNCHANGED <<retained, shown>>
      \/ ConnectSucceeds \/ Announce \/ Goodbye \/ BrokerNotices
         \/ HomeAssistantRestart
  BY DEF Next, MainStep, vars, Attempt, ConnectFails, SetConnected, Subscribe,
     LeaveLoop, Disconnect, LoseSession, ConnLost, Tick, SetClockBack,
        StopRequested, Crash, Restart
<1>8. QED
  BY <1>1, <1>2, <1>3, <1>4, <1>5, <1>6, <1>7

LEMMA ConnInvHolds == Spec => []ConnInv
<1>1. ConnInv /\ [Next]_vars => ConnInv'
  BY ConnTypeStep, FlagStep, AnnounceStep, WillStep, TruthStep DEF ConnInv
<1>2. QED
  BY <1>1, InitConnInv, PTL DEF Spec
-----------------------------------------------------------------------------
(* The results.                                                            *)

\* Every variable keeps its type, whatever the losses, restarts and clock changes.
THEOREM ConnTypeCorrect == Spec => []TypeOK
  BY ConnInvHolds, PTL DEF ConnInv

\* MQTTClient_connect is never called over a live session: the flag the main
\* thread reads without a lock is down only when conn_lost has seen the session go.
THEOREM NoConnectOverSession == Spec => []ConnectsWhenDown
<1>1. ConnInv => ConnectsWhenDown
  BY DEF ConnInv, FlagInv, ConnectsWhenDown
<1>2. QED
  BY <1>1, ConnInvHolds, PTL

\* In the loop with a session, the device is shown online and every command topic
\* was subscribed or refused in this session.
THEOREM SessionIsAnnounced == Spec => []AnnouncedWhenUp
<1>1. ConnInv => AnnouncedWhenUp
  BY DEF ConnInv, AnnounceInv, AnnouncedWhenUp
<1>2. QED
  BY <1>1, ConnInvHolds, PTL

\* With retained_online, Home Assistant is not told online after it knew better.
THEOREM RetainedIsTruthful == Spec => []RestartIsTruthful
  BY ConnInvHolds, PTL DEF ConnInv

\* With retained_online, as the configuration has it by default: a device shown
\* online has a will at the broker, until its process disconnects.  Without it
\* this fails, since the retained online outlives the will that was published.
THEOREM OnlineHasWill ==
    ASSUME RetainedOnline
    PROVE  Spec => OnlineIsGuarded
<1> DEFINE Guarded == (shown' = "online" /\ will' = "none")
                        => (shown = "online" /\ will = "none")
                           \/ main = "disconnect"
<1>1. ASSUME ConnInv, [Next]_vars PROVE [Guarded]_vars
  <2> SUFFICES ASSUME shown' = "online", will' = "none", main # "disconnect"
               PROVE  shown = "online" /\ will = "none"
    OBVIOUS
  <2> USE DEF process, paho, availability, broker, bounds
  <2>0. TypeOK /\ WillInv /\ RestartIsTruthful
    BY <1>1 DEF ConnInv
  <2>1. CASE ConnectSucceeds
    BY <2>1 DEF ConnectSucceeds, Will
  <2>2. CASE Announce
    BY <2>0, <2>2 DEF Announce, PublishAvailability, WillInv, TypeOK
  <2>3. CASE Goodbye
    BY <2>3 DEF Goodbye, PublishAvailability, Understood
  <2>4. CASE Disconnect
    BY <2>4 DEF Disconnect
  <2>5. CASE BrokerNotices
    BY <2>5 DEF BrokerNotices, PublishWill
  <2>6. CASE HomeAssistantRestart
    BY <2>0, <2>6 DEF HomeAssistantRestart, Understood, RestartIsTruthful
  <2>7. CASE UNCHANGED <<shown, will>>
    BY <2>7
  <2>8. \/ UNCHANGED <<shown, will>>
        \/ ConnectSucceeds \/ Announce \/ Goodbye \/ Disconnect
        \/ BrokerNotices \/ HomeAssistantRestart
    BY <1>1 DEF Next, MainStep, vars, Attempt, ConnectFails, SetConnected,
       Subscribe, LeaveLoop, LoseSession, ConnLost, Tick, SetClockBack,
       StopRequested, Crash, Restart
  <2>9. QED
    BY <2>1, <2>2, <2>3, <2>4, <2>5, <2>6, <2>7, <2>8
<1>2. QED
  BY <1>1, ConnInvHolds, PTL DEF Spec, OnlineIsGuarded

\* The flag goes stale only when a session is lost between the return of
\* MQTTClient_connect and the assignment that follows it.
THEOREM OneStaleWindow == Spec => StaleOnlyInWindow
<1> DEFINE Window == Stale' => Stale \/ main = "flag"
<1>1. ASSUME ConnInv, [Next]_vars PROVE [Window]_vars
  <2> SUFFICES ASSUME Stale', main # "flag"
               PROVE  Stale
    OBVIOUS
  <2> USE DEF process, paho, broker, bounds, Stale, Alive
  <2>0. TypeOK /\ FlagInv
    BY <1>1 DEF ConnInv
  <2>1. CASE Attempt
    BY <2>0, <2>1 DEF Attempt, TypeOK
  <2>2. CASE ConnectFails
    BY <2>0, <2>2 DEF ConnectFails, TypeOK
  <2>3. CASE ConnectSucceeds
    BY <2>3 DEF ConnectSucceeds
  <2>4. CASE SetConnected
    BY <2>4 DEF SetConnected
  <2>5. CASE Disconnect
    BY <2>5 DEF Disconnect
  <2>6. CASE LoseSession
    BY <2>6 DEF LoseSession
  <2>7. CASE ConnLost
    BY <2>7 DEF ConnLost, FlagOnLoss
  <2>8. CASE Crash
    BY <2>8 DEF Crash
  <2>9. CASE Restart
    BY <2>9 DEF Restart
  <2>10. CASE /\ UNCHANGED <<connected, session, reported>>
              /\ Alive' => Alive
    BY <2>10
  <2>11. \/ UNCHANGED <<connected, session, reported>> /\ (Alive' => Alive)
         \/ Attempt \/ ConnectFails \/ ConnectSucceeds \/ SetConnected
         \/ Disconnect \/ LoseSession \/ ConnLost \/ Crash \/ Restart
    BY <1>1 DEF Next, MainStep, vars, Subscribe, Announce, LeaveLoop, Goodbye,
       BrokerNotices, HomeAssistantRestart, Tick, SetClockBack, StopRequested
  <2>12. QED
    BY <2>1, <2>2, <2>3, <2>4, <2>5, <2>6, <2>7, <2>8, <2>9, <2>10, <2>11
<1>2. QED
  BY <1>1, ConnInvHolds, PTL DEF Spec, StaleOnlyInWindow
=============================================================================
