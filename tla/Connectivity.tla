----------------------------- MODULE Connectivity -----------------------------
(***************************************************************************)
(* The main task of app_main.c after the output is enabled: it starts      *)
(* Wi-Fi and the MQTT client, and asks the publisher for everything in     *)
(* each period, over a link and a session that come and go.  MqttManager   *)
(* has the interior of the session.                                        *)
(***************************************************************************)
EXTENDS Wifi, Publisher

CONSTANT MaxLosses  \* bound on sessions that fail over a link that holds

ASSUME ConnectivityAssumption == MaxLosses \in Nat

VARIABLES
  main,     \* position of the main task
  client,   \* s_client
  session,  \* "off", "connected", "ready"
  losses

sessionVars == <<client, session, losses>>
vars == <<main, sessionVars, wifiVars, publisherVars>>

Init ==
  /\ WifiInit /\ PublisherInit
  /\ main = "publisher"
  /\ client = FALSE /\ session = "off" /\ losses = 0

-----------------------------------------------------------------------------
(* The session                                                             *)
ConnectSession ==
  /\ client /\ session = "off" /\ link = "addressed"
  /\ session' = "connected"
  /\ UNCHANGED <<main, client, losses>>

Subscribed ==
  /\ session = "connected"
  /\ session' = "ready"
  /\ UNCHANGED <<main, client, losses>>

\* Every session ends with its link, and some over a link that holds.
LoseSession ==
  /\ session # "off"
  /\ IF link # "addressed" THEN session' = "off" /\ UNCHANGED losses
     ELSE /\ losses < MaxLosses /\ losses' = losses + 1
          /\ session' = "off"
  /\ UNCHANGED <<main, client>>

Session == ConnectSession \/ Subscribed \/ LoseSession

-----------------------------------------------------------------------------
(* The main task                                                           *)
AtMain(place) == main = place

StartTasks ==
  /\ AtMain("publisher") /\ main' = "wifi"
  /\ StartPublisher
  /\ UNCHANGED <<sessionVars, wifiVars>>

\* Without a network, for want of a configuration or of Wi-Fi, the main task ends.
StartWifi ==
  /\ AtMain("wifi")
  /\ InitWifi
  /\ main' = IF radio' = "on" THEN "address" ELSE "offline"
  /\ UNCHANGED <<sessionVars, publisherVars>>

\* wifi_manager_wait_for_ip, which may time out; without an address the first start
\* of the client is left to the loop.
WaitForIp ==
  /\ AtMain("address")
  /\ main' \in (IF hasIp THEN {"time"} ELSE {"loop"})
  /\ UNCHANGED <<sessionVars, wifiVars, publisherVars>>

\* mqtt_manager_start, which waits for a wall time that is valid for TLS; it may
\* fail, and leaves a client that runs alone.
StartClient == client' \in {client, TRUE}

WaitForTime ==
  /\ AtMain("time") /\ main' = "loop"
  /\ StartClient
  /\ UNCHANGED <<session, losses, wifiVars, publisherVars>>

\* The steps of a period; one with none of them to do changes nothing.
\* mqtt_manager_poll gives up a session that is not ready in time, or has lost a
\* command.
Poll ==
  /\ AtMain("loop")
  /\ session # "off" /\ losses < MaxLosses
  /\ losses' = losses + 1
  /\ session' = "off"
  /\ UNCHANGED <<main, client, wifiVars, publisherVars>>

StartInLoop ==
  /\ AtMain("loop")
  /\ session = "off" /\ hasIp
  /\ StartClient
  /\ UNCHANGED <<main, session, losses, wifiVars, publisherVars>>

RequestEverything ==
  /\ AtMain("loop")
  /\ session = "ready"
  /\ Request(Everything)
  /\ UNCHANGED <<main, sessionVars, wifiVars, applied, unreported, started, taken, fan, snap,
                 told, retained, changes>>

Main ==
  \/ StartTasks \/ StartWifi \/ WaitForIp \/ WaitForTime
  \/ Poll \/ StartInLoop \/ RequestEverything

Others == UNCHANGED <<main, sessionVars>>

Publishing == PublisherTask(session) /\ Others /\ UNCHANGED wifiVars
Reporting == \E f \in Fans : Report(f) /\ Others /\ UNCHANGED wifiVars
Radio == Wifi /\ Others /\ UNCHANGED publisherVars
Online == Session /\ UNCHANGED <<wifiVars, publisherVars>>

Next ==
  \/ Main \/ Publishing \/ Reporting \/ Radio \/ Online
  \/ \E f \in Fans : Ramp(f) /\ Others /\ UNCHANGED wifiVars
  \/ Notify /\ Others /\ UNCHANGED wifiVars

Spec == Init /\ [][Next]_vars

Delivers(f) == Publishing /\ fan = f /\ Full \in taken /\ told'[f] # -1

\* Tasks run; the access point, the broker and the client's task do what they can
\* when nothing is lost; a call of esp_wifi_connect, a start of the client and the
\* publication of a fan do not fail for ever.
FairSpec ==
  /\ Spec
  /\ WF_vars(StartTasks \/ StartWifi \/ WaitForIp \/ WaitForTime)
  /\ WF_vars(RequestEverything)
  /\ WF_vars(Publishing) /\ WF_vars(Reporting)
  /\ WF_vars(Radio /\ HandleEvent) /\ WF_vars(Radio /\ TimerExpires)
  /\ WF_vars(Radio /\ TimerCallback) /\ SF_vars(Radio /\ TimerCallback /\ Connect(TRUE))
  /\ WF_vars(Radio /\ (Joins \/ GetsAddress))
  /\ WF_vars(Online /\ (ConnectSession \/ Subscribed))
  /\ WF_vars(Online /\ LoseSession /\ link # "addressed")
  /\ SF_vars(StartInLoop /\ client')
  /\ \A f \in Fans : SF_vars(Delivers(f))

-----------------------------------------------------------------------------
TypeOK ==
  /\ WifiTypeOK /\ PublisherTypeOK
  /\ main \in {"publisher", "wifi", "address", "time", "loop", "offline"}
  /\ client \in BOOLEAN
  /\ session \in {"off", "connected", "ready"} /\ losses \in 0..MaxLosses

\* Once links hold and the fans are steady, the broker comes to retain their states
\* for good, unless Wi-Fi could not be initialized: the link is joined again, the
\* client started, and what was skipped or lost is published again in full.
StatesReachTheBroker ==
  <>[](main = "offline" \/ retained = applied)

=============================================================================
