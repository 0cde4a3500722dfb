--------------------------------- MODULE Wifi ---------------------------------
(***************************************************************************)
(* wifi_manager.c: the station's events, handled one after another in the  *)
(* event task, and the timer that asks for the connection again, in a task *)
(* of its own.  The radio driver and the access point are external.        *)
(* How long the timer waits is left out.                                   *)
(***************************************************************************)
EXTENDS Naturals, Sequences

CONSTANT MaxDrops  \* bound on attempts, links and addresses that are lost

ASSUME WifiAssumption == MaxDrops \in Nat

VARIABLES
  radio,    \* "off", "on" after wifi_manager_init, "failed" when that has failed
  link,     \* of the driver: "down", "joining", "joined", "addressed"
  events,   \* posted by the driver, not handled yet
  armed,    \* the retry timer runs
  firing,   \* the callback of the timer has been called
  hasIp,    \* s_has_ip
  drops

wifiVars == <<radio, link, events, armed, firing, hasIp, drops>>

WifiInit ==
  /\ radio = "off" /\ link = "down" /\ events = <<>>
  /\ armed = FALSE /\ firing = FALSE /\ hasIp = FALSE
  /\ drops = 0

\* Everything that can fail is done before the radio starts; a failure undoes all.
InitWifi ==
  /\ radio = "off"
  /\ \/ radio' = "on" /\ events' = <<"start">>
     \/ radio' = "failed" /\ UNCHANGED events
  /\ UNCHANGED <<link, armed, firing, hasIp, drops>>

-----------------------------------------------------------------------------
(* The driver                                                              *)
Post(event) == events' = Append(events, event)

Joins ==
  /\ link = "joining" /\ link' = "joined"
  /\ Post("connected")
  /\ UNCHANGED drops

GetsAddress ==
  /\ link = "joined" /\ link' = "addressed"
  /\ Post("got ip")
  /\ UNCHANGED drops

Drops ==
  /\ drops < MaxDrops
  /\ drops' = drops + 1
  /\ \/ /\ link # "down" /\ link' = "down"
        /\ Post("disconnected")
     \/ /\ link = "addressed" /\ link' = "joined"
        /\ Post("lost ip")

Driver ==
  /\ Joins \/ GetsAddress \/ Drops
  /\ UNCHANGED <<radio, armed, firing, hasIp>>

-----------------------------------------------------------------------------
(* The event handler and the timer                                         *)
\* esp_wifi_connect, which may fail; a station that is not down is left alone.
Connect(ok) == link' = IF ok /\ link = "down" THEN "joining" ELSE link

\* schedule_reconnect, which stops the timer before it starts it.
ScheduleReconnect == armed' = TRUE

ConnectOrSchedule ==
  \E ok \in BOOLEAN :
    /\ Connect(ok)
    /\ IF ok THEN UNCHANGED armed ELSE ScheduleReconnect

ForgetAddress == hasIp' = FALSE

HandleEvent ==
  /\ events # <<>>
  /\ events' = Tail(events)
  /\ \/ /\ Head(events) = "start"
        /\ ConnectOrSchedule
        /\ UNCHANGED hasIp
     \/ /\ Head(events) = "connected"
        /\ UNCHANGED <<hasIp, armed, link>>
     \/ /\ Head(events) = "disconnected"
        /\ ForgetAddress
        /\ ScheduleReconnect
        /\ UNCHANGED link
     \/ /\ Head(events) = "got ip"
        /\ hasIp' = TRUE /\ armed' = FALSE
        /\ UNCHANGED link
     \/ /\ Head(events) = "lost ip"
        /\ ForgetAddress
        /\ UNCHANGED <<armed, link>>
  /\ UNCHANGED <<radio, firing, drops>>

TimerExpires ==
  /\ armed /\ ~firing
  /\ armed' = FALSE /\ firing' = TRUE
  /\ UNCHANGED <<radio, link, events, hasIp, drops>>

\* Faulty variant: the event of the attempt will see to it.
ConnectOnce == \E ok \in BOOLEAN : Connect(ok) /\ UNCHANGED armed

Retry == ConnectOrSchedule

TimerCallback ==
  /\ firing /\ firing' = FALSE
  /\ Retry
  /\ UNCHANGED <<radio, events, hasIp, drops>>

Wifi == Driver \/ HandleEvent \/ TimerExpires \/ TimerCallback

-----------------------------------------------------------------------------
WifiTypeOK ==
  /\ radio \in {"off", "on", "failed"}
  /\ link \in {"down", "joining", "joined", "addressed"}
  /\ events \in Seq({"start", "connected", "disconnected", "got ip", "lost ip"})
  /\ {armed, firing, hasIp} \subseteq BOOLEAN
  /\ drops \in 0..MaxDrops

\* A station that is down always has an attempt ahead of it: an event that makes
\* one is to be handled, or the timer runs or is calling back, whichever of the
\* handler and the callback stops, starts or overtakes the other's timer.
RetryIsLeft ==
  radio = "on" /\ link = "down" =>
    \/ armed \/ firing
    \/ \E i \in DOMAIN events : events[i] \in {"start", "disconnected"}

\* Once the handler has caught up with the driver, the address that the rest of the
\* program goes by is the one the station has, in whatever order addresses and links
\* have come and gone behind it.
AddressIsKnown == events = <<>> => (hasIp <=> link = "addressed")

=============================================================================
