-------------------------- MODULE ConnectivityProofs --------------------------
(***************************************************************************)
(* What Connectivity guarantees for every number of fans and every bound:  *)
(* the types, that the station always has an attempt ahead of it, that its *)
(* address is known once the events are handled, and that a change of a    *)
(* fan is on its way to the subscribers.                                   *)
(***************************************************************************)
EXTENDS Connectivity, TLAPS

Event == {"start", "connected", "disconnected", "got ip", "lost ip"}

\* Of the events to be handled, the last one that is good or bad is good.
Says(s, good, bad) ==
  \E i \in 1..Len(s) :
    s[i] \in good /\ \A j \in (i + 1)..Len(s) : s[j] \notin bad

\* None of the events to be handled is bad.
Quiet(s, bad) == \A j \in 1..Len(s) : s[j] \notin bad

Trying == {"start", "disconnected"}
Gaining == {"got ip"}
Losing == {"disconnected", "lost ip"}

\* Before the radio is on there is nothing to handle and nothing to wait for.
RadioOff ==
  radio # "on" => link = "down" /\ events = <<>> /\ ~armed /\ ~firing /\ ~hasIp

\* An attempt is ahead of a station that is down, and no event that stops the
\* timer is between.
Retrying ==
  radio = "on" /\ link = "down" =>
    Says(events, Trying, Gaining) \/ ((armed \/ firing) /\ Quiet(events, Gaining))

\* What the handler believes, or what the events will have it believe.
AddressGained ==
  link = "addressed" => Says(events, Gaining, Losing) \/ (hasIp /\ Quiet(events, Losing))

AddressLost ==
  link # "addressed" => Says(events, Losing, Gaining) \/ (~hasIp /\ Quiet(events, Gaining))

WifiInv == WifiTypeOK /\ RadioOff /\ Retrying /\ AddressGained /\ AddressLost

\* The snapshot that is published is of a fan the task has taken; if the fan has
\* changed since, another turn is asked for.
SnapshotTaken ==
  fan # -1 =>
    /\ fan \in taken
    /\ snap # applied[fan] => fan \in unreported \cup early \cup bits

PublisherInv == PublisherTypeOK /\ SnapshotTaken /\ ChangeIsPending

-----------------------------------------------------------------------------
\* A posted event is the last one to be handled.
LEMMA PostEvent ==
  ASSUME NEW s \in Seq(Event), NEW e \in Event, NEW good, NEW bad
  PROVE  /\ e \in good => Says(Append(s, e), good, bad)
         /\ e \notin bad /\ Says(s, good, bad) => Says(Append(s, e), good, bad)
         /\ e \notin bad /\ Quiet(s, bad) => Quiet(Append(s, e), bad)
<1> DEFINE t == Append(s, e)
<1>1. Len(t) = Len(s) + 1 /\ t[Len(t)] = e /\ \A j \in 1..Len(s) : t[j] = s[j]
  OBVIOUS
<1>2. Len(s) \in Nat
  OBVIOUS
<1> HIDE DEF t
<1>3. e \in good => Says(t, good, bad)
  <2> SUFFICES ASSUME e \in good PROVE Says(t, good, bad)
    OBVIOUS
  <2>1. Len(t) \in 1..Len(t) /\ (Len(t) + 1)..Len(t) = {}
    BY <1>1, <1>2
  <2> QED
    BY <2>1, <1>1 DEF Says
<1>4. e \notin bad /\ Says(s, good, bad) => Says(t, good, bad)
  <2> SUFFICES ASSUME e \notin bad, Says(s, good, bad) PROVE Says(t, good, bad)
    OBVIOUS
  <2>1. PICK i \in 1..Len(s) : s[i] \in good /\ \A j \in (i + 1)..Len(s) : s[j] \notin bad
    BY DEF Says
  <2>2. i \in 1..Len(t) /\ t[i] \in good
    BY <2>1, <1>1, <1>2
  <2>3. ASSUME NEW j \in (i + 1)..Len(t) PROVE t[j] \notin bad
    <3>1. j = Len(t) \/ (j \in (i + 1)..Len(s) /\ j \in 1..Len(s))
      BY <1>1, <1>2, <2>1
    <3> QED
      BY <3>1, <2>1, <1>1
  <2> QED
    BY <2>2, <2>3 DEF Says
<1>5. e \notin bad /\ Quiet(s, bad) => Quiet(t, bad)
  <2>1. \A j \in 1..Len(t) : j = Len(t) \/ j \in 1..Len(s)
    BY <1>1, <1>2
  <2> QED
    BY <2>1, <1>1 DEF Quiet
<1> QED
  BY <1>3, <1>4, <1>5 DEF t

\* Once the first event is handled, the others say what all of them said, unless it
\* was the one that said it.
LEMMA HandleFirst ==
  ASSUME NEW s \in Seq(Event), s # <<>>, NEW good, NEW bad
  PROVE  /\ Says(s, good, bad) =>
              Says(Tail(s), good, bad) \/ (Head(s) \in good /\ Quiet(Tail(s), bad))
         /\ Quiet(s, bad) => Head(s) \notin bad /\ Quiet(Tail(s), bad)
<1> DEFINE t == Tail(s)
<1>1. /\ Len(s) \in Nat \ {0} /\ Len(t) = Len(s) - 1
      /\ Head(s) = s[1] /\ \A j \in 1..Len(t) : t[j] = s[j + 1]
  OBVIOUS
<1> HIDE DEF t
<1>2. ASSUME Says(s, good, bad)
      PROVE  Says(t, good, bad) \/ (s[1] \in good /\ Quiet(t, bad))
  <2>1. PICK i \in 1..Len(s) : s[i] \in good /\ \A j \in (i + 1)..Len(s) : s[j] \notin bad
    BY <1>2 DEF Says
  <2>2. ASSUME NEW j \in i..Len(t), j \in 1..Len(t) PROVE t[j] \notin bad
    <3>1. j + 1 \in (i + 1)..Len(s)
      BY <1>1, <2>1, <2>2
    <3> QED
      BY <3>1, <2>1, <2>2, <1>1
  <2>3. CASE i = 1
    BY <2>1, <2>2, <2>3 DEF Quiet
  <2>4. CASE i # 1
    <3>1. i - 1 \in 1..Len(t) /\ t[i - 1] = s[i]
      BY <1>1, <2>1, <2>4
    <3>2. \A j \in (i - 1 + 1)..Len(t) : t[j] \notin bad
      BY <2>2, <2>1, <1>1
    <3> QED
      BY <3>1, <3>2, <2>1 DEF Says
  <2> QED
    BY <2>3, <2>4
<1>3. ASSUME Quiet(s, bad) PROVE s[1] \notin bad /\ Quiet(t, bad)
  <2>1. 1 \in 1..Len(s) /\ \A j \in 1..Len(t) : j + 1 \in 1..Len(s)
    BY <1>1
  <2> QED
    BY <2>1, <1>1, <1>3 DEF Quiet
<1> QED
  BY <1>1, <1>2, <1>3 DEF t

-----------------------------------------------------------------------------
LEMMA WifiInit_WifiInv == WifiInit => WifiInv
<1> SUFFICES ASSUME WifiInit PROVE WifiInv
  OBVIOUS
<1> USE DEF WifiInit
<1>1. WifiTypeOK
  <2>1. events \in Seq(Event) /\ drops \in 0..MaxDrops
    BY WifiAssumption
  <2> QED
    BY <2>1 DEF WifiTypeOK, Event
<1>2. RadioOff /\ Retrying /\ AddressGained
  BY DEF RadioOff, Retrying, AddressGained
<1>3. AddressLost
  <2>1. 1..Len(events) = {}
    OBVIOUS
  <2> QED
    BY <2>1 DEF AddressLost, Quiet
<1> QED
  BY <1>1, <1>2, <1>3 DEF WifiInv

LEMMA InitWifi_WifiInv == WifiInv /\ InitWifi => WifiInv'
<1> SUFFICES ASSUME WifiInv, InitWifi PROVE WifiInv'
  OBVIOUS
<1> USE DEF WifiInv, InitWifi
<1>1. CASE radio' = "on" /\ events' = <<"start">>
  <2>1. Len(events') = 1 /\ events'[1] = "start" /\ events' \in Seq(Event)
    BY <1>1 DEF Event
  <2>2. Says(events', Trying, Gaining)
    <3>1. 1 \in 1..Len(events') /\ (1 + 1)..Len(events') = {}
      BY <2>1
    <3> QED
      BY <3>1, <2>1 DEF Says, Trying
  <2>3. Quiet(events', Gaining)
    <3>1. 1..Len(events') = {1}
      BY <2>1
    <3> QED
      BY <3>1, <2>1 DEF Quiet, Gaining
  <2>4. WifiTypeOK'
    BY <1>1, <2>1 DEF WifiTypeOK, Event
  <2> QED
    BY <1>1, <2>2, <2>3, <2>4 DEF RadioOff, Retrying, AddressGained, AddressLost
<1>2. CASE radio' = "failed" /\ UNCHANGED events
  BY <1>2 DEF WifiTypeOK, RadioOff, Retrying, AddressGained, AddressLost, Quiet
<1> QED
  BY <1>1, <1>2

\* Every event of the driver says what the driver has just done to the link.
LEMMA Driver_WifiInv == WifiInv /\ Driver => WifiInv'
<1> SUFFICES ASSUME WifiInv, Driver PROVE WifiInv'
  OBVIOUS
<1> USE DEF WifiInv
<1>1. radio = "on" /\ UNCHANGED <<radio, armed, firing, hasIp>>
  BY DEF Driver, Joins, GetsAddress, Drops, RadioOff, WifiTypeOK
<1>2. events \in Seq(Event) /\ drops' \in 0..MaxDrops
  <2>1. drops \in 0..MaxDrops /\ (drops' = drops \/ (drops < MaxDrops /\ drops' = drops + 1))
    BY DEF WifiTypeOK, Driver, Joins, GetsAddress, Drops
  <2>2. drops' \in 0..MaxDrops
    BY <2>1, WifiAssumption
  <2> QED
    BY <2>2 DEF WifiTypeOK, Event
<1>3. ASSUME NEW e \in Event, Post(e), link' \in {"down", "joined", "addressed"},
             link' = "down" => e \in Trying,
             e \in Gaining => link' = "addressed",
             link' = "addressed" => e \in Gaining,
             link' # "addressed" /\ e \notin Losing => link # "addressed" /\ e \notin Gaining
      PROVE  WifiInv'
  <2>1. events' = Append(events, e) /\ events' \in Seq(Event)
    BY <1>2, <1>3 DEF Post
  <2>2. WifiTypeOK'
    BY <1>1, <1>2, <1>3, <2>1 DEF WifiTypeOK, Event
  <2>3. Retrying'
    BY <1>2, <1>3, <2>1, PostEvent DEF Retrying
  <2>4. AddressGained'
    BY <1>2, <1>3, <2>1, PostEvent DEF AddressGained
  <2>5. AddressLost'
    BY <1>1, <1>2, <1>3, <2>1, PostEvent DEF AddressLost
  <2> QED
    BY <1>1, <2>2, <2>3, <2>4, <2>5 DEF RadioOff
<1> USE DEF Event, Trying, Gaining, Losing
<1>4. CASE Joins
  BY <1>3, <1>4 DEF Joins
<1>5. CASE GetsAddress
  BY <1>3, <1>5 DEF GetsAddress
<1>6. CASE Drops
  BY <1>3, <1>6 DEF Drops
<1> QED
  BY <1>4, <1>5, <1>6 DEF Driver

\* An attempt that fails at once leaves the timer running.
LEMMA ConnectOrSchedule_Step ==
  ASSUME WifiInv, ConnectOrSchedule
  PROVE  /\ link' \in {"down", "joining", "joined", "addressed"} /\ armed' \in BOOLEAN
         /\ link' = "addressed" <=> link = "addressed"
         /\ link' = "down" => armed'
BY DEF WifiInv, WifiTypeOK, ConnectOrSchedule, Connect, ScheduleReconnect

LEMMA HandleEvent_WifiInv == WifiInv /\ HandleEvent => WifiInv'
<1> SUFFICES ASSUME WifiInv, HandleEvent PROVE WifiInv'
  OBVIOUS
<1> DEFINE e == Head(events)
<1>1. events \in Seq(Event) /\ events # <<>> /\ events' = Tail(events) /\ events' \in Seq(Event)
  <2>1. events \in Seq(Event) /\ events # <<>> /\ events' = Tail(events)
    BY DEF HandleEvent, WifiInv, WifiTypeOK, Event
  <2> QED
    BY <2>1
<1>2. radio = "on" /\ UNCHANGED <<radio, firing, drops>>
  BY DEF HandleEvent, WifiInv, RadioOff
<1>3. /\ link' \in {"down", "joining", "joined", "addressed"}
      /\ armed' \in BOOLEAN /\ hasIp' \in BOOLEAN
      /\ link' = "addressed" <=> link = "addressed"
      /\ link' = "down" => link = "down"
  BY ConnectOrSchedule_Step
     DEF HandleEvent, WifiInv, WifiTypeOK, ForgetAddress, ScheduleReconnect, ConnectOrSchedule,
         Connect
<1>4. /\ link' = "down" /\ e \in Trying => armed'
      /\ link' = "down" /\ armed /\ e \notin Gaining => armed'
      /\ e \in Gaining => hasIp'
      /\ e \in Losing => ~hasIp'
      /\ e \notin Gaining \cup Losing => hasIp' = hasIp
  <2> USE DEF ForgetAddress, ScheduleReconnect, Trying, Gaining, Losing
  <2>1. CASE e = "start" /\ ConnectOrSchedule /\ UNCHANGED hasIp
    BY <2>1, ConnectOrSchedule_Step
  <2>2. CASE e = "connected" /\ UNCHANGED <<hasIp, armed, link>>
    BY <2>2
  <2>3. CASE e = "disconnected" /\ ForgetAddress /\ ScheduleReconnect /\ UNCHANGED link
    BY <2>3
  <2>4. CASE e = "got ip" /\ hasIp' = TRUE
    BY <2>4
  <2>5. CASE e = "lost ip" /\ ForgetAddress /\ UNCHANGED <<armed, link>>
    BY <2>5
  <2> QED
    BY <2>1, <2>2, <2>3, <2>4, <2>5 DEF HandleEvent
<1>5. WifiTypeOK'
  BY <1>1, <1>2, <1>3 DEF WifiInv, WifiTypeOK, Event
<1> HIDE DEF e
<1>6. ASSUME NEW good, NEW bad
      PROVE  /\ Says(events, good, bad) =>
                   Says(events', good, bad) \/ (e \in good /\ Quiet(events', bad))
             /\ Quiet(events, bad) => e \notin bad /\ Quiet(events', bad)
  BY <1>1, HandleFirst DEF e
<1>7. Retrying'
  BY <1>2, <1>3, <1>4, <1>6 DEF WifiInv, Retrying
<1>8. AddressGained'
  <2>1. link' = "addressed" /\ e \notin Losing /\ hasIp => hasIp'
    BY <1>4 DEF Gaining
  <2>2. CASE link = "addressed"
    BY <1>3, <1>4, <1>6, <2>1, <2>2 DEF WifiInv, AddressGained
  <2> QED
    BY <1>3, <2>2 DEF AddressGained
<1>9. AddressLost'
  BY <1>3, <1>4, <1>6 DEF WifiInv, AddressLost, Gaining, Losing
<1> QED
  BY <1>2, <1>5, <1>7, <1>8, <1>9 DEF WifiInv, RadioOff

LEMMA Wifi_WifiInv == WifiInv /\ Wifi => WifiInv'
<1> SUFFICES ASSUME WifiInv, Wifi PROVE WifiInv'
  OBVIOUS
<1>1. CASE TimerExpires
  BY <1>1 DEF TimerExpires, WifiInv, WifiTypeOK, RadioOff, Retrying, AddressGained, AddressLost
<1>2. CASE TimerCallback
  <2>1. ConnectOrSchedule /\ UNCHANGED <<radio, events, hasIp, drops>> /\ firing /\ ~firing'
    BY <1>2 DEF TimerCallback, Retry
  <2>2. link' = "down" => link = "down"
    BY <2>1 DEF ConnectOrSchedule, Connect
  <2>3. /\ link' \in {"down", "joining", "joined", "addressed"} /\ armed' \in BOOLEAN
        /\ link' = "addressed" <=> link = "addressed"
        /\ link' = "down" => armed'
    BY <2>1, ConnectOrSchedule_Step
  <2>4. radio = "on"
    BY <2>1 DEF WifiInv, RadioOff
  <2>5. WifiTypeOK' /\ RadioOff'
    BY <1>2, <2>1, <2>3, <2>4 DEF TimerCallback, WifiInv, WifiTypeOK, RadioOff
  <2>6. Retrying'
    BY <2>1, <2>2, <2>3 DEF WifiInv, Retrying
  <2>7. AddressGained' /\ AddressLost'
    BY <2>1, <2>3 DEF WifiInv, AddressGained, AddressLost
  <2> QED
    BY <2>5, <2>6, <2>7 DEF WifiInv
<1> QED
  BY <1>1, <1>2, Driver_WifiInv, HandleEvent_WifiInv DEF Wifi

-----------------------------------------------------------------------------
LEMMA FansAndFull ==
  /\ Fans \subseteq Int /\ Full \notin Fans /\ -1 \notin Fans
  /\ Fans \subseteq Everything /\ Full \in Everything
BY PublisherAssumption DEF Fans, Full, Everything

LEMMA PublisherInit_PublisherInv == PublisherInit => PublisherInv
<1> SUFFICES ASSUME PublisherInit PROVE PublisherInv
  OBVIOUS
<1> USE DEF PublisherInit
<1>1. applied \in [Fans -> {0, 1}] /\ retained \in [Fans -> {0, 1}] /\ told \in [Fans -> {-1, 0, 1}]
  OBVIOUS
<1>2. PublisherTypeOK
  <2>1. changes \in 0..MaxChanges
    BY PublisherAssumption
  <2> QED
    BY <1>1, <2>1 DEF PublisherTypeOK
<1>3. SnapshotTaken /\ ChangeIsPending
  BY DEF SnapshotTaken, ChangeIsPending
<1> QED
  BY <1>2, <1>3 DEF PublisherInv

\* A request adds to what is pending and takes nothing away.
LEMMA Request_Step ==
  ASSUME PublisherTypeOK, NEW asked \in SUBSET Everything, Request(asked)
  PROVE  /\ early' \cup bits' = early \cup bits \cup asked
         /\ early' \in SUBSET Everything /\ bits' \in SUBSET Everything
BY DEF PublisherTypeOK, Request

\* A step that leaves the publication alone and keeps what is pending.
LEMMA Pending_PublisherInv ==
  ASSUME PublisherInv, PublisherTypeOK',
         UNCHANGED <<applied, taken, fan, snap, told>>,
         unreported \cup early \cup bits \subseteq unreported' \cup early' \cup bits'
  PROVE  PublisherInv'
BY DEF PublisherInv, SnapshotTaken, ChangeIsPending

LEMMA Request_PublisherInv ==
  ASSUME PublisherInv, NEW asked \in SUBSET Everything, Request(asked),
         UNCHANGED <<applied, unreported, started, taken, fan, snap, told, retained, changes>>
  PROVE  PublisherInv'
<1>1. PublisherTypeOK'
  BY Request_Step DEF PublisherInv, PublisherTypeOK
<1> QED
  BY <1>1, Request_Step, Pending_PublisherInv DEF PublisherInv

LEMMA StartPublisher_PublisherInv == PublisherInv /\ StartPublisher => PublisherInv'
<1> SUFFICES ASSUME PublisherInv, StartPublisher PROVE PublisherInv'
  OBVIOUS
<1>1. PublisherTypeOK'
  BY DEF PublisherInv, PublisherTypeOK, StartPublisher
<1> QED
  BY <1>1, Pending_PublisherInv DEF StartPublisher

LEMMA Notify_PublisherInv == PublisherInv /\ Notify => PublisherInv'
<1> SUFFICES ASSUME PublisherInv, Notify PROVE PublisherInv'
  OBVIOUS
<1>1. PICK asked \in {Everything} \cup {{f, Full} : f \in Fans} : Request(asked)
  BY DEF Notify
<1>2. asked \in SUBSET Everything
  BY FansAndFull
<1> QED
  BY <1>1, <1>2, Request_PublisherInv DEF Notify

LEMMA Ramp_PublisherInv ==
  ASSUME PublisherInv, NEW f \in Fans, Ramp(f)
  PROVE  PublisherInv'
<1> USE DEF PublisherInv
<1>1. /\ applied \in [Fans -> {0, 1}]
      /\ applied' = [applied EXCEPT ![f] = 1 - applied[f]]
      /\ unreported' = unreported \cup {f}
      /\ UNCHANGED <<started, early, bits, taken, fan, snap, told, retained>>
  BY DEF Ramp, PublisherTypeOK
<1>2. applied' \in [Fans -> {0, 1}]
  <2>1. applied[f] \in {0, 1}
    BY <1>1
  <2> QED
    BY <1>1, <2>1
<1>3. changes' \in 0..MaxChanges
  BY PublisherAssumption DEF Ramp, PublisherTypeOK
<1>4. PublisherTypeOK'
  BY <1>1, <1>2, <1>3 DEF PublisherTypeOK
<1>5. \A g \in Fans : applied'[g] = applied[g] \/ g \in unreported'
  BY <1>1
<1>6. SnapshotTaken'
  BY <1>1, <1>5, FansAndFull DEF SnapshotTaken, PublisherTypeOK
<1>7. ChangeIsPending'
  BY <1>1, <1>5 DEF ChangeIsPending
<1> QED
  BY <1>4, <1>6, <1>7

\* A report turns a change that is known to the ramp task alone into a request.
LEMMA Report_PublisherInv ==
  ASSUME PublisherInv, NEW f \in Fans, Report(f)
  PROVE  PublisherInv'
<1> USE DEF PublisherInv
<1>1. /\ Request({f}) /\ {f} \in SUBSET Everything
      /\ unreported' = unreported \ {f}
      /\ UNCHANGED <<applied, started, taken, fan, snap, told, retained, changes>>
  BY FansAndFull DEF Report
<1>2. /\ early' \cup bits' = early \cup bits \cup {f}
      /\ early' \in SUBSET Everything /\ bits' \in SUBSET Everything
  BY <1>1, Request_Step
<1>3. PublisherTypeOK'
  BY <1>1, <1>2 DEF PublisherTypeOK
<1> QED
  BY <1>1, <1>2, <1>3, Pending_PublisherInv

LEMMA Take_PublisherInv == PublisherInv /\ Take => PublisherInv'
<1> SUFFICES ASSUME PublisherInv, Take PROVE PublisherInv'
  OBVIOUS
<1> USE DEF PublisherInv, Take
<1>1. PublisherTypeOK'
  BY DEF PublisherTypeOK
<1>2. fan = -1
  BY DEF SnapshotTaken
<1> QED
  BY <1>1, <1>2 DEF SnapshotTaken, ChangeIsPending

LEMMA ReadState_PublisherInv == PublisherInv /\ ReadState(session) => PublisherInv'
<1> SUFFICES ASSUME PublisherInv, ReadState(session) PROVE PublisherInv'
  OBVIOUS
<1> USE DEF PublisherInv
<1>1. PICK f \in Fans \cap taken :
        IF session = "ready"
        THEN fan' = f /\ snap' = applied[f] /\ UNCHANGED <<taken, told>>
        ELSE taken' = taken \ {f} /\ told' = [told EXCEPT ![f] = -1] /\ UNCHANGED <<fan, snap>>
  BY DEF ReadState
<1>2. fan = -1 /\ UNCHANGED <<applied, unreported, started, early, bits, retained, changes>>
  BY DEF ReadState
<1>3. CASE session = "ready"
  <2>1. PublisherTypeOK'
    BY <1>1, <1>2, <1>3 DEF PublisherTypeOK
  <2> QED
    BY <1>1, <1>2, <1>3, <2>1 DEF SnapshotTaken, ChangeIsPending
<1>4. CASE session # "ready"
  <2>1. PublisherTypeOK'
    BY <1>1, <1>2, <1>4 DEF PublisherTypeOK
  <2>2. \A g \in Fans : told'[g] = -1 \/ (g # f /\ told'[g] = told[g])
    BY <1>1, <1>4 DEF PublisherTypeOK
  <2> QED
    BY <1>1, <1>2, <1>4, <2>1, <2>2 DEF SnapshotTaken, ChangeIsPending
<1> QED
  BY <1>3, <1>4

\* Subscribers are told of a fan as it was, and of what it has become in the turn
\* that is asked for.
LEMMA PublishState_PublisherInv == PublisherInv /\ PublishState(session) => PublisherInv'
<1> SUFFICES ASSUME PublisherInv, PublishState(session) PROVE PublisherInv'
  OBVIOUS
<1> USE DEF PublisherInv
<1>1. /\ fan \in Fans /\ taken' = taken \ {fan} /\ fan' = -1 /\ snap' = 0
      /\ UNCHANGED <<applied, unreported, started, early, bits, changes>>
      /\ snap # applied[fan] => fan \in unreported \cup early \cup bits
  BY DEF PublishState, PublisherTypeOK, SnapshotTaken
<1>2. told' = [told EXCEPT ![fan] = snap] \/ told' = [told EXCEPT ![fan] = -1]
  BY DEF PublishState
<1>3. retained' = retained \/ retained' = [retained EXCEPT ![fan] = snap]
  BY DEF PublishState
<1>4. PublisherTypeOK'
  <2>1. told' \in [Fans -> {-1, 0, 1}]
    BY <1>1, <1>2 DEF PublisherTypeOK
  <2>2. retained' \in [Fans -> {0, 1}]
    BY <1>1, <1>3 DEF PublisherTypeOK
  <2> QED
    BY <1>1, <2>1, <2>2 DEF PublisherTypeOK
<1>5. \A g \in Fans :
        IF g = fan THEN told'[g] \in {snap, -1} ELSE told'[g] = told[g]
  BY <1>1, <1>2 DEF PublisherTypeOK
<1>6. ChangeIsPending'
  BY <1>1, <1>5 DEF ChangeIsPending
<1> QED
  BY <1>1, <1>4, <1>6 DEF SnapshotTaken

LEMMA EndTurn_PublisherInv == PublisherInv /\ EndTurn => PublisherInv'
<1> SUFFICES ASSUME PublisherInv, EndTurn PROVE PublisherInv'
  OBVIOUS
<1> USE DEF PublisherInv, EndTurn
<1>1. PublisherTypeOK'
  BY DEF PublisherTypeOK
<1>2. SnapshotTaken'
  BY DEF SnapshotTaken, PublisherTypeOK
<1>3. ChangeIsPending'
  BY DEF ChangeIsPending
<1> QED
  BY <1>1, <1>2, <1>3

-----------------------------------------------------------------------------
ConnectivityInv == TypeOK /\ WifiInv /\ PublisherInv

LEMMA ConnectivityInv_Init == Init => ConnectivityInv
<1> SUFFICES ASSUME Init PROVE ConnectivityInv
  OBVIOUS
<1>1. WifiInv /\ PublisherInv
  BY WifiInit_WifiInv, PublisherInit_PublisherInv DEF Init
<1>2. losses \in 0..MaxLosses
  BY ConnectivityAssumption DEF Init
<1> QED
  BY <1>1, <1>2 DEF Init, ConnectivityInv, TypeOK, WifiInv, PublisherInv

\* A step concerns the radio, the publisher or neither, and not both.
LEMMA WifiOf_Step ==
  ASSUME ConnectivityInv, [Next]_vars
  PROVE  WifiInv'
<1>1. CASE UNCHANGED wifiVars
  BY <1>1 DEF ConnectivityInv, WifiInv, WifiTypeOK, RadioOff, Retrying, AddressGained,
              AddressLost, wifiVars
<1>2. CASE StartWifi
  BY <1>2, InitWifi_WifiInv DEF StartWifi, ConnectivityInv
<1>3. CASE Radio
  BY <1>3, Wifi_WifiInv DEF Radio, ConnectivityInv
<1>4. UNCHANGED wifiVars \/ StartWifi \/ Radio
  BY DEF Next, Main, StartTasks, WaitForIp, WaitForTime, Poll, StartInLoop, RequestEverything,
         Publishing, Reporting, Online, vars
<1> QED
  BY <1>1, <1>2, <1>3, <1>4

LEMMA PublisherOf_Step ==
  ASSUME ConnectivityInv, [Next]_vars
  PROVE  PublisherInv'
<1>1. CASE UNCHANGED publisherVars
  BY <1>1 DEF ConnectivityInv, PublisherInv, PublisherTypeOK, SnapshotTaken, ChangeIsPending,
              publisherVars
<1>2. CASE StartTasks
  BY <1>2, StartPublisher_PublisherInv DEF StartTasks, ConnectivityInv
<1>3. CASE RequestEverything
  <2>1. Everything \in SUBSET Everything
    OBVIOUS
  <2> QED
    BY <1>3, <2>1, Request_PublisherInv DEF RequestEverything, ConnectivityInv
<1>4. CASE Publishing
  BY <1>4, Take_PublisherInv, ReadState_PublisherInv, PublishState_PublisherInv,
     EndTurn_PublisherInv
     DEF Publishing, PublisherTask, ConnectivityInv
<1>5. CASE Reporting
  BY <1>5, Report_PublisherInv DEF Reporting, ConnectivityInv
<1>6. CASE \E f \in Fans : Ramp(f)
  BY <1>6, Ramp_PublisherInv DEF ConnectivityInv
<1>7. CASE Notify
  BY <1>7, Notify_PublisherInv DEF ConnectivityInv
<1>8. \/ UNCHANGED publisherVars \/ StartTasks \/ RequestEverything
      \/ Publishing \/ Reporting \/ (\E f \in Fans : Ramp(f)) \/ Notify
  BY DEF Next, Main, StartWifi, WaitForIp, WaitForTime, Poll, StartInLoop, Radio, Online, vars
<1> QED
  BY <1>1, <1>2, <1>3, <1>4, <1>5, <1>6, <1>7, <1>8

LEMMA TypeOK_Step ==
  ASSUME ConnectivityInv, [Next]_vars, WifiInv', PublisherInv'
  PROVE  TypeOK'
<1> DEFINE MainTypes ==
      /\ main \in {"publisher", "wifi", "address", "time", "loop", "offline"}
      /\ client \in BOOLEAN
      /\ session \in {"off", "connected", "ready"} /\ losses \in 0..MaxLosses
<1>1. MainTypes
  BY DEF ConnectivityInv, TypeOK
<1>2. MainTypes'
  <2>1. CASE Main
    <3>1. losses' = losses \/ (losses < MaxLosses /\ losses' = losses + 1)
      BY <2>1 DEF Main, StartTasks, StartWifi, WaitForIp, WaitForTime, Poll, StartInLoop,
                  RequestEverything, sessionVars
    <3>2. losses' \in 0..MaxLosses
      BY <1>1, <3>1, ConnectivityAssumption
    <3> QED
      BY <1>1, <2>1, <3>2
         DEF Main, StartTasks, StartWifi, WaitForIp, WaitForTime, StartClient, Poll, StartInLoop,
             RequestEverything, sessionVars
  <2>2. CASE Online
    <3>1. losses' = losses \/ (losses < MaxLosses /\ losses' = losses + 1)
      BY <2>2 DEF Online, Session, ConnectSession, Subscribed, LoseSession
    <3>2. losses' \in 0..MaxLosses
      BY <1>1, <3>1, ConnectivityAssumption
    <3> QED
      BY <1>1, <2>2, <3>2 DEF Online, Session, ConnectSession, Subscribed, LoseSession
  <2>3. CASE UNCHANGED <<main, sessionVars>>
    BY <1>1, <2>3 DEF sessionVars
  <2> QED
    BY <2>1, <2>2, <2>3 DEF Next, Publishing, Reporting, Radio, Others, vars
<1> QED
  BY <1>2 DEF TypeOK, WifiInv, PublisherInv

LEMMA ConnectivityInv_Step == ConnectivityInv /\ [Next]_vars => ConnectivityInv'
BY WifiOf_Step, PublisherOf_Step, TypeOK_Step DEF ConnectivityInv

LEMMA ConnectivitySafety == Spec => []ConnectivityInv
BY ConnectivityInv_Init, ConnectivityInv_Step, PTL DEF Spec

-----------------------------------------------------------------------------
\* Every variable of the radio, the session and the publisher keeps its type.
THEOREM TypeCorrectness == Spec => []TypeOK
<1>1. ConnectivityInv => TypeOK
  BY DEF ConnectivityInv
<1> QED
  BY <1>1, ConnectivitySafety, PTL

\* schedule_reconnect, the event handler and the timer between them never leave a
\* station down with nothing ahead that would connect it, for any number of drops.
THEOREM RetrySafety == Spec => []RetryIsLeft
<1>1. ASSUME ConnectivityInv PROVE RetryIsLeft
  <2>1. DOMAIN events = 1..Len(events)
    <3>1. events \in Seq(Event)
      BY <1>1 DEF ConnectivityInv, WifiInv, WifiTypeOK, Event
    <3> QED
      BY <3>1
  <2> QED
    BY <1>1, <2>1 DEF ConnectivityInv, WifiInv, Retrying, RetryIsLeft, Says, Trying
<1> QED
  BY <1>1, ConnectivitySafety, PTL

\* s_has_ip is right whenever the event queue is empty, for any number of drops.
THEOREM AddressSafety == Spec => []AddressIsKnown
<1>1. ASSUME ConnectivityInv, events = <<>> PROVE hasIp <=> link = "addressed"
  <2>1. 1..Len(events) = {}
    BY <1>1
  <2> QED
    BY <1>1, <2>1 DEF ConnectivityInv, WifiInv, AddressGained, AddressLost, Says
<1>2. ConnectivityInv => AddressIsKnown
  BY <1>1 DEF AddressIsKnown
<1> QED
  BY <1>2, ConnectivitySafety, PTL

\* state_publisher_request_* never lets a change that subscribers were not told of
\* fall out of the notification, for any number of fans and changes.
THEOREM ChangeSafety == Spec => []ChangeIsPending
<1>1. ConnectivityInv => ChangeIsPending
  BY DEF ConnectivityInv, PublisherInv
<1> QED
  BY <1>1, ConnectivitySafety, PTL

=============================================================================
