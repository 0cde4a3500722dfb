-------------------------- MODULE MqttManagerProofs --------------------------
(***************************************************************************)
(* Theorems about MqttManager: its types, the fence that a command holds,  *)
(* the refinement of CommandSession, what a lost message, a subscription   *)
(* and a pending record leave behind.                                      *)
(***************************************************************************)
EXTENDS MqttManager, SequenceTheorems, TLAPS

\* Releasing a record leaves every record a number.
LEMMA ReleasedType ==
  ASSUME NEW m, slots \in [Slots -> Nat]
  PROVE  Released(m) \in [Slots -> Nat]
BY DEF Released

\* Every action of the manager and of the broker keeps the types.
LEMMA TypeStep == TypeOK /\ Next => TypeOK'
<1> SUFFICES ASSUME TypeOK, Next PROVE TypeOK'
  OBVIOUS
<1>1. CASE Connect
  <2>1. FlagTypes'
    BY <1>1 DEF TypeOK, FlagTypes, Connect, sessionVars, subVars, clientVars, queueVars
  <2>2. PlaceTypes'
    BY <1>1 DEF TypeOK, PlaceTypes, Connect, subVars, dispVars, Positions
  <2>3. CountTypes'
    BY <1>1 DEF TypeOK, CountTypes, Connect, sessionVars
  <2>4. MessageTypes'
    BY <1>1 DEF TypeOK, MessageTypes, Connect, queueVars, dispVars
  <2> QED
    BY <2>1, <2>2, <2>3, <2>4 DEF TypeOK
<1>2. CASE Disconnect
  <2>1. FlagTypes'
    BY <1>2 DEF TypeOK, FlagTypes, Disconnect, sessionVars, subVars, clientVars, queueVars
  <2>2. PlaceTypes'
    BY <1>2 DEF TypeOK, PlaceTypes, Disconnect, subVars, dispVars, Positions
  <2>3. CountTypes'
    BY <1>2 DEF TypeOK, CountTypes, Disconnect, sessionVars
  <2>4. MessageTypes'
    BY <1>2 DEF TypeOK, MessageTypes, Disconnect, queueVars, dispVars
  <2> QED
    BY <2>1, <2>2, <2>3, <2>4 DEF TypeOK
<1>3. CASE TaskExit
  <2>1. FlagTypes'
    BY <1>3 DEF TypeOK, FlagTypes, TaskExit, sessionVars, subVars, clientVars, queueVars
  <2>2. PlaceTypes'
    BY <1>3 DEF TypeOK, PlaceTypes, TaskExit, subVars, evtVars, dispVars, Positions
  <2>3. CountTypes'
    BY <1>3 DEF TypeOK, CountTypes, TaskExit, sessionVars
  <2>4. MessageTypes'
    BY <1>3 DEF TypeOK, MessageTypes, TaskExit, queueVars, evtVars, dispVars
  <2> QED
    BY <2>1, <2>2, <2>3, <2>4 DEF TypeOK
<1>4. CASE Data
  <2>1. FlagTypes'
    BY <1>4 DEF TypeOK, FlagTypes, Data, sessionVars, subVars, clientVars, queueVars,
       linkVars
  <2>2. PlaceTypes'
    BY <1>4 DEF TypeOK, PlaceTypes, Data, subVars, evtVars, dispVars, linkVars, Positions
  <2>3. CountTypes'
    BY <1>4 DEF TypeOK, CountTypes, Data, sessionVars, boundVars
  <2>4. MessageTypes'
    <3>1. [id |-> sent + 1, gen |-> gen, slot |-> NoSlot] \in Message
      BY DEF TypeOK, CountTypes, Message
    <3> QED
      BY <1>4, <3>1 DEF TypeOK, MessageTypes, Data, queueVars, evtVars, dispVars
  <2> QED
    BY <2>1, <2>2, <2>3, <2>4 DEF TypeOK
<1>5. ASSUME NEW t \in Topics, NEW accepted \in BOOLEAN, Suback(t, accepted)
      PROVE  TypeOK'
  <2>1. FlagTypes'
    BY <1>5 DEF TypeOK, FlagTypes, Suback, clientVars, queueVars
  <2>2. PlaceTypes'
    BY <1>5 DEF TypeOK, PlaceTypes, Suback, evtVars, dispVars, Positions
  <2>3. CountTypes'
    BY <1>5 DEF TypeOK, CountTypes, Suback
  <2>4. MessageTypes'
    BY <1>5 DEF TypeOK, MessageTypes, Suback, queueVars, evtVars, dispVars
  <2> QED
    BY <2>1, <2>2, <2>3, <2>4 DEF TypeOK
<1>6. CASE EnterConnected
  <2>1. FlagTypes'
    BY <1>6 DEF TypeOK, FlagTypes, EnterConnected, sessionVars, subVars, clientVars,
       queueVars, linkVars
  <2>2. PlaceTypes'
    BY <1>6 DEF TypeOK, PlaceTypes, EnterConnected, subVars, dispVars, linkVars, Positions
  <2>3. CountTypes'
    BY <1>6 DEF TypeOK, CountTypes, EnterConnected, sessionVars, boundVars
  <2>4. MessageTypes'
    BY <1>6 DEF TypeOK, MessageTypes, EnterConnected, queueVars, dispVars
  <2> QED
    BY <2>1, <2>2, <2>3, <2>4 DEF TypeOK
<1>7. CASE SubscribeAll
  <2>1. FlagTypes'
    BY <1>7 DEF TypeOK, FlagTypes, SubscribeAll, sessionVars, clientVars, queueVars
  <2>2. PlaceTypes'
    BY <1>7 DEF TypeOK, PlaceTypes, SubscribeAll, dispVars, Positions
  <2>3. CountTypes'
    BY <1>7 DEF TypeOK, CountTypes, SubscribeAll, sessionVars
  <2>4. MessageTypes'
    BY <1>7 DEF TypeOK, MessageTypes, SubscribeAll, queueVars, dispVars
  <2> QED
    BY <2>1, <2>2, <2>3, <2>4 DEF TypeOK
<1>8. CASE EnterDisconnected
  <2>1. FlagTypes'
    BY <1>8 DEF TypeOK, FlagTypes, EnterDisconnected, sessionVars, clientVars,
       queueVars, linkVars
  <2>2. PlaceTypes'
    BY <1>8 DEF TypeOK, PlaceTypes, EnterDisconnected, dispVars, linkVars, Positions
  <2>3. CountTypes'
    BY <1>8 DEF TypeOK, CountTypes, EnterDisconnected, sessionVars, boundVars
  <2>4. MessageTypes'
    BY <1>8 DEF TypeOK, MessageTypes, EnterDisconnected, queueVars, dispVars
  <2> QED
    BY <2>1, <2>2, <2>3, <2>4 DEF TypeOK
<1>9. CASE ReserveSlot
  <2>1. FlagTypes'
    BY <1>9 DEF TypeOK, FlagTypes, ReserveSlot, sessionVars, subVars, clientVars, linkVars
  <2>2. PlaceTypes'
    BY <1>9 DEF TypeOK, PlaceTypes, ReserveSlot, subVars, dispVars, linkVars, Positions
  <2>3. CountTypes'
    BY <1>9 DEF TypeOK, CountTypes, ReserveSlot, sessionVars, boundVars
  <2>4. MessageTypes'
    <3>1. queue' = queue /\ msg' = msg
      BY <1>9 DEF ReserveSlot, dispVars
    <3>2. CASE UNCHANGED <<evtMsg, slots>>
      BY <3>1, <3>2 DEF TypeOK, MessageTypes
    <3>3. CASE \E s \in Slots : evtMsg' = [evtMsg EXCEPT !.slot = s]
                               /\ slots' = [slots EXCEPT ![s] = evtMsg.id]
      <4>1. PICK s \in Slots : evtMsg' = [evtMsg EXCEPT !.slot = s]
                               /\ slots' = [slots EXCEPT ![s] = evtMsg.id]
        BY <3>3
      <4>2. evtMsg' \in Message
        BY <4>1 DEF TypeOK, MessageTypes, Message
      <4>3. slots' \in [Slots -> Nat]
        BY <4>1 DEF TypeOK, MessageTypes, Message
      <4> QED
        BY <3>1, <4>2, <4>3 DEF TypeOK, MessageTypes
    <3> QED
      BY <1>9, <3>2, <3>3 DEF ReserveSlot
  <2> QED
    BY <2>1, <2>2, <2>3, <2>4 DEF TypeOK
<1>10. CASE SendToQueue
  <2>1. FlagTypes'
    BY <1>10 DEF TypeOK, FlagTypes, SendToQueue, sessionVars, subVars, clientVars,
       linkVars, InvalidateSession
  <2>2. PlaceTypes'
    BY <1>10 DEF TypeOK, PlaceTypes, SendToQueue, subVars, dispVars, linkVars, Positions
  <2>3. CountTypes'
    <3>1. evtMsg.gen \in Nat
      BY DEF TypeOK, MessageTypes, Message
    <3> QED
      BY <1>10, <3>1 DEF TypeOK, CountTypes, SendToQueue, sessionVars, boundVars,
         InvalidateSession
  <2>4. MessageTypes'
    <3>1. UNCHANGED <<evtMsg, msg>>
      BY <1>10 DEF SendToQueue, dispVars
    <3>2. CASE Fits(evtMsg)
      <4>1. queue' = Append(queue, evtMsg) /\ slots' = slots
        BY <1>10, <3>2 DEF SendToQueue
      <4>2. Append(queue, evtMsg) \in Seq(Message) /\ Len(Append(queue, evtMsg)) = Len(queue) + 1
        BY AppendProperties DEF TypeOK, MessageTypes
      <4>3. Len(queue) \in Nat /\ Len(queue) < Depth /\ Depth \in Nat
        BY <3>2, LenProperties, MqttAssumption DEF Fits, TypeOK, MessageTypes
      <4> QED
        BY <3>1, <4>1, <4>2, <4>3 DEF TypeOK, MessageTypes
    <3>3. CASE ~Fits(evtMsg)
      <4>1. queue' = queue /\ slots' = Released(evtMsg)
        BY <1>10, <3>3 DEF SendToQueue
      <4> QED
        BY <3>1, <4>1, ReleasedType DEF TypeOK, MessageTypes
    <3> QED
      BY <3>2, <3>3
  <2> QED
    BY <2>1, <2>2, <2>3, <2>4 DEF TypeOK
<1>11. CASE Receive
  <2>1. FlagTypes'
    BY <1>11 DEF TypeOK, FlagTypes, Receive, sessionVars, subVars, clientVars, linkVars
  <2>2. PlaceTypes'
    BY <1>11 DEF TypeOK, PlaceTypes, Receive, subVars, evtVars, linkVars, Positions
  <2>3. CountTypes'
    BY <1>11 DEF TypeOK, CountTypes, Receive, sessionVars, boundVars
  <2>4. MessageTypes'
    <3>1. UNCHANGED <<slots, evtMsg>> /\ msg' = Head(queue) /\ queue' = Tail(queue)
      BY <1>11 DEF Receive, evtVars
    <3>2. Head(queue) \in Message /\ Tail(queue) \in Seq(Message) /\ Len(Tail(queue)) = Len(queue) - 1
      BY <1>11, HeadTailProperties DEF Receive, TypeOK, MessageTypes
    <3>3. Len(queue) \in Nat /\ Depth \in Nat
      BY LenProperties, MqttAssumption DEF TypeOK, MessageTypes
    <3> QED
      BY <3>1, <3>2, <3>3 DEF TypeOK, MessageTypes
  <2> QED
    BY <2>1, <2>2, <2>3, <2>4 DEF TypeOK
<1>12. CASE CheckSession
  <2>1. FlagTypes'
    BY <1>12 DEF TypeOK, FlagTypes, CheckSession, sessionVars, subVars, clientVars, linkVars
  <2>2. PlaceTypes'
    BY <1>12 DEF TypeOK, PlaceTypes, CheckSession, subVars, evtVars, linkVars, Positions
  <2>3. CountTypes'
    BY <1>12 DEF TypeOK, CountTypes, CheckSession, sessionVars, boundVars
  <2>4. MessageTypes'
    BY <1>12, ReleasedType DEF TypeOK, MessageTypes, CheckSession, evtVars
  <2> QED
    BY <2>1, <2>2, <2>3, <2>4 DEF TypeOK
<1>13. CASE Route
  <2>1. FlagTypes'
    BY <1>13 DEF TypeOK, FlagTypes, Route, sessionVars, subVars, clientVars,
       queueVars, linkVars
  <2>2. PlaceTypes'
    BY <1>13 DEF TypeOK, PlaceTypes, Route, subVars, evtVars, linkVars, Positions
  <2>3. CountTypes'
    BY <1>13 DEF TypeOK, CountTypes, Route, sessionVars, boundVars
  <2>4. MessageTypes'
    BY <1>13 DEF TypeOK, MessageTypes, Route, queueVars, evtVars
  <2> QED
    BY <2>1, <2>2, <2>3, <2>4 DEF TypeOK
<1>14. CASE TakeFence
  <2>1. FlagTypes'
    BY <1>14 DEF TypeOK, FlagTypes, TakeFence, sessionVars, subVars, clientVars,
       queueVars, linkVars
  <2>2. PlaceTypes'
    BY <1>14 DEF TypeOK, PlaceTypes, TakeFence, subVars, evtVars, linkVars, Positions
  <2>3. CountTypes'
    BY <1>14 DEF TypeOK, CountTypes, TakeFence, sessionVars, boundVars
  <2>4. MessageTypes'
    BY <1>14 DEF TypeOK, MessageTypes, TakeFence, queueVars, evtVars
  <2> QED
    BY <2>1, <2>2, <2>3, <2>4 DEF TypeOK
<1>15. CASE Revalidate
  <2>1. FlagTypes'
    BY <1>15 DEF TypeOK, FlagTypes, Revalidate, sessionVars, subVars, clientVars,
       queueVars, linkVars
  <2>2. PlaceTypes'
    BY <1>15 DEF TypeOK, PlaceTypes, Revalidate, subVars, evtVars, linkVars, Positions
  <2>3. CountTypes'
    BY <1>15 DEF TypeOK, CountTypes, Revalidate, sessionVars, boundVars
  <2>4. MessageTypes'
    BY <1>15 DEF TypeOK, MessageTypes, Revalidate, queueVars, evtVars
  <2> QED
    BY <2>1, <2>2, <2>3, <2>4 DEF TypeOK
<1>16. CASE ReleaseFence
  <2>1. FlagTypes'
    BY <1>16 DEF TypeOK, FlagTypes, ReleaseFence, sessionVars, subVars, clientVars,
       queueVars, linkVars
  <2>2. PlaceTypes'
    BY <1>16 DEF TypeOK, PlaceTypes, ReleaseFence, subVars, evtVars, linkVars, Positions
  <2>3. CountTypes'
    BY <1>16 DEF TypeOK, CountTypes, ReleaseFence, sessionVars, boundVars
  <2>4. MessageTypes'
    BY <1>16 DEF TypeOK, MessageTypes, ReleaseFence, queueVars, evtVars
  <2> QED
    BY <2>1, <2>2, <2>3, <2>4 DEF TypeOK
<1>17. CASE TakeLifecycle
  <2>1. FlagTypes'
    BY <1>17 DEF TypeOK, FlagTypes, TakeLifecycle, sessionVars, subVars, clientVars,
       queueVars, linkVars
  <2>2. PlaceTypes'
    BY <1>17 DEF TypeOK, PlaceTypes, TakeLifecycle, subVars, evtVars, linkVars, Positions
  <2>3. CountTypes'
    BY <1>17 DEF TypeOK, CountTypes, TakeLifecycle, sessionVars, boundVars
  <2>4. MessageTypes'
    BY <1>17 DEF TypeOK, MessageTypes, TakeLifecycle, queueVars, evtVars
  <2> QED
    BY <2>1, <2>2, <2>3, <2>4 DEF TypeOK
<1>18. CASE Publish
  <2>1. FlagTypes'
    BY <1>18 DEF TypeOK, FlagTypes, Publish, sessionVars, subVars, clientVars,
       queueVars, linkVars
  <2>2. PlaceTypes'
    BY <1>18 DEF TypeOK, PlaceTypes, Publish, subVars, evtVars, linkVars, Positions
  <2>3. CountTypes'
    BY <1>18 DEF TypeOK, CountTypes, Publish, sessionVars, boundVars
  <2>4. MessageTypes'
    BY <1>18 DEF TypeOK, MessageTypes, Publish, queueVars, evtVars
  <2> QED
    BY <2>1, <2>2, <2>3, <2>4 DEF TypeOK
<1>19. CASE Finish
  <2>1. FlagTypes'
    BY <1>19 DEF TypeOK, FlagTypes, Finish, sessionVars, subVars, clientVars, linkVars
  <2>2. PlaceTypes'
    BY <1>19 DEF TypeOK, PlaceTypes, Finish, subVars, evtVars, linkVars, Positions
  <2>3. CountTypes'
    BY <1>19 DEF TypeOK, CountTypes, Finish, sessionVars, boundVars
  <2>4. MessageTypes'
    BY <1>19 DEF TypeOK, MessageTypes, Finish, evtVars
  <2> QED
    BY <2>1, <2>2, <2>3, <2>4 DEF TypeOK
<1>20. ASSUME NEW timedOut \in BOOLEAN, Poll(timedOut)
      PROVE  TypeOK'
  <2>1. FlagTypes'
    BY <1>20 DEF TypeOK, FlagTypes, Poll, sessionVars, subVars, clientVars, queueVars,
       linkVars
  <2>2. PlaceTypes'
    BY <1>20 DEF TypeOK, PlaceTypes, Poll, subVars, evtVars, dispVars, linkVars, Positions
  <2>3. CountTypes'
    BY <1>20 DEF TypeOK, CountTypes, Poll, sessionVars, boundVars
  <2>4. MessageTypes'
    BY <1>20 DEF TypeOK, MessageTypes, Poll, queueVars, evtVars, dispVars
  <2> QED
    BY <2>1, <2>2, <2>3, <2>4 DEF TypeOK
<1>21. CASE PublishOffline
  <2>1. FlagTypes'
    BY <1>21 DEF TypeOK, FlagTypes, PublishOffline, sessionVars, subVars, clientVars,
       queueVars, linkVars
  <2>2. PlaceTypes'
    BY <1>21 DEF TypeOK, PlaceTypes, PublishOffline, subVars, evtVars, dispVars,
       linkVars, Positions
  <2>3. CountTypes'
    BY <1>21 DEF TypeOK, CountTypes, PublishOffline, sessionVars, boundVars
  <2>4. MessageTypes'
    BY <1>21 DEF TypeOK, MessageTypes, PublishOffline, queueVars, evtVars, dispVars
  <2> QED
    BY <2>1, <2>2, <2>3, <2>4 DEF TypeOK
<1>22. CASE DropConnection
  <2>1. FlagTypes'
    BY <1>22 DEF TypeOK, FlagTypes, DropConnection, sessionVars, subVars, clientVars,
       queueVars
  <2>2. PlaceTypes'
    BY <1>22 DEF TypeOK, PlaceTypes, DropConnection, subVars, evtVars, dispVars, Positions
  <2>3. CountTypes'
    BY <1>22 DEF TypeOK, CountTypes, DropConnection, sessionVars
  <2>4. MessageTypes'
    BY <1>22 DEF TypeOK, MessageTypes, DropConnection, queueVars, evtVars, dispVars
  <2> QED
    BY <2>1, <2>2, <2>3, <2>4 DEF TypeOK
<1>23. ASSUME NEW graceOver \in BOOLEAN, Inspect(graceOver)
      PROVE  TypeOK'
  <2>1. FlagTypes'
    BY <1>23 DEF TypeOK, FlagTypes, Inspect, sessionVars, subVars, queueVars, linkVars
  <2>2. PlaceTypes'
    BY <1>23 DEF TypeOK, PlaceTypes, Inspect, subVars, evtVars, dispVars, linkVars,
       Positions
  <2>3. CountTypes'
    BY <1>23 DEF TypeOK, CountTypes, Inspect, sessionVars, boundVars
  <2>4. MessageTypes'
    BY <1>23 DEF TypeOK, MessageTypes, Inspect, queueVars, evtVars, dispVars
  <2> QED
    BY <2>1, <2>2, <2>3, <2>4 DEF TypeOK
<1>24. CASE SkipStart
  <2>1. FlagTypes'
    BY <1>24 DEF TypeOK, FlagTypes, SkipStart, sessionVars, subVars, clientVars,
       queueVars, linkVars
  <2>2. PlaceTypes'
    BY <1>24 DEF TypeOK, PlaceTypes, SkipStart, subVars, evtVars, dispVars, linkVars,
       Positions
  <2>3. CountTypes'
    BY <1>24 DEF TypeOK, CountTypes, SkipStart, sessionVars, boundVars
  <2>4. MessageTypes'
    BY <1>24 DEF TypeOK, MessageTypes, SkipStart, queueVars, evtVars, dispVars
  <2> QED
    BY <2>1, <2>2, <2>3, <2>4 DEF TypeOK
<1>25. CASE Replace
  <2>1. FlagTypes'
    BY <1>25 DEF TypeOK, FlagTypes, Replace, sessionVars, clientVars, queueVars,
       linkVars, EndSession
  <2>2. PlaceTypes'
    BY <1>25 DEF TypeOK, PlaceTypes, Replace, evtVars, dispVars, linkVars, Positions,
       EndSession
  <2>3. CountTypes'
    BY <1>25 DEF TypeOK, CountTypes, Replace, sessionVars, boundVars, EndSession
  <2>4. MessageTypes'
    BY <1>25 DEF TypeOK, MessageTypes, Replace, queueVars, evtVars, dispVars
  <2> QED
    BY <2>1, <2>2, <2>3, <2>4 DEF TypeOK
<1>26. CASE Destroy
  <2>1. FlagTypes'
    BY <1>26 DEF TypeOK, FlagTypes, Destroy, sessionVars, subVars, clientVars, queueVars
  <2>2. PlaceTypes'
    BY <1>26 DEF TypeOK, PlaceTypes, Destroy, subVars, evtVars, dispVars, Positions
  <2>3. CountTypes'
    BY <1>26 DEF TypeOK, CountTypes, Destroy, sessionVars, boundVars
  <2>4. MessageTypes'
    BY <1>26 DEF TypeOK, MessageTypes, Destroy, queueVars, evtVars, dispVars
  <2> QED
    BY <2>1, <2>2, <2>3, <2>4 DEF TypeOK
<1>27. CASE BeginStart
  <2>1. FlagTypes'
    BY <1>27 DEF TypeOK, FlagTypes, BeginStart, sessionVars, subVars, queueVars, linkVars
  <2>2. PlaceTypes'
    BY <1>27 DEF TypeOK, PlaceTypes, BeginStart, subVars, evtVars, dispVars, linkVars,
       Positions
  <2>3. CountTypes'
    BY <1>27 DEF TypeOK, CountTypes, BeginStart, sessionVars, boundVars
  <2>4. MessageTypes'
    BY <1>27 DEF TypeOK, MessageTypes, BeginStart, queueVars, evtVars, dispVars
  <2> QED
    BY <2>1, <2>2, <2>3, <2>4 DEF TypeOK
<1>28. CASE Create
  <2>1. FlagTypes'
    BY <1>28 DEF TypeOK, FlagTypes, Create, sessionVars, subVars, queueVars, linkVars
  <2>2. PlaceTypes'
    BY <1>28 DEF TypeOK, PlaceTypes, Create, subVars, evtVars, dispVars, linkVars, Positions
  <2>3. CountTypes'
    BY <1>28 DEF TypeOK, CountTypes, Create, sessionVars
  <2>4. MessageTypes'
    BY <1>28 DEF TypeOK, MessageTypes, Create, queueVars, evtVars, dispVars
  <2> QED
    BY <2>1, <2>2, <2>3, <2>4 DEF TypeOK
<1>29. CASE Run
  <2>1. FlagTypes'
    BY <1>29 DEF TypeOK, FlagTypes, Run, sessionVars, subVars, clientVars, queueVars
  <2>2. PlaceTypes'
    BY <1>29 DEF TypeOK, PlaceTypes, Run, subVars, evtVars, dispVars, Positions
  <2>3. CountTypes'
    BY <1>29 DEF TypeOK, CountTypes, Run, sessionVars
  <2>4. MessageTypes'
    BY <1>29 DEF TypeOK, MessageTypes, Run, queueVars, evtVars, dispVars
  <2> QED
    BY <2>1, <2>2, <2>3, <2>4 DEF TypeOK
<1>30. CASE Unwind
  <2>1. FlagTypes'
    BY <1>30 DEF TypeOK, FlagTypes, Unwind, queueVars, linkVars, EndSession
  <2>2. PlaceTypes'
    BY <1>30 DEF TypeOK, PlaceTypes, Unwind, evtVars, dispVars, linkVars, Positions,
       EndSession
  <2>3. CountTypes'
    BY <1>30 DEF TypeOK, CountTypes, Unwind, boundVars, EndSession
  <2>4. MessageTypes'
    BY <1>30 DEF TypeOK, MessageTypes, Unwind, queueVars, evtVars, dispVars
  <2> QED
    BY <2>1, <2>2, <2>3, <2>4 DEF TypeOK
<1>31. CASE EndStart
  <2>1. FlagTypes'
    BY <1>31 DEF TypeOK, FlagTypes, EndStart, sessionVars, subVars, queueVars, linkVars
  <2>2. PlaceTypes'
    BY <1>31 DEF TypeOK, PlaceTypes, EndStart, subVars, evtVars, dispVars, linkVars,
       Positions
  <2>3. CountTypes'
    BY <1>31 DEF TypeOK, CountTypes, EndStart, sessionVars, boundVars
  <2>4. MessageTypes'
    BY <1>31 DEF TypeOK, MessageTypes, EndStart, queueVars, evtVars, dispVars
  <2> QED
    BY <2>1, <2>2, <2>3, <2>4 DEF TypeOK
<1> QED
  BY <1>1, <1>2, <1>3, <1>4, <1>5, <1>6, <1>7, <1>8, <1>9, <1>10, <1>11, <1>12, <1>13,
     <1>14, <1>15, <1>16, <1>17, <1>18, <1>19, <1>20, <1>21, <1>22, <1>23, <1>24, <1>25,
     <1>26, <1>27, <1>28, <1>29, <1>30, <1>31 DEF Next, Broker, EventTask, Dispatch, App

\* So does a step of anything else.
LEMMA TypeFrame == TypeOK /\ UNCHANGED vars => TypeOK'
<1> SUFFICES ASSUME TypeOK, UNCHANGED vars PROVE TypeOK'
  OBVIOUS
<1>1. FlagTypes'
  BY DEF TypeOK, FlagTypes, vars, sessionVars, subVars, clientVars, queueVars, linkVars
<1>2. PlaceTypes'
  BY DEF TypeOK, PlaceTypes, Positions, vars, subVars, evtVars, dispVars, linkVars
<1>3. CountTypes'
  BY DEF TypeOK, CountTypes, vars, sessionVars, boundVars
<1>4. MessageTypes'
  BY DEF TypeOK, MessageTypes, vars, queueVars, evtVars, dispVars
<1> QED
  BY <1>1, <1>2, <1>3, <1>4 DEF TypeOK

\* Every variable of the manager keeps its type; the queue never holds more
\* than the commands it was created for.
THEOREM TypeCorrectness == Spec => []TypeOK
<1>1. Init => TypeOK
  <2> SUFFICES ASSUME Init PROVE TypeOK
    OBVIOUS
  <2>1. FlagTypes
    BY DEF Init, FlagTypes
  <2>2. PlaceTypes
    BY DEF Init, PlaceTypes, Positions
  <2>3. CountTypes
    BY DEF Init, CountTypes
  <2>4. MessageTypes
    <3>1. NoMessage \in Message
      BY DEF NoMessage, Message
    <3>2. << >> \in Seq(Message) /\ Len(<< >>) = 0
      OBVIOUS
    <3> QED
      BY <3>1, <3>2, MqttAssumption DEF Init, MessageTypes
  <2> QED
    BY <2>1, <2>2, <2>3, <2>4 DEF TypeOK
<1>2. TypeOK /\ [Next]_vars => TypeOK'
  BY TypeStep, TypeFrame
<1> QED
  BY <1>1, <1>2, PTL DEF Spec

-----------------------------------------------------------------------------
(* The fence.  Whoever holds s_command_commit_mutex is at the place where  *)
(* it does, and a command between begin and end belongs to the session in  *)
(* force: whatever ends a session must own the mutex first.                *)

Owners ==
  /\ (disp \in {"revalidate", "commit"}) <=> (commit = "dispatch")
  /\ (evt \in {"subscribe", "send"}) <=> (commit = "event")

\* Only the dispatcher commits, and only the owner of the mutex ends a session.
LEMMA FenceStep == Owners /\ CommandFence /\ Next => Owners' /\ CommandFence'
<1> SUFFICES ASSUME Owners, CommandFence, Next PROVE Owners' /\ CommandFence'
  OBVIOUS
<1> USE MqttAssumption
<1>1. CASE Connect
  <2>1. Owners'
    BY <1>1 DEF Owners, Connect, dispVars
  <2>2. CommandFence'
    BY <1>1 DEF Owners, CommandFence, Current, Connect, sessionVars, dispVars
  <2> QED
    BY <2>1, <2>2
<1>2. CASE Disconnect
  <2>1. Owners'
    BY <1>2 DEF Owners, Disconnect, dispVars
  <2>2. CommandFence'
    BY <1>2 DEF Owners, CommandFence, Current, Disconnect, sessionVars, dispVars
  <2> QED
    BY <2>1, <2>2
<1>3. CASE TaskExit
  <2>1. Owners'
    BY <1>3 DEF Owners, TaskExit, evtVars, dispVars
  <2>2. CommandFence'
    BY <1>3 DEF Owners, CommandFence, Current, TaskExit, sessionVars, dispVars
  <2> QED
    BY <2>1, <2>2
<1>4. CASE Data
  <2>1. Owners'
    BY <1>4 DEF Owners, Data, evtVars, dispVars
  <2>2. CommandFence'
    BY <1>4 DEF Owners, CommandFence, Current, Data, sessionVars, dispVars
  <2> QED
    BY <2>1, <2>2
<1>5. ASSUME NEW t \in Topics, NEW accepted \in BOOLEAN, Suback(t, accepted)
      PROVE  Owners' /\ CommandFence'
  <2>1. Owners'
    BY <1>5 DEF Owners, Suback, evtVars, dispVars
  <2>2. CommandFence'
    BY <1>5 DEF Owners, CommandFence, Current, Suback, dispVars
  <2> QED
    BY <2>1, <2>2
<1>6. CASE EnterConnected
  <2>1. Owners'
    BY <1>6 DEF Owners, EnterConnected, dispVars
  <2>2. CommandFence'
    BY <1>6 DEF Owners, CommandFence, Current, EnterConnected, sessionVars, dispVars
  <2> QED
    BY <2>1, <2>2
<1>7. CASE SubscribeAll
  <2>1. Owners'
    BY <1>7 DEF Owners, SubscribeAll, dispVars
  <2>2. CommandFence'
    BY <1>7 DEF Owners, CommandFence, Current, SubscribeAll, sessionVars, dispVars
  <2> QED
    BY <2>1, <2>2
<1>8. CASE EnterDisconnected
  <2>1. Owners'
    BY <1>8 DEF Owners, EnterDisconnected, dispVars
  <2>2. CommandFence'
    BY <1>8 DEF Owners, CommandFence, Current, EnterDisconnected, sessionVars, dispVars
  <2> QED
    BY <2>1, <2>2
<1>9. CASE ReserveSlot
  <2>1. Owners'
    BY <1>9 DEF Owners, ReserveSlot, dispVars
  <2>2. CommandFence'
    BY <1>9 DEF Owners, CommandFence, Current, ReserveSlot, sessionVars, dispVars
  <2> QED
    BY <2>1, <2>2
<1>10. CASE SendToQueue
  <2>1. Owners'
    BY <1>10 DEF Owners, SendToQueue, dispVars
  <2>2. CommandFence'
    BY <1>10 DEF Owners, CommandFence, Current, SendToQueue, sessionVars, dispVars,
       InvalidateSession
  <2> QED
    BY <2>1, <2>2
<1>11. CASE Receive
  <2>1. Owners'
    BY <1>11 DEF Owners, Receive, evtVars
  <2>2. CommandFence'
    BY <1>11 DEF Owners, CommandFence, Current, Receive, sessionVars
  <2> QED
    BY <2>1, <2>2
<1>12. CASE CheckSession
  <2>1. Owners'
    BY <1>12 DEF Owners, CheckSession, evtVars
  <2>2. CommandFence'
    BY <1>12 DEF Owners, CommandFence, Current, CheckSession, sessionVars
  <2> QED
    BY <2>1, <2>2
<1>13. CASE Route
  <2>1. Owners'
    BY <1>13 DEF Owners, Route, evtVars
  <2>2. CommandFence'
    BY <1>13 DEF Owners, CommandFence, Current, Route, sessionVars
  <2> QED
    BY <2>1, <2>2
<1>14. CASE TakeFence
  <2>1. Owners'
    BY <1>14 DEF Owners, TakeFence, evtVars
  <2>2. CommandFence'
    BY <1>14 DEF Owners, CommandFence, Current, TakeFence, sessionVars
  <2> QED
    BY <2>1, <2>2
<1>15. CASE Revalidate
  <2>1. Owners'
    BY <1>15 DEF Owners, Revalidate, evtVars
  <2>2. CommandFence'
    BY <1>15 DEF Owners, CommandFence, Current, Revalidate, sessionVars, MayCommit
  <2> QED
    BY <2>1, <2>2
<1>16. CASE ReleaseFence
  <2>1. Owners'
    BY <1>16 DEF Owners, ReleaseFence, evtVars
  <2>2. CommandFence'
    BY <1>16 DEF Owners, CommandFence, Current, ReleaseFence, sessionVars
  <2> QED
    BY <2>1, <2>2
<1>17. CASE TakeLifecycle
  <2>1. Owners'
    BY <1>17 DEF Owners, TakeLifecycle, evtVars
  <2>2. CommandFence'
    BY <1>17 DEF Owners, CommandFence, Current, TakeLifecycle, sessionVars
  <2> QED
    BY <2>1, <2>2
<1>18. CASE Publish
  <2>1. Owners'
    BY <1>18 DEF Owners, Publish, evtVars
  <2>2. CommandFence'
    BY <1>18 DEF Owners, CommandFence, Current, Publish, sessionVars
  <2> QED
    BY <2>1, <2>2
<1>19. CASE Finish
  <2>1. Owners'
    BY <1>19 DEF Owners, Finish, evtVars
  <2>2. CommandFence'
    BY <1>19 DEF Owners, CommandFence, Current, Finish, sessionVars
  <2> QED
    BY <2>1, <2>2
<1>20. ASSUME NEW timedOut \in BOOLEAN, Poll(timedOut)
      PROVE  Owners' /\ CommandFence'
  <2>1. Owners'
    BY <1>20 DEF Owners, Poll, evtVars, dispVars
  <2>2. CommandFence'
    BY <1>20 DEF Owners, CommandFence, Current, Poll, sessionVars, dispVars
  <2> QED
    BY <2>1, <2>2
<1>21. CASE PublishOffline
  <2>1. Owners'
    BY <1>21 DEF Owners, PublishOffline, evtVars, dispVars
  <2>2. CommandFence'
    BY <1>21 DEF Owners, CommandFence, Current, PublishOffline, sessionVars, dispVars
  <2> QED
    BY <2>1, <2>2
<1>22. CASE DropConnection
  <2>1. Owners'
    BY <1>22 DEF Owners, DropConnection, evtVars, dispVars
  <2>2. CommandFence'
    BY <1>22 DEF Owners, CommandFence, Current, DropConnection, sessionVars, dispVars
  <2> QED
    BY <2>1, <2>2
<1>23. ASSUME NEW graceOver \in BOOLEAN, Inspect(graceOver)
      PROVE  Owners' /\ CommandFence'
  <2>1. Owners'
    BY <1>23 DEF Owners, Inspect, evtVars, dispVars
  <2>2. CommandFence'
    BY <1>23 DEF Owners, CommandFence, Current, Inspect, sessionVars, dispVars
  <2> QED
    BY <2>1, <2>2
<1>24. CASE SkipStart
  <2>1. Owners'
    BY <1>24 DEF Owners, SkipStart, evtVars, dispVars
  <2>2. CommandFence'
    BY <1>24 DEF Owners, CommandFence, Current, SkipStart, sessionVars, dispVars
  <2> QED
    BY <2>1, <2>2
<1>25. CASE Replace
  <2>1. Owners'
    BY <1>25 DEF Owners, Replace, evtVars, dispVars
  <2>2. CommandFence'
    BY <1>25 DEF Owners, CommandFence, Current, Replace, sessionVars, dispVars, EndSession
  <2> QED
    BY <2>1, <2>2
<1>26. CASE Destroy
  <2>1. Owners'
    BY <1>26 DEF Owners, Destroy, evtVars, dispVars
  <2>2. CommandFence'
    BY <1>26 DEF Owners, CommandFence, Current, Destroy, sessionVars, dispVars
  <2> QED
    BY <2>1, <2>2
<1>27. CASE BeginStart
  <2>1. Owners'
    BY <1>27 DEF Owners, BeginStart, evtVars, dispVars
  <2>2. CommandFence'
    BY <1>27 DEF Owners, CommandFence, Current, BeginStart, sessionVars, dispVars
  <2> QED
    BY <2>1, <2>2
<1>28. CASE Create
  <2>1. Owners'
    BY <1>28 DEF Owners, Create, evtVars, dispVars
  <2>2. CommandFence'
    BY <1>28 DEF Owners, CommandFence, Current, Create, sessionVars, dispVars
  <2> QED
    BY <2>1, <2>2
<1>29. CASE Run
  <2>1. Owners'
    BY <1>29 DEF Owners, Run, evtVars, dispVars
  <2>2. CommandFence'
    BY <1>29 DEF Owners, CommandFence, Current, Run, sessionVars, dispVars
  <2> QED
    BY <2>1, <2>2
<1>30. CASE Unwind
  <2>1. Owners'
    BY <1>30 DEF Owners, Unwind, evtVars, dispVars
  <2>2. CommandFence'
    BY <1>30 DEF Owners, CommandFence, Current, Unwind, dispVars, EndSession
  <2> QED
    BY <2>1, <2>2
<1>31. CASE EndStart
  <2>1. Owners'
    BY <1>31 DEF Owners, EndStart, evtVars, dispVars
  <2>2. CommandFence'
    BY <1>31 DEF Owners, CommandFence, Current, EndStart, sessionVars, dispVars
  <2> QED
    BY <2>1, <2>2
<1> QED
  BY <1>1, <1>2, <1>3, <1>4, <1>5, <1>6, <1>7, <1>8, <1>9, <1>10, <1>11, <1>12, <1>13,
     <1>14, <1>15, <1>16, <1>17, <1>18, <1>19, <1>20, <1>21, <1>22, <1>23, <1>24, <1>25,
     <1>26, <1>27, <1>28, <1>29, <1>30, <1>31 DEF Next, Broker, EventTask, Dispatch, App

\* Whatever the interleaving of the event task, the dispatcher and the client's
\* replacement, a command that holds the fence belongs to the session in force
\* (mqtt_manager_command_commit_begin).
THEOREM FenceSafety == Spec => [](Owners /\ CommandFence)
<1>1. Init => Owners /\ CommandFence
  BY MqttAssumption DEF Init, Owners, CommandFence
<1>2. Owners /\ CommandFence /\ UNCHANGED vars => Owners' /\ CommandFence'
  BY DEF Owners, CommandFence, Current, vars, sessionVars, evtVars, dispVars
<1> QED
  BY <1>1, <1>2, FenceStep, PTL DEF Spec

-----------------------------------------------------------------------------
(* The refinement.  Suback may establish a session; the five steps that    *)
(* end one own the mutex, so that no command holds the fence; Revalidate   *)
(* and ReleaseFence are begin and end.                                     *)

Held == IF disp = "commit" THEN msg.gen ELSE NoSession

SessionStep == Fence!SessionNext \/ UNCHANGED <<gen, connected /\ ready, Held>>

\* Every step establishes or ends a session, begins or ends a commit, or stutters.
LEMMA FenceRefines ==
  ASSUME TypeOK, Owners, CommandFence, [Next]_vars
  PROVE  SessionStep
<1> USE DEF SessionStep
<1>1. CASE Connect
  BY <1>1 DEF Held, Connect, sessionVars, dispVars
<1>2. CASE Disconnect
  BY <1>2 DEF Held, Disconnect, sessionVars, dispVars
<1>3. CASE TaskExit
  BY <1>3 DEF Held, TaskExit, sessionVars, dispVars
<1>4. CASE Data
  BY <1>4 DEF Held, Data, sessionVars, dispVars
<1>5. CASE SubscribeAll
  BY <1>5 DEF Held, SubscribeAll, sessionVars, dispVars
<1>6. CASE ReserveSlot
  BY <1>6 DEF Held, ReserveSlot, sessionVars, dispVars
<1>7. CASE Receive
  BY <1>7 DEF Held, Receive, sessionVars
<1>8. CASE CheckSession
  BY <1>8 DEF Held, CheckSession, sessionVars
<1>9. CASE Route
  BY <1>9 DEF Held, Route, sessionVars
<1>10. CASE TakeFence
  BY <1>10 DEF Held, TakeFence, sessionVars
<1>11. CASE TakeLifecycle
  BY <1>11 DEF Held, TakeLifecycle, sessionVars
<1>12. CASE Publish
  BY <1>12 DEF Held, Publish, sessionVars
<1>13. CASE Finish
  BY <1>13 DEF Held, Finish, sessionVars
<1>14. CASE PublishOffline
  BY <1>14 DEF Held, PublishOffline, sessionVars, dispVars
<1>15. CASE DropConnection
  BY <1>15 DEF Held, DropConnection, sessionVars, dispVars
<1>16. CASE SkipStart
  BY <1>16 DEF Held, SkipStart, sessionVars, dispVars
<1>17. CASE Destroy
  BY <1>17 DEF Held, Destroy, sessionVars, dispVars
<1>18. CASE BeginStart
  BY <1>18 DEF Held, BeginStart, sessionVars, dispVars
<1>19. CASE Create
  BY <1>19 DEF Held, Create, sessionVars, dispVars
<1>20. CASE Run
  BY <1>20 DEF Held, Run, sessionVars, dispVars
<1>21. CASE EndStart
  BY <1>21 DEF Held, EndStart, sessionVars, dispVars
<1>22. ASSUME NEW timedOut \in BOOLEAN, Poll(timedOut)
      PROVE  SessionStep
  BY <1>22 DEF Held, Poll, sessionVars, dispVars
<1>23. ASSUME NEW graceOver \in BOOLEAN, Inspect(graceOver)
      PROVE  SessionStep
  BY <1>23 DEF Held, Inspect, sessionVars, dispVars
<1>24. CASE EnterConnected
  <2>1. disp # "commit" /\ disp' = disp
    BY <1>24, MqttAssumption DEF Owners, EnterConnected, dispVars
  <2>2. CASE UNCHANGED sessionVars
    BY <2>1, <2>2 DEF Held, sessionVars
  <2>3. CASE gen' = gen + 1 /\ ready' = FALSE
    BY <2>1, <2>3 DEF Held, Fence!SessionNext, Fence!Invalidate
  <2> QED
    BY <1>24, <2>2, <2>3 DEF EnterConnected, sessionVars
<1>25. CASE EnterDisconnected
  <2>1. disp # "commit" /\ disp' = disp
    BY <1>25, MqttAssumption DEF Owners, EnterDisconnected, dispVars
  <2>2. CASE UNCHANGED sessionVars
    BY <2>1, <2>2 DEF Held, sessionVars
  <2>3. CASE gen' = gen + 1 /\ ready' = FALSE
    BY <2>1, <2>3 DEF Held, Fence!SessionNext, Fence!Invalidate
  <2> QED
    BY <1>25, <2>2, <2>3 DEF EnterDisconnected, sessionVars
<1>26. CASE Replace
  <2>1. disp # "commit" /\ disp' = disp
    BY <1>26, MqttAssumption DEF Owners, Replace, dispVars
  <2>2. CASE UNCHANGED sessionVars
    BY <2>1, <2>2 DEF Held, sessionVars
  <2>3. CASE gen' = gen + 1 /\ ready' = FALSE
    BY <2>1, <2>3 DEF Held, Fence!SessionNext, Fence!Invalidate
  <2> QED
    BY <1>26, <2>2, <2>3 DEF Replace, sessionVars, EndSession
<1>27. CASE Unwind
  <2>1. disp # "commit" /\ disp' = disp
    BY <1>27, MqttAssumption DEF Owners, Unwind, dispVars
  <2>2. CASE UNCHANGED sessionVars
    BY <2>1, <2>2 DEF Held, sessionVars
  <2>3. CASE gen' = gen + 1 /\ ready' = FALSE
    BY <2>1, <2>3 DEF Held, Fence!SessionNext, Fence!Invalidate
  <2> QED
    BY <1>27, <2>2, <2>3 DEF Unwind, EndSession, sessionVars
<1>28. CASE SendToQueue
  <2>1. disp # "commit" /\ disp' = disp
    BY <1>28, MqttAssumption DEF Owners, SendToQueue, dispVars
  <2>2. CASE UNCHANGED sessionVars
    BY <2>1, <2>2 DEF Held, sessionVars
  <2>3. CASE gen' = gen + 1 /\ ready' = FALSE
    BY <2>1, <2>3 DEF Held, Fence!SessionNext, Fence!Invalidate
  <2> QED
    BY <1>28, <2>2, <2>3 DEF SendToQueue, sessionVars, InvalidateSession
<1>29. ASSUME NEW t \in Topics, NEW accepted \in BOOLEAN, Suback(t, accepted)
      PROVE  SessionStep
  <2>1. UNCHANGED <<connected, gen, disp, msg>>
    BY <1>29 DEF Suback, dispVars
  <2>2. ready => ready'
    BY <1>29 DEF Suback
  <2>3. UNCHANGED Held
    BY <2>1 DEF Held
  <2>4. CASE connected /\ ready'
    BY <2>1, <2>3, <2>4 DEF Fence!SessionNext, Fence!Establish, Held
  <2>5. CASE ~(connected /\ ready')
    BY <2>1, <2>2, <2>3, <2>5
  <2> QED
    BY <2>4, <2>5
<1>30. CASE Revalidate
  <2>1. disp = "revalidate" /\ msg' = msg /\ UNCHANGED <<connected, ready, gen>>
    BY <1>30 DEF Revalidate, sessionVars
  <2>2. CASE Current(msg)
    BY <1>30, <2>1, <2>2 DEF Revalidate, MayCommit, Current, Held, Fence!SessionNext,
       Fence!Begin
  <2>3. CASE ~Current(msg)
    BY <1>30, <2>1, <2>3 DEF Revalidate, MayCommit, Held
  <2> QED
    BY <2>2, <2>3
<1>31. CASE ReleaseFence
  <2>1. msg.gen \in Nat
    BY DEF TypeOK, MessageTypes, Message
  <2> QED
    BY <1>31, <2>1, MqttAssumption DEF ReleaseFence, sessionVars, Held,
       Fence!SessionNext, Fence!End
<1>32. CASE UNCHANGED vars
  BY <1>32 DEF vars, sessionVars, dispVars, Held
<1> QED
  BY <1>1, <1>2, <1>3, <1>4, <1>5, <1>6, <1>7, <1>8, <1>9, <1>10, <1>11, <1>12, <1>13,
     <1>14, <1>15, <1>16, <1>17, <1>18, <1>19, <1>20, <1>21, <1>22, <1>23, <1>24, <1>25,
     <1>26, <1>27, <1>28, <1>29, <1>30, <1>31, <1>32 DEF Next, Broker, EventTask,
     Dispatch, App

\* mqtt_manager_command_commit_begin and _end implement CommandSession: a
\* session is never ended while a command holds the fence.
THEOREM Refinement == Spec => ImplementsCommandSession
<1>1. Init => Fence!SessionInit
  BY DEF Init, Fence!SessionInit
<1>2. TypeOK /\ Owners /\ CommandFence /\ [Next]_vars => [Fence!SessionNext]_(Fence!sessionVars)
  BY FenceRefines DEF SessionStep, Held, Fence!sessionVars
<1> QED
  BY <1>1, <1>2, TypeCorrectness, FenceSafety, PTL
     DEF Spec, ImplementsCommandSession, Fence!SessionSpec

-----------------------------------------------------------------------------
(* A lost message.  The number of the session that lost it is left behind  *)
(* at once, and no message of a later session has it.                      *)

LossInv ==
  /\ lostIn <= gen
  /\ connected => lostIn < gen
  /\ evt \in {"enqueue", "send"} => evtMsg.gen <= gen

\* No step leaves a session connected whose number has lost a command.
LEMMA LossStep == TypeOK /\ LossInv /\ Next => LossInv'
<1> SUFFICES ASSUME TypeOK, LossInv, Next PROVE LossInv'
  OBVIOUS
<1>0. gen \in Nat /\ lostIn \in Nat /\ evtMsg.gen \in Nat
  BY DEF TypeOK, CountTypes, MessageTypes, Message
<1>1. CASE Connect
  BY <1>1, <1>0 DEF LossInv, Connect, sessionVars
<1>2. CASE Disconnect
  BY <1>2, <1>0 DEF LossInv, Disconnect, sessionVars
<1>3. CASE TaskExit
  BY <1>3, <1>0 DEF LossInv, TaskExit, sessionVars, evtVars
<1>4. CASE Data
  BY <1>4, <1>0 DEF LossInv, Data, sessionVars, evtVars
<1>5. ASSUME NEW t \in Topics, NEW accepted \in BOOLEAN, Suback(t, accepted)
      PROVE  LossInv'
  BY <1>5, <1>0 DEF LossInv, Suback, evtVars
<1>6. CASE EnterConnected
  BY <1>6, <1>0 DEF LossInv, EnterConnected, sessionVars
<1>7. CASE SubscribeAll
  BY <1>7, <1>0 DEF LossInv, SubscribeAll, sessionVars
<1>8. CASE EnterDisconnected
  BY <1>8, <1>0 DEF LossInv, EnterDisconnected, sessionVars
<1>9. CASE ReserveSlot
  <2>1. UNCHANGED <<connected, gen, lostIn>>
    BY <1>9 DEF ReserveSlot, sessionVars
  <2>2. evtMsg'.gen = evtMsg.gen
    BY <1>9 DEF ReserveSlot, TypeOK, MessageTypes, Message
  <2> QED
    BY <1>9, <2>1, <2>2 DEF ReserveSlot, LossInv
<1>10. CASE SendToQueue
  BY <1>10, <1>0 DEF LossInv, SendToQueue, sessionVars, InvalidateSession
<1>11. CASE Receive
  BY <1>11, <1>0 DEF LossInv, Receive, sessionVars, evtVars
<1>12. CASE CheckSession
  BY <1>12, <1>0 DEF LossInv, CheckSession, sessionVars, evtVars
<1>13. CASE Route
  BY <1>13, <1>0 DEF LossInv, Route, sessionVars, evtVars
<1>14. CASE TakeFence
  BY <1>14, <1>0 DEF LossInv, TakeFence, sessionVars, evtVars
<1>15. CASE Revalidate
  BY <1>15, <1>0 DEF LossInv, Revalidate, sessionVars, evtVars
<1>16. CASE ReleaseFence
  BY <1>16, <1>0 DEF LossInv, ReleaseFence, sessionVars, evtVars
<1>17. CASE TakeLifecycle
  BY <1>17, <1>0 DEF LossInv, TakeLifecycle, sessionVars, evtVars
<1>18. CASE Publish
  BY <1>18, <1>0 DEF LossInv, Publish, sessionVars, evtVars
<1>19. CASE Finish
  BY <1>19, <1>0 DEF LossInv, Finish, sessionVars, evtVars
<1>20. ASSUME NEW timedOut \in BOOLEAN, Poll(timedOut)
      PROVE  LossInv'
  BY <1>20, <1>0 DEF LossInv, Poll, sessionVars, evtVars
<1>21. CASE PublishOffline
  BY <1>21, <1>0 DEF LossInv, PublishOffline, sessionVars, evtVars
<1>22. CASE DropConnection
  BY <1>22, <1>0 DEF LossInv, DropConnection, sessionVars, evtVars
<1>23. ASSUME NEW graceOver \in BOOLEAN, Inspect(graceOver)
      PROVE  LossInv'
  BY <1>23, <1>0 DEF LossInv, Inspect, sessionVars, evtVars
<1>24. CASE SkipStart
  BY <1>24, <1>0 DEF LossInv, SkipStart, sessionVars, evtVars
<1>25. CASE Replace
  BY <1>25, <1>0 DEF LossInv, Replace, sessionVars, evtVars, EndSession
<1>26. CASE Destroy
  BY <1>26, <1>0 DEF LossInv, Destroy, sessionVars, evtVars
<1>27. CASE BeginStart
  BY <1>27, <1>0 DEF LossInv, BeginStart, sessionVars, evtVars
<1>28. CASE Create
  BY <1>28, <1>0 DEF LossInv, Create, sessionVars, evtVars
<1>29. CASE Run
  BY <1>29, <1>0 DEF LossInv, Run, sessionVars, evtVars
<1>30. CASE Unwind
  BY <1>30, <1>0 DEF LossInv, Unwind, evtVars, EndSession
<1>31. CASE EndStart
  BY <1>31, <1>0 DEF LossInv, EndStart, sessionVars, evtVars
<1> QED
  BY <1>1, <1>2, <1>3, <1>4, <1>5, <1>6, <1>7, <1>8, <1>9, <1>10, <1>11, <1>12, <1>13,
     <1>14, <1>15, <1>16, <1>17, <1>18, <1>19, <1>20, <1>21, <1>22, <1>23, <1>24, <1>25,
     <1>26, <1>27, <1>28, <1>29, <1>30, <1>31 DEF Next, Broker, EventTask, Dispatch, App

\* Once a message has been lost to a full queue, no command of that session is
\* committed any more, however many were queued before it
\* (mqtt_manager_enqueue_assembled_message).
THEOREM LossSafety == Spec => []NoCommandAfterLoss
<1>1. Init => LossInv
  BY DEF Init, LossInv
<1>2. LossInv /\ UNCHANGED vars => LossInv'
  BY DEF LossInv, vars, sessionVars, evtVars
<1>3. LossInv /\ CommandFence => NoCommandAfterLoss
  BY DEF LossInv, CommandFence, Current, NoCommandAfterLoss
<1> QED
  BY <1>1, <1>2, <1>3, LossStep, TypeCorrectness, FenceSafety, PTL DEF Spec

-----------------------------------------------------------------------------
(* The subscriptions.  A session is tied to a running client and its link, *)
(* a client that starts has no link yet, and what has not been granted is  *)
(* pending or has failed the setup.                                        *)

Lifecycle ==
  /\ ~client /\ app # "destroy" => link = "none"
  /\ app \in {"create", "run", "unwind"} => link = "none"
  /\ app \in {"destroy", "create"} => ~client
  /\ app = "run" => client
  /\ link = "none" => evt = "idle"
  /\ evt \notin {"idle", "disconnected"} => link = "up"

Tied == connected => client /\ (link = "up" \/ evt = "disconnected")

Setup ==
  /\ evt = "subscribe" => connected /\ ~ready
  /\ pending # {} => connected
  /\ ready => connected /\ pending = {} /\ ~setupFailed
  /\ connected /\ evt # "subscribe" /\ ~setupFailed =>
       \A t \in Topics \ pending : answers[t] = "granted"

SubInv == Lifecycle /\ Tied /\ Setup

\* No step of the broker, the event task or the loop of app_main breaks the ties.
LEMMA SubStep == TypeOK /\ Owners /\ SubInv /\ Next => SubInv'
<1> SUFFICES ASSUME TypeOK, Owners, Lifecycle, Tied, Setup, Next PROVE SubInv'
  BY DEF SubInv
<1> USE MqttAssumption
<1>1. CASE Connect
  <2>1. Lifecycle'
    BY <1>1 DEF Lifecycle, Connect, clientVars
  <2>2. Tied'
    BY <1>1 DEF Tied, Connect, sessionVars, clientVars, Lifecycle
  <2>3. Setup'
    BY <1>1 DEF Setup, Connect, sessionVars, subVars, Tied, Owners, Lifecycle
  <2> QED
    BY <2>1, <2>2, <2>3 DEF SubInv
<1>2. CASE Disconnect
  <2>1. Lifecycle'
    BY <1>2 DEF Lifecycle, Disconnect, clientVars
  <2>2. Tied'
    BY <1>2 DEF Tied, Disconnect, sessionVars, clientVars, Lifecycle
  <2>3. Setup'
    BY <1>2 DEF Setup, Disconnect, sessionVars, subVars
  <2> QED
    BY <2>1, <2>2, <2>3 DEF SubInv
<1>3. CASE TaskExit
  <2>1. Lifecycle'
    BY <1>3 DEF Lifecycle, TaskExit, clientVars, evtVars
  <2>2. Tied'
    BY <1>3 DEF Tied, TaskExit, sessionVars, clientVars, evtVars, Lifecycle
  <2>3. Setup'
    BY <1>3 DEF Setup, TaskExit, sessionVars, subVars, evtVars
  <2> QED
    BY <2>1, <2>2, <2>3 DEF SubInv
<1>4. CASE Data
  <2>1. Lifecycle'
    BY <1>4 DEF Lifecycle, Data, clientVars, evtVars, linkVars
  <2>2. Tied'
    BY <1>4 DEF Tied, Data, sessionVars, clientVars, evtVars, linkVars, Lifecycle
  <2>3. Setup'
    BY <1>4 DEF Setup, Data, sessionVars, subVars, evtVars, linkVars
  <2> QED
    BY <2>1, <2>2, <2>3 DEF SubInv
<1>5. ASSUME NEW t \in Topics, NEW accepted \in BOOLEAN, Suback(t, accepted)
      PROVE  SubInv'
  <2>1. Lifecycle'
    BY <1>5 DEF Lifecycle, Suback, clientVars, evtVars, CompletesSetup
  <2>2. Tied'
    BY <1>5 DEF Tied, Suback, clientVars, evtVars, CompletesSetup, Lifecycle
  <2>3. Setup'
    <3>1. UNCHANGED <<evt, connected>> /\ evt = "idle" /\ answers[t] = "asked"
      BY <1>5 DEF Suback, evtVars
    <3>2. CASE client /\ t \in pending
      <4>1. connected /\ ~ready /\ pending' = pending \ {t}
        BY <1>5, <3>2 DEF Suback, Setup
      <4>2. ready' => accepted /\ pending = {t} /\ ~setupFailed
        BY <1>5, <3>2, <4>1 DEF Suback, CompletesSetup
      <4>3. setupFailed' = (setupFailed \/ ~accepted)
        BY <1>5, <3>2 DEF Suback
      <4>4. ~setupFailed' => \A u \in Topics \ pending' : answers'[u] = "granted"
        <5> SUFFICES ASSUME ~setupFailed', NEW u \in Topics, u \notin pending'
                     PROVE  answers'[u] = "granted"
          OBVIOUS
        <5>1. accepted /\ ~setupFailed
          BY <4>3
        <5>2. answers' = [answers EXCEPT ![t] = "granted"]
          BY <1>5, <5>1 DEF Suback
        <5>3. u = t \/ answers[u] = "granted"
          BY <3>1, <4>1, <5>1 DEF Setup
        <5> QED
          BY <5>2, <5>3 DEF TypeOK, PlaceTypes
      <4> QED
        BY <3>1, <4>1, <4>2, <4>3, <4>4 DEF Setup
    <3>3. CASE ~(client /\ t \in pending)
      <4>1. UNCHANGED <<pending, ready, setupFailed>>
        BY <1>5, <3>3 DEF Suback
      <4>2. ~(connected /\ ~setupFailed)
        BY <3>1, <3>3 DEF Setup, Tied
      <4> QED
        BY <3>1, <4>1, <4>2 DEF Setup
    <3> QED
      BY <3>2, <3>3
  <2> QED
    BY <2>1, <2>2, <2>3 DEF SubInv
<1>6. CASE EnterConnected
  <2>1. Lifecycle'
    BY <1>6 DEF Lifecycle, EnterConnected, clientVars, linkVars
  <2>2. Tied'
    BY <1>6 DEF Tied, EnterConnected, sessionVars, clientVars, linkVars, Lifecycle
  <2>3. Setup'
    BY <1>6 DEF Setup, EnterConnected, sessionVars, subVars, linkVars, Tied, Owners,
       Lifecycle
  <2> QED
    BY <2>1, <2>2, <2>3 DEF SubInv
<1>7. CASE SubscribeAll
  <2>1. Lifecycle'
    BY <1>7 DEF Lifecycle, SubscribeAll, clientVars
  <2>2. Tied'
    BY <1>7 DEF Tied, SubscribeAll, sessionVars, clientVars, Lifecycle
  <2>3. Setup'
    BY <1>7 DEF Setup, SubscribeAll, sessionVars
  <2> QED
    BY <2>1, <2>2, <2>3 DEF SubInv
<1>8. CASE EnterDisconnected
  <2>1. Lifecycle'
    BY <1>8 DEF Lifecycle, EnterDisconnected, clientVars, linkVars
  <2>2. Tied'
    BY <1>8 DEF Tied, EnterDisconnected, sessionVars, clientVars, linkVars, Lifecycle
  <2>3. Setup'
    BY <1>8 DEF Setup, EnterDisconnected, sessionVars, linkVars, Tied, Owners, Lifecycle
  <2> QED
    BY <2>1, <2>2, <2>3 DEF SubInv
<1>9. CASE ReserveSlot
  <2>1. Lifecycle'
    BY <1>9 DEF Lifecycle, ReserveSlot, clientVars, linkVars
  <2>2. Tied'
    BY <1>9 DEF Tied, ReserveSlot, sessionVars, clientVars, linkVars, Lifecycle
  <2>3. Setup'
    BY <1>9 DEF Setup, ReserveSlot, sessionVars, subVars, linkVars
  <2> QED
    BY <2>1, <2>2, <2>3 DEF SubInv
<1>10. CASE SendToQueue
  <2>1. Lifecycle'
    BY <1>10 DEF Lifecycle, SendToQueue, clientVars, linkVars, InvalidateSession
  <2>2. Tied'
    BY <1>10 DEF Tied, SendToQueue, sessionVars, clientVars, linkVars, InvalidateSession,
       Lifecycle
  <2>3. Setup'
    BY <1>10 DEF Setup, SendToQueue, sessionVars, subVars, linkVars, InvalidateSession
  <2> QED
    BY <2>1, <2>2, <2>3 DEF SubInv
<1>11. CASE Receive
  <2>1. Lifecycle'
    BY <1>11 DEF Lifecycle, Receive, clientVars, evtVars, linkVars
  <2>2. Tied'
    BY <1>11 DEF Tied, Receive, sessionVars, clientVars, evtVars, linkVars, Lifecycle
  <2>3. Setup'
    BY <1>11 DEF Setup, Receive, sessionVars, subVars, evtVars, linkVars
  <2> QED
    BY <2>1, <2>2, <2>3 DEF SubInv
<1>12. CASE CheckSession
  <2>1. Lifecycle'
    BY <1>12 DEF Lifecycle, CheckSession, clientVars, evtVars, linkVars
  <2>2. Tied'
    BY <1>12 DEF Tied, CheckSession, sessionVars, clientVars, evtVars, linkVars,
       Lifecycle
  <2>3. Setup'
    BY <1>12 DEF Setup, CheckSession, sessionVars, subVars, evtVars, linkVars
  <2> QED
    BY <2>1, <2>2, <2>3 DEF SubInv
<1>13. CASE Route
  <2>1. Lifecycle'
    BY <1>13 DEF Lifecycle, Route, clientVars, evtVars, linkVars
  <2>2. Tied'
    BY <1>13 DEF Tied, Route, sessionVars, clientVars, evtVars, linkVars, Lifecycle
  <2>3. Setup'
    BY <1>13 DEF Setup, Route, sessionVars, subVars, evtVars, linkVars
  <2> QED
    BY <2>1, <2>2, <2>3 DEF SubInv
<1>14. CASE TakeFence
  <2>1. Lifecycle'
    BY <1>14 DEF Lifecycle, TakeFence, clientVars, evtVars, linkVars
  <2>2. Tied'
    BY <1>14 DEF Tied, TakeFence, sessionVars, clientVars, evtVars, linkVars, Lifecycle
  <2>3. Setup'
    BY <1>14 DEF Setup, TakeFence, sessionVars, subVars, evtVars, linkVars
  <2> QED
    BY <2>1, <2>2, <2>3 DEF SubInv
<1>15. CASE Revalidate
  <2>1. Lifecycle'
    BY <1>15 DEF Lifecycle, Revalidate, clientVars, evtVars, linkVars
  <2>2. Tied'
    BY <1>15 DEF Tied, Revalidate, sessionVars, clientVars, evtVars, linkVars, Lifecycle
  <2>3. Setup'
    BY <1>15 DEF Setup, Revalidate, sessionVars, subVars, evtVars, linkVars
  <2> QED
    BY <2>1, <2>2, <2>3 DEF SubInv
<1>16. CASE ReleaseFence
  <2>1. Lifecycle'
    BY <1>16 DEF Lifecycle, ReleaseFence, clientVars, evtVars, linkVars
  <2>2. Tied'
    BY <1>16 DEF Tied, ReleaseFence, sessionVars, clientVars, evtVars, linkVars,
       Lifecycle
  <2>3. Setup'
    BY <1>16 DEF Setup, ReleaseFence, sessionVars, subVars, evtVars, linkVars
  <2> QED
    BY <2>1, <2>2, <2>3 DEF SubInv
<1>17. CASE TakeLifecycle
  <2>1. Lifecycle'
    BY <1>17 DEF Lifecycle, TakeLifecycle, clientVars, evtVars, linkVars
  <2>2. Tied'
    BY <1>17 DEF Tied, TakeLifecycle, sessionVars, clientVars, evtVars, linkVars,
       Lifecycle
  <2>3. Setup'
    BY <1>17 DEF Setup, TakeLifecycle, sessionVars, subVars, evtVars, linkVars
  <2> QED
    BY <2>1, <2>2, <2>3 DEF SubInv
<1>18. CASE Publish
  <2>1. Lifecycle'
    BY <1>18 DEF Lifecycle, Publish, clientVars, evtVars, linkVars
  <2>2. Tied'
    BY <1>18 DEF Tied, Publish, sessionVars, clientVars, evtVars, linkVars, Lifecycle
  <2>3. Setup'
    BY <1>18 DEF Setup, Publish, sessionVars, subVars, evtVars, linkVars
  <2> QED
    BY <2>1, <2>2, <2>3 DEF SubInv
<1>19. CASE Finish
  <2>1. Lifecycle'
    BY <1>19 DEF Lifecycle, Finish, clientVars, evtVars, linkVars
  <2>2. Tied'
    BY <1>19 DEF Tied, Finish, sessionVars, clientVars, evtVars, linkVars, Lifecycle
  <2>3. Setup'
    BY <1>19 DEF Setup, Finish, sessionVars, subVars, evtVars, linkVars
  <2> QED
    BY <2>1, <2>2, <2>3 DEF SubInv
<1>20. ASSUME NEW timedOut \in BOOLEAN, Poll(timedOut)
      PROVE  SubInv'
  <2>1. Lifecycle'
    BY <1>20 DEF Lifecycle, Poll, clientVars, evtVars, linkVars
  <2>2. Tied'
    BY <1>20 DEF Tied, Poll, sessionVars, clientVars, evtVars, linkVars, Lifecycle
  <2>3. Setup'
    BY <1>20 DEF Setup, Poll, sessionVars, subVars, evtVars, linkVars
  <2> QED
    BY <2>1, <2>2, <2>3 DEF SubInv
<1>21. CASE PublishOffline
  <2>1. Lifecycle'
    BY <1>21 DEF Lifecycle, PublishOffline, clientVars, evtVars, linkVars
  <2>2. Tied'
    BY <1>21 DEF Tied, PublishOffline, sessionVars, clientVars, evtVars, linkVars,
       Lifecycle
  <2>3. Setup'
    BY <1>21 DEF Setup, PublishOffline, sessionVars, subVars, evtVars, linkVars
  <2> QED
    BY <2>1, <2>2, <2>3 DEF SubInv
<1>22. CASE DropConnection
  <2>1. Lifecycle'
    BY <1>22 DEF Lifecycle, DropConnection, clientVars, evtVars
  <2>2. Tied'
    BY <1>22 DEF Tied, DropConnection, sessionVars, clientVars, evtVars, Lifecycle
  <2>3. Setup'
    BY <1>22 DEF Setup, DropConnection, sessionVars, subVars, evtVars
  <2> QED
    BY <2>1, <2>2, <2>3 DEF SubInv
<1>23. ASSUME NEW graceOver \in BOOLEAN, Inspect(graceOver)
      PROVE  SubInv'
  <2>1. Lifecycle'
    BY <1>23 DEF Lifecycle, Inspect, evtVars, linkVars
  <2>2. Tied'
    BY <1>23 DEF Tied, Inspect, sessionVars, evtVars, linkVars, Lifecycle
  <2>3. Setup'
    BY <1>23 DEF Setup, Inspect, sessionVars, subVars, evtVars, linkVars
  <2> QED
    BY <2>1, <2>2, <2>3 DEF SubInv
<1>24. CASE SkipStart
  <2>1. Lifecycle'
    BY <1>24 DEF Lifecycle, SkipStart, clientVars, evtVars, linkVars
  <2>2. Tied'
    BY <1>24 DEF Tied, SkipStart, sessionVars, clientVars, evtVars, linkVars, Lifecycle
  <2>3. Setup'
    BY <1>24 DEF Setup, SkipStart, sessionVars, subVars, evtVars, linkVars
  <2> QED
    BY <2>1, <2>2, <2>3 DEF SubInv
<1>25. CASE Replace
  <2>1. Lifecycle'
    BY <1>25 DEF Lifecycle, Replace, clientVars, evtVars, linkVars, EndSession
  <2>2. Tied'
    BY <1>25 DEF Tied, Replace, sessionVars, clientVars, evtVars, linkVars, EndSession,
       Lifecycle
  <2>3. Setup'
    BY <1>25 DEF Setup, Replace, sessionVars, evtVars, linkVars, EndSession, Tied,
       Owners, Lifecycle
  <2> QED
    BY <2>1, <2>2, <2>3 DEF SubInv
<1>26. CASE Destroy
  <2>1. Lifecycle'
    BY <1>26 DEF Lifecycle, Destroy, clientVars, evtVars
  <2>2. Tied'
    BY <1>26 DEF Tied, Destroy, sessionVars, clientVars, evtVars, Lifecycle
  <2>3. Setup'
    BY <1>26 DEF Setup, Destroy, sessionVars, subVars, evtVars
  <2> QED
    BY <2>1, <2>2, <2>3 DEF SubInv
<1>27. CASE BeginStart
  <2>1. Lifecycle'
    BY <1>27 DEF Lifecycle, BeginStart, evtVars, linkVars
  <2>2. Tied'
    BY <1>27 DEF Tied, BeginStart, sessionVars, evtVars, linkVars, Lifecycle
  <2>3. Setup'
    BY <1>27 DEF Setup, BeginStart, sessionVars, subVars, evtVars, linkVars
  <2> QED
    BY <2>1, <2>2, <2>3 DEF SubInv
<1>28. CASE Create
  <2>1. Lifecycle'
    BY <1>28 DEF Lifecycle, Create, evtVars, linkVars
  <2>2. Tied'
    BY <1>28 DEF Tied, Create, sessionVars, evtVars, linkVars, Lifecycle
  <2>3. Setup'
    BY <1>28 DEF Setup, Create, sessionVars, subVars, evtVars, linkVars
  <2> QED
    BY <2>1, <2>2, <2>3 DEF SubInv
<1>29. CASE Run
  <2>1. Lifecycle'
    BY <1>29 DEF Lifecycle, Run, clientVars, evtVars
  <2>2. Tied'
    BY <1>29 DEF Tied, Run, sessionVars, clientVars, evtVars, Lifecycle
  <2>3. Setup'
    BY <1>29 DEF Setup, Run, sessionVars, subVars, evtVars
  <2> QED
    BY <2>1, <2>2, <2>3 DEF SubInv
<1>30. CASE Unwind
  <2>1. Lifecycle'
    BY <1>30 DEF Lifecycle, Unwind, evtVars, linkVars, EndSession
  <2>2. Tied'
    BY <1>30 DEF Tied, Unwind, evtVars, linkVars, EndSession, Lifecycle
  <2>3. Setup'
    BY <1>30 DEF Setup, Unwind, evtVars, linkVars, EndSession, Tied, Owners, Lifecycle
  <2> QED
    BY <2>1, <2>2, <2>3 DEF SubInv
<1>31. CASE EndStart
  <2>1. Lifecycle'
    BY <1>31 DEF Lifecycle, EndStart, evtVars, linkVars
  <2>2. Tied'
    BY <1>31 DEF Tied, EndStart, sessionVars, evtVars, linkVars, Lifecycle
  <2>3. Setup'
    BY <1>31 DEF Setup, EndStart, sessionVars, subVars, evtVars, linkVars
  <2> QED
    BY <2>1, <2>2, <2>3 DEF SubInv
<1> QED
  BY <1>1, <1>2, <1>3, <1>4, <1>5, <1>6, <1>7, <1>8, <1>9, <1>10, <1>11, <1>12, <1>13,
     <1>14, <1>15, <1>16, <1>17, <1>18, <1>19, <1>20, <1>21, <1>22, <1>23, <1>24, <1>25,
     <1>26, <1>27, <1>28, <1>29, <1>30, <1>31 DEF Next, Broker, EventTask, Dispatch, App

\* The command plane is ready only when the broker has granted every required
\* subscription on this connection: neither a refused request, nor a SUBACK of
\* an earlier connection, nor the replacement of the client makes it ready
\* (mqtt_manager_handle_subscribed).
THEOREM SubscriptionSafety == Spec => []ReadyIsSubscribed
<1>1. Init => SubInv
  BY DEF Init, SubInv, Lifecycle, Tied, Setup
<1>2. SubInv /\ UNCHANGED vars => SubInv'
  BY DEF SubInv, Lifecycle, Tied, Setup, vars, sessionVars, subVars, clientVars, evtVars,
     linkVars
<1>3. SubInv => ReadyIsSubscribed
  BY DEF SubInv, Setup, ReadyIsSubscribed
<1> QED
  BY <1>1, <1>2, <1>3, SubStep, TypeCorrectness, FenceSafety, PTL DEF Spec

-----------------------------------------------------------------------------
(* The pending records.  A record has one user: a queued message, the one  *)
(* about to be queued, or the one that was taken and not yet checked.      *)

Queued(s) == \E i \in 1..Len(queue) : queue[i].slot = s

Recorded(m) == m.slot \in Slots /\ slots[m.slot] = m.id /\ m.id # 0

OneUser ==
  /\ \A i \in 1..Len(queue) : Recorded(queue[i])
  /\ \A i, j \in 1..Len(queue) : i # j => queue[i].slot # queue[j].slot
  /\ disp = "check" => Recorded(msg) /\ ~Queued(msg.slot)
  /\ evt = "send" /\ evtMsg.slot # NoSlot =>
       /\ Recorded(evtMsg) /\ ~Queued(evtMsg.slot)
       /\ disp = "check" => msg.slot # evtMsg.slot

Marked ==
  /\ evt \in {"enqueue", "send"} => evtMsg.id # 0
  /\ evt = "enqueue" => evtMsg.slot = NoSlot
  /\ disp \notin {"receive", "check"} => inflight

VisInv == OneUser /\ Marked

\* Steps that touch neither the records nor what uses them.
LEMMA VisFrame ==
  ASSUME OneUser, Marked, UNCHANGED <<slots, queue, inflight, evtMsg, disp, msg>>,
         evt' = evt \/ evt' \notin {"enqueue", "send"}
  PROVE  VisInv'
BY DEF VisInv, OneUser, Marked, Recorded, Queued

\* Steps of the dispatch task once the record has been released.
LEMMA DispatchFrame ==
  ASSUME OneUser, Marked, UNCHANGED <<slots, queue, evt, evtMsg, msg>>, disp' # "check",
         disp' \notin {"receive", "check"} => inflight'
  PROVE  VisInv'
BY DEF VisInv, OneUser, Marked, Recorded, Queued

\* Each user of a record keeps it until it hands it on.
LEMMA VisStep == TypeOK /\ VisInv /\ Next => VisInv'
<1> SUFFICES ASSUME TypeOK, OneUser, Marked, Next PROVE VisInv'
  BY DEF VisInv
<1> USE MqttAssumption
<1>1. CASE Connect
  BY <1>1, VisFrame DEF Connect, queueVars, dispVars
<1>2. CASE Disconnect
  BY <1>2, VisFrame DEF Disconnect, queueVars, dispVars
<1>3. CASE TaskExit
  BY <1>3, VisFrame DEF TaskExit, queueVars, evtVars, dispVars
<1>4. CASE Data
  <2>1. sent + 1 # 0 /\ sent \in Nat
    BY DEF TypeOK, CountTypes
  <2>2. UNCHANGED <<slots, queue, inflight, disp, msg>>
    BY <1>4 DEF Data, queueVars, dispVars
  <2>3. CASE UNCHANGED evtVars
    BY <2>2, <2>3, VisFrame DEF evtVars
  <2>4. CASE evt' = "enqueue" /\ evtMsg' = [id |-> sent + 1, gen |-> gen, slot |-> NoSlot]
    BY <2>1, <2>2, <2>4 DEF VisInv, OneUser, Marked, Recorded, Queued
  <2> QED
    BY <1>4, <2>3, <2>4 DEF Data
<1>5. ASSUME NEW t \in Topics, NEW accepted \in BOOLEAN, Suback(t, accepted)
      PROVE  VisInv'
  BY <1>5, VisFrame DEF Suback, queueVars, evtVars, dispVars
<1>6. CASE EnterConnected
  BY <1>6, VisFrame DEF EnterConnected, queueVars, dispVars
<1>7. CASE SubscribeAll
  BY <1>7, VisFrame DEF SubscribeAll, queueVars, dispVars
<1>8. CASE EnterDisconnected
  BY <1>8, VisFrame DEF EnterDisconnected, queueVars, dispVars
<1>9. CASE ReserveSlot
  <2>1. UNCHANGED <<queue, inflight, disp, msg>> /\ evt = "enqueue"
    BY <1>9 DEF ReserveSlot, dispVars
  <2>2. CASE UNCHANGED <<evtMsg, slots>>
    <3>1. evtMsg.slot = NoSlot /\ evtMsg.id # 0 /\ evt' # "enqueue"
      BY <1>9, <2>1 DEF Marked, ReserveSlot
    <3> QED
      BY <2>1, <2>2, <3>1 DEF VisInv, OneUser, Marked, Recorded, Queued
  <2>3. ASSUME NEW s \in Slots, IsFirstFree(s), evtMsg' = [evtMsg EXCEPT !.slot = s],
               slots' = [slots EXCEPT ![s] = evtMsg.id], evt' = "send"
        PROVE  VisInv'
    <3>1. slots[s] = 0 /\ evtMsg.id # 0
      BY <2>1, <2>3 DEF IsFirstFree, FreeSlots, Marked
    <3>2. evtMsg'.slot = s /\ evtMsg'.id = evtMsg.id
      BY <2>3 DEF TypeOK, MessageTypes, Message
    <3>3. slots'[s] = evtMsg.id /\ \A r \in Slots \ {s} : slots'[r] = slots[r]
      BY <2>3 DEF TypeOK, MessageTypes
    <3>4. ASSUME NEW m, Recorded(m)
          PROVE  m.slot # s /\ m.slot \in Slots /\ slots'[m.slot] = m.id /\ m.id # 0
      BY <3>1, <3>3, <3>4 DEF Recorded
    <3>5. ~Queued(s)
      BY <3>4 DEF OneUser, Queued
    <3>6. disp = "check" => msg.slot # s
      BY <3>4 DEF OneUser
    <3>7. OneUser'
      BY <2>1, <2>3, <3>1, <3>2, <3>3, <3>4, <3>5, <3>6 DEF OneUser, Recorded, Queued
    <3> QED
      BY <2>1, <2>3, <3>1, <3>2, <3>7 DEF VisInv, Marked
  <2> QED
    BY <1>9, <2>2, <2>3 DEF ReserveSlot
<1>10. CASE SendToQueue
  <2>1. UNCHANGED <<inflight, evtMsg, disp, msg>> /\ evt = "send" /\ evt' = "idle"
    BY <1>10 DEF SendToQueue, dispVars
  <2>2. Marked'
    BY <2>1 DEF Marked
  <2>3. CASE Fits(evtMsg)
    <3>1. queue' = Append(queue, evtMsg) /\ slots' = slots /\ evtMsg.slot # NoSlot
      BY <1>10, <2>3 DEF SendToQueue, Fits
    <3>2. /\ Len(queue') = Len(queue) + 1 /\ Len(queue) \in Nat
          /\ \A i \in 1..Len(queue) : queue'[i] = queue[i]
          /\ queue'[Len(queue) + 1] = evtMsg
      BY <3>1, AppendProperties, LenProperties DEF TypeOK, MessageTypes
    <3>3. \A i \in 1..Len(queue') : i \in 1..Len(queue) \/ i = Len(queue) + 1
      BY <3>2
    <3>4. Recorded(evtMsg) /\ ~Queued(evtMsg.slot)
      BY <2>1, <3>1 DEF OneUser
    <3>5. \A i \in 1..Len(queue') : Recorded(queue'[i])
      BY <3>2, <3>3, <3>4 DEF OneUser
    <3>6. \A i, j \in 1..Len(queue') : i # j => queue'[i].slot # queue'[j].slot
      BY <3>2, <3>3, <3>4 DEF OneUser, Queued
    <3>7. disp = "check" => Recorded(msg) /\ \A i \in 1..Len(queue') : queue'[i].slot # msg.slot
      BY <2>1, <3>1, <3>2, <3>3 DEF OneUser, Queued
    <3>8. OneUser'
      BY <2>1, <3>1, <3>5, <3>6, <3>7 DEF OneUser, Recorded, Queued
    <3> QED
      BY <2>2, <3>8 DEF VisInv
  <2>4. CASE ~Fits(evtMsg)
    <3>1. queue' = queue /\ slots' = Released(evtMsg)
      BY <1>10, <2>4 DEF SendToQueue
    <3>2. ASSUME NEW m, Recorded(m), m.slot # evtMsg.slot \/ evtMsg.slot = NoSlot
          PROVE  slots'[m.slot] = m.id
      BY <3>1, <3>2 DEF Recorded, Released, Slots
    <3>3. \A i \in 1..Len(queue) : Recorded(queue[i]) /\ slots'[queue[i].slot] = queue[i].id
      BY <2>1, <3>2 DEF OneUser, Queued
    <3>4. disp = "check" => slots'[msg.slot] = msg.id
      BY <2>1, <3>2 DEF OneUser
    <3>5. OneUser'
      BY <2>1, <3>1, <3>3, <3>4 DEF OneUser, Recorded, Queued
    <3> QED
      BY <2>2, <3>5 DEF VisInv
  <2> QED
    BY <2>3, <2>4
<1>11. CASE Receive
  <2>1. UNCHANGED <<slots, inflight, evt, evtMsg>> /\ disp' = "check"
    BY <1>11 DEF Receive, evtVars
  <2>2. /\ Len(queue) \in Nat \ {0} /\ msg' = queue[1]
        /\ Len(queue') = Len(queue) - 1
        /\ \A i \in 1..Len(queue') : i + 1 \in 2..Len(queue) /\ queue'[i] = queue[i + 1]
    BY <1>11, HeadTailProperties, LenProperties, EmptySeq DEF Receive, TypeOK, MessageTypes
  <2>3. 1 \in 1..Len(queue) /\ Recorded(msg')
    BY <2>2 DEF OneUser
  <2>4. \A i \in 1..Len(queue') : i + 1 \in 1..Len(queue) /\ i + 1 # 1
    BY <2>2
  <2>5. \A i \in 1..Len(queue') : Recorded(queue'[i]) /\ queue'[i].slot # msg'.slot
    BY <2>2, <2>3, <2>4 DEF OneUser
  <2>6. \A i, j \in 1..Len(queue') : i # j => queue'[i].slot # queue'[j].slot
    <3> SUFFICES ASSUME NEW i \in 1..Len(queue'), NEW j \in 1..Len(queue'), i # j
                 PROVE  queue'[i].slot # queue'[j].slot
      OBVIOUS
    <3>1. i + 1 # j + 1
      BY <2>2
    <3> QED
      BY <2>2, <2>4, <3>1 DEF OneUser
  <2>7. evt = "send" /\ evtMsg.slot # NoSlot =>
          \A i \in 1..Len(queue) : queue[i].slot # evtMsg.slot
    BY DEF OneUser, Queued
  <2>8. Recorded(msg)' /\ ~Queued(msg.slot)' /\ \A i \in 1..Len(queue') : Recorded(queue[i])'
    BY <2>1, <2>3, <2>5 DEF Recorded, Queued
  <2>9. evt = "send" /\ evtMsg.slot # NoSlot =>
          Recorded(evtMsg)' /\ ~Queued(evtMsg.slot)' /\ msg'.slot # evtMsg.slot
    BY <2>1, <2>2, <2>3, <2>4, <2>7 DEF OneUser, Recorded, Queued
  <2>10. OneUser'
    BY <2>1, <2>6, <2>8, <2>9 DEF OneUser
  <2> QED
    BY <2>1, <2>10 DEF VisInv, Marked
<1>12. CASE CheckSession
  <2>1. UNCHANGED <<queue, evt, evtMsg, msg>> /\ disp = "check" /\ slots' = Released(msg)
    BY <1>12 DEF CheckSession, evtVars
  <2>2. disp' # "check" /\ inflight'
    BY <1>12 DEF CheckSession
  <2>3. ASSUME NEW m, Recorded(m), m.slot # msg.slot
        PROVE  slots'[m.slot] = m.id
    BY <2>1, <2>3 DEF Recorded, Released
  <2>4. \A i \in 1..Len(queue) : Recorded(queue[i]) /\ slots'[queue[i].slot] = queue[i].id
    BY <2>1, <2>3 DEF OneUser, Queued
  <2>5. evt = "send" /\ evtMsg.slot # NoSlot => slots'[evtMsg.slot] = evtMsg.id
    BY <2>1, <2>3 DEF OneUser
  <2>6. OneUser'
    BY <2>1, <2>2, <2>4, <2>5 DEF OneUser, Recorded, Queued
  <2> QED
    BY <2>1, <2>2, <2>6 DEF VisInv, Marked
<1>13. CASE Route
  BY <1>13, DispatchFrame DEF Route, queueVars, evtVars, Marked
<1>14. CASE TakeFence
  BY <1>14, DispatchFrame DEF TakeFence, queueVars, evtVars, Marked
<1>15. CASE Revalidate
  BY <1>15, DispatchFrame DEF Revalidate, queueVars, evtVars, Marked
<1>16. CASE ReleaseFence
  BY <1>16, DispatchFrame DEF ReleaseFence, queueVars, evtVars, Marked
<1>17. CASE TakeLifecycle
  BY <1>17, DispatchFrame DEF TakeLifecycle, queueVars, evtVars, Marked
<1>18. CASE Publish
  BY <1>18, DispatchFrame DEF Publish, queueVars, evtVars, Marked
<1>19. CASE Finish
  BY <1>19, DispatchFrame DEF Finish, evtVars, Marked
<1>20. ASSUME NEW timedOut \in BOOLEAN, Poll(timedOut)
      PROVE  VisInv'
  BY <1>20, VisFrame DEF Poll, queueVars, evtVars, dispVars
<1>21. CASE PublishOffline
  BY <1>21, VisFrame DEF PublishOffline, queueVars, evtVars, dispVars
<1>22. CASE DropConnection
  BY <1>22, VisFrame DEF DropConnection, queueVars, evtVars, dispVars
<1>23. ASSUME NEW graceOver \in BOOLEAN, Inspect(graceOver)
      PROVE  VisInv'
  BY <1>23, VisFrame DEF Inspect, queueVars, evtVars, dispVars
<1>24. CASE SkipStart
  BY <1>24, VisFrame DEF SkipStart, queueVars, evtVars, dispVars
<1>25. CASE Replace
  BY <1>25, VisFrame DEF Replace, queueVars, evtVars, dispVars
<1>26. CASE Destroy
  BY <1>26, VisFrame DEF Destroy, queueVars, evtVars, dispVars
<1>27. CASE BeginStart
  BY <1>27, VisFrame DEF BeginStart, queueVars, evtVars, dispVars
<1>28. CASE Create
  BY <1>28, VisFrame DEF Create, queueVars, evtVars, dispVars
<1>29. CASE Run
  BY <1>29, VisFrame DEF Run, queueVars, evtVars, dispVars
<1>30. CASE Unwind
  BY <1>30, VisFrame DEF Unwind, queueVars, evtVars, dispVars
<1>31. CASE EndStart
  BY <1>31, VisFrame DEF EndStart, queueVars, evtVars, dispVars
<1> QED
  BY <1>1, <1>2, <1>3, <1>4, <1>5, <1>6, <1>7, <1>8, <1>9, <1>10, <1>11, <1>12, <1>13,
     <1>14, <1>15, <1>16, <1>17, <1>18, <1>19, <1>20, <1>21, <1>22, <1>23, <1>24, <1>25,
     <1>26, <1>27, <1>28, <1>29, <1>30, <1>31 DEF Next, Broker, EventTask, Dispatch, App

\* The supervisor can see the age of every command that was accepted and has
\* not finished: no record of s_dispatch_pending is lost, or shared between the
\* queue, the event task and the dispatch task (mqtt_manager_get_health).
THEOREM VisibilitySafety == Spec => []CommandsVisible
<1>1. Init => VisInv
  BY DEF Init, VisInv, OneUser, Marked
<1>2. VisInv /\ UNCHANGED vars => VisInv'
  BY VisFrame DEF VisInv, vars, queueVars, evtVars, dispVars
<1>3. VisInv => CommandsVisible
  BY DEF VisInv, OneUser, Marked, Recorded, CommandsVisible
<1> QED
  BY <1>1, <1>2, <1>3, VisStep, TypeCorrectness, PTL DEF Spec

=============================================================================
