----------------------------- MODULE MqttManager -----------------------------
(***************************************************************************)
(* mqtt_manager.c and its callers: ESP-MQTT's event task, which opens and  *)
(* closes broker sessions and queues the commands they deliver; the        *)
(* dispatch task, which runs command_executor.c for each of them; and the  *)
(* loop of app_main, which disconnects an unhealthy session and replaces a *)
(* client whose task has died.                                             *)
(*                                                                         *)
(* s_command_commit_mutex orders the commit of a command with every change *)
(* of session.  s_lifecycle_mutex orders the calls of the ESP-MQTT API     *)
(* with client replacement.  The API has a lock of its own, which ESP-MQTT *)
(* holds while it runs an event handler: a call waits for evt = "idle".    *)
(* A critical section of s_lock is one step.  What a command does is left  *)
(* to MotorControl, SafetySupervisor and SyncSave; topics, payloads and    *)
(* the assembly of fragments are left out, a DATA event being the one that *)
(* completes a message.  The 32-bit counters are numbers.                  *)
(***************************************************************************)
EXTENDS Naturals, Sequences

CONSTANTS
  Topics,       \* the required subscriptions
  Depth,        \* MQTT_MANAGER_COMMAND_QUEUE_DEPTH
  NoTask,       \* owner of a free mutex
  NoSlot,       \* UINT8_MAX: no pending record was free
  NoSession,    \* for CommandSession
  MaxCommands,  \* bound on commands the broker sends
  MaxConnects,  \* bound on connections
  MaxFaults     \* bound on failing connections, API calls and allocations

ASSUME MqttAssumption ==
  /\ Depth \in Nat \ {0}
  /\ NoSlot \notin 1..Depth
  /\ NoTask \notin {"event", "dispatch", "app"}
  /\ NoSession \notin Nat
  /\ MaxCommands \in Nat /\ MaxConnects \in Nat /\ MaxFaults \in Nat

VARIABLES
  client,      \* s_client is not NULL
  starting,    \* s_starting
  stopped,     \* s_stopped_state_since_us is set
  connected,   \* s_connected
  ready,       \* s_ready
  request,     \* s_disconnect_requested
  setupFailed, \* s_subscription_setup_failed
  pending,     \* s_pending_sub_ids, by topic
  gen,         \* s_connection_generation
  slots,       \* s_dispatch_pending: the command recorded; 0: not occupied
  queue,       \* s_dispatch_queue
  inflight,    \* s_command_in_flight_since_us is set
  commit,      \* s_command_commit_mutex
  life,        \* s_lifecycle_mutex
  evt, evtMsg, \* event task: where it is, the message it enqueues
  disp, msg,   \* dispatch task: where it is, the message it took
  app,         \* loop of app_main: where it is
  link,        \* external: what the ESP-MQTT client does
  asked,       \* external: a disconnect has been asked for
  answers,     \* external: what the broker makes of each subscription
  sent,        \* external: commands the broker has sent
  lostIn,      \* history: the last session that lost a command to a full queue
  connects, faults  \* bounds

sessionVars == <<connected, ready, gen>>
subVars == <<setupFailed, pending>>
clientVars == <<client, starting, stopped>>
queueVars == <<slots, queue, inflight>>
evtVars == <<evt, evtMsg>>
dispVars == <<disp, msg>>
linkVars == <<link, asked, answers>>
boundVars == <<connects, faults>>
vars == <<sessionVars, subVars, clientVars, queueVars, request, commit, life,
          evtVars, dispVars, app, linkVars, sent, lostIn, boundVars>>

Slots == 1..Depth
Message == [id : Nat, gen : Nat, slot : Slots \cup {NoSlot}]
NoMessage == [id |-> 0, gen |-> 0, slot |-> NoSlot]

Init ==
  /\ client = FALSE /\ starting = FALSE /\ stopped = FALSE
  /\ connected = FALSE /\ ready = FALSE /\ gen = 0
  /\ request = FALSE /\ setupFailed = FALSE /\ pending = {}
  /\ slots = [s \in Slots |-> 0] /\ queue = << >> /\ inflight = FALSE
  /\ commit = NoTask /\ life = NoTask
  /\ evt = "idle" /\ evtMsg = NoMessage
  /\ disp = "receive" /\ msg = NoMessage
  /\ app = "poll"
  /\ link = "none" /\ asked = FALSE /\ answers = [t \in Topics |-> "none"]
  /\ sent = 0 /\ lostIn = 0
  /\ connects = 0 /\ faults = 0

\* The session that delivered a message is the one in force.
Current(m) == connected /\ ready /\ m.gen = gen

-----------------------------------------------------------------------------
(* The ESP-MQTT client and the event task.                                 *)

Connect ==
  /\ evt = "idle" /\ link \in {"trying", "waiting"} /\ connects < MaxConnects
  /\ link' = "up" /\ asked' = FALSE
  /\ answers' = [t \in Topics |-> "none"]
  /\ evt' = "connected"
  /\ connects' = connects + 1
  /\ UNCHANGED <<sessionVars, subVars, clientVars, queueVars, request, commit, life,
                 evtMsg, dispVars, app, sent, lostIn, faults>>

\* The transport is lost, or a connection attempt has failed.
Disconnect ==
  /\ evt = "idle"
  /\ \/ link = "up" /\ UNCHANGED faults
     \/ link \in {"trying", "waiting"} /\ faults < MaxFaults /\ faults' = faults + 1
  /\ link' = "waiting" /\ asked' = FALSE
  /\ evt' = "disconnected"
  /\ UNCHANGED <<sessionVars, subVars, clientVars, queueVars, request, commit, life,
                 evtMsg, dispVars, app, answers, sent, lostIn, connects>>

\* The task of the client exits on a failure it cannot recover from.
TaskExit ==
  /\ evt = "idle" /\ link \in {"trying", "waiting"}
  /\ faults < MaxFaults /\ faults' = faults + 1
  /\ link' = "stopped"
  /\ UNCHANGED <<sessionVars, subVars, clientVars, queueVars, request, commit, life,
                 evtVars, dispVars, app, asked, answers, sent, lostIn, connects>>

EnterConnected ==
  /\ evt = "connected" /\ commit = NoTask
  /\ IF client
       THEN /\ connected' = TRUE /\ ready' = FALSE /\ gen' = gen + 1
            /\ request' = FALSE /\ setupFailed' = FALSE /\ pending' = {}
            /\ commit' = "event" /\ evt' = "subscribe"
       ELSE /\ evt' = "idle"
            /\ UNCHANGED <<sessionVars, subVars, request, commit>>
  /\ UNCHANGED <<clientVars, queueVars, life, evtMsg, dispVars, app, linkVars, sent,
                 lostIn, boundVars>>

\* mqtt_manager_subscribe_all under the fence; the calls for refused fail.
SubscribeAll ==
  /\ evt = "subscribe"
  /\ \E refused \in SUBSET Topics :
       /\ refused = {} \/ faults < MaxFaults
       /\ faults' = IF refused = {} THEN faults ELSE faults + 1
       /\ pending' = Topics \ refused
       /\ answers' = [t \in Topics |-> IF t \in refused THEN "none" ELSE "asked"]
       /\ setupFailed' = (refused # {})
       /\ request' = (request \/ refused # {} \/ refused = Topics)
  /\ commit' = NoTask /\ evt' = "idle"
  /\ UNCHANGED <<sessionVars, clientVars, queueVars, life, evtMsg, dispVars, app, link,
                 asked, sent, lostIn, connects>>

\* Faulty variant: a subscription that could not be asked for is forgotten.
NonePending(t) == pending = {t}

\* The SUBACK of t completes the set of required subscriptions.
CompletesSetup(t) == pending = {t} /\ ~setupFailed

\* A SUBACK: s_ready is set when the last required one has been accepted.
Suback(t, accepted) ==
  /\ evt = "idle" /\ link = "up" /\ answers[t] = "asked"
  /\ accepted \/ faults < MaxFaults
  /\ faults' = IF accepted THEN faults ELSE faults + 1
  /\ answers' = [answers EXCEPT ![t] = IF accepted THEN "granted" ELSE "refused"]
  /\ IF client /\ t \in pending
       THEN /\ pending' = pending \ {t}
            /\ ready' = (ready \/ (accepted /\ CompletesSetup(t)))
            /\ setupFailed' = (setupFailed \/ ~accepted)
            /\ request' = (request \/ ~accepted)
       ELSE UNCHANGED <<pending, ready, setupFailed, request>>
  /\ UNCHANGED <<connected, gen, clientVars, queueVars, commit, life, evtVars, dispVars,
                 app, link, asked, sent, lostIn, connects>>

EnterDisconnected ==
  /\ evt = "disconnected" /\ commit = NoTask
  /\ IF client
       THEN /\ connected' = FALSE /\ ready' = FALSE /\ gen' = gen + 1
            /\ request' = FALSE /\ pending' = {}
       ELSE UNCHANGED <<sessionVars, request, pending>>
  /\ evt' = "idle"
  /\ UNCHANGED <<setupFailed, clientVars, queueVars, commit, life, evtMsg, dispVars, app,
                 linkVars, sent, lostIn, boundVars>>

\* The DATA event that completes a message.
Data ==
  /\ evt = "idle" /\ link = "up" /\ sent < MaxCommands
  /\ \E t \in Topics : answers[t] = "granted"
  /\ sent' = sent + 1
  /\ IF client /\ connected /\ ready
       THEN /\ evt' = "enqueue"
            /\ evtMsg' = [id |-> sent + 1, gen |-> gen, slot |-> NoSlot]
       ELSE UNCHANGED evtVars
  /\ UNCHANGED <<sessionVars, subVars, clientVars, queueVars, request, commit, life,
                 dispVars, app, linkVars, lostIn, boundVars>>

\* Faulty variant: an occupied record may be taken again.
AnySlot == Slots

FreeSlots == {s \in Slots : slots[s] = 0}
IsFirstFree(s) == s \in FreeSlots /\ \A r \in FreeSlots : s <= r

\* A pending record is taken before the message is queued, so that a command
\* is never invisible to the supervisor.
ReserveSlot ==
  /\ evt = "enqueue" /\ commit = NoTask
  /\ \/ /\ ~(client /\ Current(evtMsg))
        /\ evt' = "idle"
        /\ UNCHANGED <<evtMsg, slots, commit>>
     \/ /\ client /\ Current(evtMsg)
        /\ IF FreeSlots = {}
             THEN UNCHANGED <<evtMsg, slots>>
             ELSE \E s \in Slots :
                    /\ IsFirstFree(s)
                    /\ evtMsg' = [evtMsg EXCEPT !.slot = s]
                    /\ slots' = [slots EXCEPT ![s] = evtMsg.id]
        /\ commit' = "event" /\ evt' = "send"
  /\ UNCHANGED <<sessionVars, subVars, clientVars, queue, inflight, request, life,
                 dispVars, app, linkVars, sent, lostIn, boundVars>>

\* The pending records without the one of a message.
Released(m) == [s \in Slots |-> IF s = m.slot /\ slots[s] = m.id THEN 0 ELSE slots[s]]

Fits(m) == m.slot # NoSlot /\ Len(queue) < Depth

\* Faulty variant: the loss is only counted.
CountLoss == UNCHANGED <<ready, request, gen>>

\* Every command of the session is invalid from here on.
InvalidateSession == ready' = FALSE /\ request' = TRUE /\ gen' = gen + 1

\* A message that cannot be queued ends the session that delivered it.
SendToQueue ==
  /\ evt = "send"
  /\ IF Fits(evtMsg)
       THEN /\ queue' = Append(queue, evtMsg)
            /\ UNCHANGED <<slots, sessionVars, request, lostIn>>
       ELSE /\ slots' = Released(evtMsg)
            /\ InvalidateSession
            /\ lostIn' = evtMsg.gen
            /\ UNCHANGED <<queue, connected>>
  /\ commit' = NoTask /\ evt' = "idle"
  /\ UNCHANGED <<subVars, clientVars, inflight, life, evtMsg, dispVars, app, linkVars,
                 sent, boundVars>>

EventTask == EnterConnected \/ SubscribeAll \/ EnterDisconnected \/ ReserveSlot \/ SendToQueue

-----------------------------------------------------------------------------
(* The dispatch task and command_executor_on_message.                      *)

Receive ==
  /\ disp = "receive" /\ queue # << >>
  /\ msg' = Head(queue) /\ queue' = Tail(queue)
  /\ disp' = "check"
  /\ UNCHANGED <<sessionVars, subVars, clientVars, slots, inflight, request, commit, life,
                 evtVars, app, linkVars, sent, lostIn, boundVars>>

\* The pending record becomes the in-flight mark; stale messages go no further.
CheckSession ==
  /\ disp = "check"
  /\ slots' = Released(msg)
  /\ inflight' = TRUE
  /\ disp' = IF Current(msg) THEN "execute" ELSE "done"
  /\ UNCHANGED <<sessionVars, subVars, clientVars, queue, request, commit, life, evtVars,
                 msg, app, linkVars, sent, lostIn, boundVars>>

\* The router rejects the message, or finds a query or a command to commit.
Route ==
  /\ disp = "execute"
  /\ disp' \in {"done", "answer", "begin"}
  /\ UNCHANGED <<sessionVars, subVars, clientVars, queueVars, request, commit, life,
                 evtVars, msg, app, linkVars, sent, lostIn, boundVars>>

\* mqtt_manager_command_commit_begin; the mutex may be busy for too long.
TakeFence ==
  /\ disp = "begin"
  /\ \/ commit = NoTask /\ commit' = "dispatch" /\ disp' = "revalidate"
     \/ commit # NoTask /\ disp' = "done" /\ UNCHANGED commit
  /\ UNCHANGED <<sessionVars, subVars, clientVars, queueVars, request, life, evtVars, msg,
                 app, linkVars, sent, lostIn, boundVars>>

\* Faulty variant: any session that is ready will do.
AnyReadySession == connected /\ ready

MayCommit == Current(msg)

Revalidate ==
  /\ disp = "revalidate"
  /\ IF MayCommit
       THEN disp' = "commit" /\ UNCHANGED commit
       ELSE disp' = "done" /\ commit' = NoTask
  /\ UNCHANGED <<sessionVars, subVars, clientVars, queueVars, request, life, evtVars, msg,
                 app, linkVars, sent, lostIn, boundVars>>

\* Faulty variant: the acknowledgement is published before the fence is released.
PublishUnderFence ==
  /\ disp = "commit" /\ life = NoTask /\ evt = "idle"
  /\ commit' = NoTask
  /\ disp' = "done"
  /\ UNCHANGED <<sessionVars, subVars, clientVars, queueVars, request, life, evtVars, msg,
                 app, linkVars, sent, lostIn, boundVars>>

\* The mutation has been made, or refused; only then may it be acknowledged.
ReleaseFence ==
  /\ disp = "commit"
  /\ commit' = NoTask
  /\ disp' \in {"answer", "done"}
  /\ UNCHANGED <<sessionVars, subVars, clientVars, queueVars, request, life, evtVars, msg,
                 app, linkVars, sent, lostIn, boundVars>>

\* mqtt_manager_publish: the lifecycle mutex, then the lock of the API.
TakeLifecycle ==
  /\ disp = "answer" /\ life = NoTask
  /\ IF client /\ connected
       THEN life' = "dispatch" /\ disp' = "publish"
       ELSE disp' = "done" /\ UNCHANGED life
  /\ UNCHANGED <<sessionVars, subVars, clientVars, queueVars, request, commit, evtVars,
                 msg, app, linkVars, sent, lostIn, boundVars>>

Publish ==
  /\ disp = "publish" /\ evt = "idle"
  /\ life' = NoTask /\ disp' = "done"
  /\ UNCHANGED <<sessionVars, subVars, clientVars, queueVars, request, commit, evtVars,
                 msg, app, linkVars, sent, lostIn, boundVars>>

Finish ==
  /\ disp = "done"
  /\ inflight' = FALSE /\ disp' = "receive"
  /\ UNCHANGED <<sessionVars, subVars, clientVars, slots, queue, request, commit, life,
                 evtVars, msg, app, linkVars, sent, lostIn, boundVars>>

Dispatch == \/ Receive \/ CheckSession \/ Route \/ TakeFence \/ Revalidate
            \/ ReleaseFence \/ TakeLifecycle \/ Publish \/ Finish

-----------------------------------------------------------------------------
(* The loop of app_main: mqtt_manager_poll, then mqtt_manager_start.       *)

\* Faulty variant: only a disconnect that was asked for.
OnlyRequested(timedOut) == request

\* The subscriptions of a connection that is not ready may have timed out.
Unhealthy(timedOut) == request \/ (timedOut /\ connected /\ ~ready)

Poll(timedOut) ==
  /\ app = "poll" /\ life = NoTask
  /\ request' = FALSE
  /\ IF Unhealthy(timedOut) /\ client
       THEN life' = "app" /\ app' = "offline"
       ELSE app' = "start" /\ UNCHANGED life
  /\ UNCHANGED <<sessionVars, subVars, clientVars, queueVars, commit, evtVars, dispVars,
                 linkVars, sent, lostIn, boundVars>>

PublishOffline ==
  /\ app = "offline" /\ evt = "idle"
  /\ app' = "drop"
  /\ UNCHANGED <<sessionVars, subVars, clientVars, queueVars, request, commit, life,
                 evtVars, dispVars, linkVars, sent, lostIn, boundVars>>

DropConnection ==
  /\ app = "drop" /\ evt = "idle"
  /\ \/ asked' = TRUE /\ UNCHANGED faults
     \/ faults < MaxFaults /\ faults' = faults + 1 /\ UNCHANGED asked
  /\ life' = NoTask /\ app' = "start"
  /\ UNCHANGED <<sessionVars, subVars, clientVars, queueVars, request, commit, evtVars,
                 dispVars, link, answers, sent, lostIn, connects>>

\* mqtt_manager_start with a client: leave it alone, or wait out the grace.
Inspect(graceOver) ==
  /\ app = "start" /\ life = NoTask /\ ~connected /\ client
  /\ IF link # "stopped"
       THEN stopped' = FALSE /\ app' = "poll" /\ UNCHANGED life
       ELSE /\ stopped' = TRUE
            /\ IF stopped /\ ~starting /\ graceOver
                 THEN life' = "app" /\ app' = "replace"
                 ELSE app' = "poll" /\ UNCHANGED life
  /\ UNCHANGED <<sessionVars, subVars, client, starting, queueVars, request, commit,
                 evtVars, dispVars, linkVars, sent, lostIn, boundVars>>

\* Nothing to start: connected, no address, or no trusted time.
SkipStart ==
  /\ app = "start"
  /\ app' = "poll"
  /\ UNCHANGED <<sessionVars, subVars, clientVars, queueVars, request, commit, life,
                 evtVars, dispVars, linkVars, sent, lostIn, boundVars>>

\* The session of the client that goes ends under the fence.
EndSession == connected' = FALSE /\ ready' = FALSE /\ pending' = {} /\ gen' = gen + 1

Replace ==
  /\ app = "replace" /\ commit = NoTask
  /\ IF ~client \/ starting \/ connected
       THEN /\ life' = NoTask /\ app' = "poll"
            /\ UNCHANGED <<sessionVars, pending, clientVars>>
       ELSE /\ EndSession
            /\ starting' = TRUE /\ client' = FALSE /\ stopped' = FALSE
            /\ app' = "destroy" /\ UNCHANGED life
  /\ UNCHANGED <<setupFailed, queueVars, request, commit, evtVars, dispVars, linkVars,
                 sent, lostIn, boundVars>>

\* esp_mqtt_client_destroy waits for the task of the client.
Destroy ==
  /\ app = "destroy" /\ evt = "idle"
  /\ link' = "none" /\ asked' = FALSE
  /\ app' = "create"
  /\ UNCHANGED <<sessionVars, subVars, clientVars, queueVars, request, commit, life,
                 evtVars, dispVars, answers, sent, lostIn, boundVars>>

BeginStart ==
  /\ app = "start" /\ life = NoTask /\ ~connected /\ ~client /\ ~starting
  /\ starting' = TRUE /\ life' = "app" /\ app' = "create"
  /\ UNCHANGED <<sessionVars, subVars, client, stopped, queueVars, request, commit,
                 evtVars, dispVars, linkVars, sent, lostIn, boundVars>>

Create ==
  /\ app = "create"
  /\ \/ client' = TRUE /\ stopped' = FALSE /\ app' = "run" /\ UNCHANGED <<starting, life, faults>>
     \/ /\ faults < MaxFaults /\ faults' = faults + 1
        /\ starting' = FALSE /\ life' = NoTask /\ app' = "poll"
        /\ UNCHANGED <<client, stopped>>
  /\ UNCHANGED <<sessionVars, subVars, queueVars, request, commit, evtVars, dispVars,
                 linkVars, sent, lostIn, connects>>

Run ==
  /\ app = "run"
  /\ \/ link' = "trying" /\ app' = "started" /\ UNCHANGED faults
     \/ faults < MaxFaults /\ faults' = faults + 1 /\ app' = "unwind" /\ UNCHANGED link
  /\ UNCHANGED <<sessionVars, subVars, clientVars, queueVars, request, commit, life,
                 evtVars, dispVars, asked, answers, sent, lostIn, connects>>

Unwind ==
  /\ app = "unwind" /\ commit = NoTask
  /\ EndSession
  /\ client' = FALSE /\ app' = "started"
  /\ UNCHANGED <<setupFailed, starting, stopped, queueVars, request, commit, life, evtVars,
                 dispVars, linkVars, sent, lostIn, boundVars>>

EndStart ==
  /\ app = "started"
  /\ starting' = FALSE /\ life' = NoTask /\ app' = "poll"
  /\ UNCHANGED <<sessionVars, subVars, client, stopped, queueVars, request, commit, evtVars,
                 dispVars, linkVars, sent, lostIn, boundVars>>

App == \/ \E timedOut \in BOOLEAN : Poll(timedOut)
       \/ \E graceOver \in BOOLEAN : Inspect(graceOver)
       \/ PublishOffline \/ DropConnection \/ SkipStart \/ Replace \/ Destroy
       \/ BeginStart \/ Create \/ Run \/ Unwind \/ EndStart

Broker == \/ Connect \/ Disconnect \/ TaskExit \/ Data
          \/ \E t \in Topics, accepted \in BOOLEAN : Suback(t, accepted)

Next == Broker \/ EventTask \/ Dispatch \/ App

Spec == Init /\ [][Next]_vars

\* The three tasks run.  A subscription that stays unanswered times out at some
\* poll, and the grace period ends at some start with an address and the time.
TaskFairness ==
  /\ WF_vars(EventTask) /\ WF_vars(Dispatch) /\ WF_vars(App)
  /\ SF_vars(Poll(TRUE)) /\ SF_vars(Inspect(TRUE))

\* A client that is asked to disconnect does.
LinkFairness == SF_vars(asked /\ Disconnect)

FairSpec == Spec /\ TaskFairness /\ LinkFairness

-----------------------------------------------------------------------------
(* Properties.                                                             *)

Positions ==
  [evt  |-> {"idle", "connected", "subscribe", "disconnected", "enqueue", "send"},
   disp |-> {"receive", "check", "execute", "begin", "revalidate", "commit", "answer",
             "publish", "done"},
   app  |-> {"poll", "offline", "drop", "start", "replace", "destroy", "create", "run",
             "unwind", "started"}]

FlagTypes ==
  /\ client \in BOOLEAN /\ starting \in BOOLEAN /\ stopped \in BOOLEAN
  /\ connected \in BOOLEAN /\ ready \in BOOLEAN /\ request \in BOOLEAN
  /\ setupFailed \in BOOLEAN /\ inflight \in BOOLEAN /\ asked \in BOOLEAN

PlaceTypes ==
  /\ commit \in {"event", "dispatch", NoTask} /\ life \in {"dispatch", "app", NoTask}
  /\ evt \in Positions.evt /\ disp \in Positions.disp /\ app \in Positions.app
  /\ link \in {"none", "trying", "up", "waiting", "stopped"}
  /\ pending \subseteq Topics
  /\ answers \in [Topics -> {"none", "asked", "granted", "refused"}]

CountTypes == gen \in Nat /\ sent \in Nat /\ lostIn \in Nat /\ connects \in Nat /\ faults \in Nat

MessageTypes ==
  /\ slots \in [Slots -> Nat]
  /\ queue \in Seq(Message) /\ Len(queue) <= Depth
  /\ evtMsg \in Message /\ msg \in Message

TypeOK == FlagTypes /\ PlaceTypes /\ CountTypes /\ MessageTypes

\* A command that holds the fence belongs to the session in force: nothing that
\* ends a session can come between begin and end (mqtt_manager.h).
CommandFence == disp = "commit" => Current(msg)

\* A command is never committed after a message of its session was lost to the
\* full queue: the one that is missing could have been OFF.
NoCommandAfterLoss == disp = "commit" => lostIn < msg.gen

\* The command plane is ready only if the broker has granted every required
\* subscription on this connection.
ReadyIsSubscribed == ready => \A t \in Topics : answers[t] = "granted"

\* The supervisor can always see, by its age, a command that has been accepted
\* and has not finished: no record is lost or shared between queue and callback.
CommandsVisible ==
  /\ \A i \in 1..Len(queue) : slots[queue[i].slot] = queue[i].id
  /\ disp = "check" => slots[msg.slot] = msg.id
  /\ disp \notin {"receive", "check"} => inflight

\* The fence of mqtt_manager.c implements the promise of mqtt_manager.h.
Fence == INSTANCE CommandSession
           WITH number <- gen, live <- connected /\ ready,
                held <- IF disp = "commit" THEN msg.gen ELSE NoSession
ImplementsCommandSession == Fence!SessionSpec

\* Every command that is taken is finished: no cycle of waits among the fence,
\* the lifecycle mutex and the lock of the API.
CommandFinishes == (disp # "receive") ~> (disp = "receive")

\* A connection whose command plane does not become ready is given up.
UnhealthyEnds == (connected /\ ~ready) ~> (ready \/ ~connected)

==============================================================================
