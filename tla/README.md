# EcoWell smart water softener: TLA+ models, model checking and proofs

This directory specifies the EcoWell softener: a simulated device, its MQTT
client, a small broker, a backend and a dashboard.  The modules are translated
from the Python and JavaScript sources; `PROJECT.json` maps every definition to
the lines it stands for.

## 1. Inventory

### Components, their state and operations

| Component | Source | State | Operations |
|---|---|---|---|
| State machine | `device/state_machine.py` | `state`, `fault_reason`, `regen_start_time`, `last_regen_result`, `force_regen_fail`, `_power_was_on` | `evaluate` (once per tick), `start_regeneration` |
| Sensors | `device/sensors.py` | salt, pressure, TDS, flow, power; four debug flags | `update`, `reset_debug_flags`, `as_dict` |
| Safety gate | `device/safety.py` | none | `can_start_regeneration` |
| Device | `device/simulator.py` | the three above, times of the last warnings, OTA threads, one lock | `tick`, `handle_command`, `run_ota`, console, `telemetry_loop` |
| Persistence | `device/persistance.py` | `device_state.json` | `save_state` every tick, `load_state` at start |
| MQTT client | `device/mqtt_client.py` | `offline_queue` | `publish_json`, `on_connect`, `on_message` |
| Broker | `broker.py` | `clients`, `subscribers`, one buffer per connection | CONNECT, SUBSCRIBE, PUBLISH, PINGREQ, DISCONNECT, `_cleanup` |
| Backend | `backend/main.py` | `telemetry`, `alerts`, ring of 200 events | MQTT callbacks, GET routes, `/command` |
| Dashboard | `dashboard/app.py`, `static/dashboard.js` | cache of 200 events, what is on screen | poll every 1.5 s, command buttons, clear view |
| Others | `backend/{storage,routes,mqtt_handler,models}.py`, `device/{events,config}.py`, `start_all.bat`, `test_api.py` | | an older backend nothing imports, a log file, constants, a launcher, a script of requests |

### How they interact

The device ticks every two seconds: it samples the sensors, evaluates the state
machine, publishes events and telemetry over MQTT (QoS 0) and saves its state.
Broker and backend carry the messages into `Storage`; the dashboard's server
polls three routes of the backend and merges the answers; the browser polls the
dashboard's server.  Commands travel the other way: browser, dashboard, backend,
broker, the device's MQTT thread, `handle_command`.

Inside the device three kinds of thread meet: the telemetry loop, paho's network
thread (and the console), and one thread per OTA update that sleeps seven seconds
and then resets the state.  `Device.lock` makes each handler atomic.  The MQTT
client's `on_connect` is the exception: it runs on the network thread without
that lock and touches the queue the others append to.

### What is hard about it, and what makes each part correct

* **State machine and gate.**  An OTA thread resets the state under an outage, a
  fault or a running cycle; the power edge is remembered in a second variable;
  flags are toggled between ticks and the gate judges the last sample; the
  watchdog and the completion of a cycle race in the same tick; a crash leaves
  everything behind.  Correct means: no missed power edge, no cycle without
  power, faults that are latched, explained and announced, each cycle accounted
  for, and progress.
* **MQTT client.**  `is_connected()` is true before the queue has been flushed,
  the flush is not locked, packets in paho die with the connection.  Correct
  means: bounded and ordered store, no duplicates, and losses only where they can
  be explained.
* **Thresholds.**  Gate, alerts, health score, safety panel and sensor cards each
  repeat 15 %, 1.0 bar and 500 ppm with `<`, `<=`, `>` or `>=`, and only the gate
  sees salt unrounded.  Correct means: they never contradict one another by more
  than the rounding.
* **Backend and dashboard.**  Polls mix several reads, answers may arrive late,
  two events with the same second and message are one to the page, cleared events come
  back.  Correct means: no panel is older than the one beside it, nothing is listed
  twice, disorder can be explained, and the list settles.
* **The whole way.**  Processes start in any order and restart; a command is "sent"
  without a broker, or "failed" and executed all the same; an event is stored or
  published while the queue is flushed, and what was buffered may meet a broker that
  knows no subscriber.  Correct means: nothing is executed or stored
  twice, what is lost can be explained, and connections and subscriptions return.
* **Broker.**  One thread per connection, sockets written without the lock,
  subscriptions that change during a distribution, peers that fall silent without
  anybody asking, a variable-length codec.  Correct
  means: whoever is subscribed is served, packets are the frames that were written,
  and one slow or broken subscriber costs the others as little as possible.

`PROJECT.json` lists these hazards one by one, at their lines.

## 2. Modules

| Module | Role |
|---|---|
| `Lifecycle` | abstract: the phases of the softener with mains and brine, and nothing else |
| `Device` | state machine, sensors, gate, commands, OTA threads, persistence; implements `Lifecycle` |
| `DeviceProofs` | theorems about `Device` and `Assessment` |
| `Mailbox` | abstract: at-most-once delivery of numbered messages, with loss |
| `MqttClient` | `publish_json` and `on_connect` step by step, with paho's part external; implements `Mailbox` |
| `MqttClientProofs` | theorems about `MqttClient` |
| `Assessment` | how a sample is judged by gate, alerts, score, panel and cards |
| `Dashboard` | the backend's storage, the polls under way, and the page |
| `DashboardProofs` | theorems about `Dashboard` |
| `Broker` | connections, the registry of subscribers, and distribution outside the lock |
| `BrokerProofs` | theorems about `Broker` |
| `MCBroker` | the clients, filters and topics with which `Broker` is checked |
| `Framing` | the length codec, and how packets are cut out of a connection's bytes |
| `FramingProofs` | theorems about `Framing` |
| `Delivery` | how threads write frames to sockets that they share and that fill up |
| `MCDelivery` | the threads and their frames with which `Delivery` is checked |
| `DeliveryProofs` | theorems about `Delivery` |
| `System` | page, proxy, backend, broker and device on the way of a command and its answer; implements `Mailbox` in both directions |
| `SystemProofs` | theorems about `System` |
| `Selection` | `filter()` on sequences, as a recursive function |
| `SequenceLemmas` | lemmas about sequences that the proofs share, and induction |

The modules meet at their edges: `Device` publishes what `MqttClient` carries,
`Framing` cuts packets for `Broker`, which chooses the sockets that `Delivery` writes
to, `Assessment` judges a sample and `Dashboard` shows it.  `System` is the composition,
with each part as coarse as the whole allows.

### Device

Every action is one handler under `Device.lock`.  `Tick` is `Device.tick`: a new
reading (`Readings`, from `SensorModel.update`), one branch of
`StateMachine.evaluate` (one operator per branch, `PowerFails` to `StateKept`),
the predictive warnings, the save and the publication.  `AcceptRegeneration` and
`RejectRegeneration` are the `regenerate` command with the gate
`CanStartRegeneration`; `ToggleFlag`, `ToggleRegenFail`, `ResetDebug`,
`OtaUpdate` and `UnknownCommand` are the other commands.  `OtaComplete` is the end
of `run_ota`.  `Restart` is the end of the process at any moment and its next
start.  `TimePasses` lets the clock advance.

Abstractions:

* Readings are naturals in a unit so coarse that one tick moves a value by at
  most one.  Only the order of a value and its thresholds matters, and a walk in
  finer units crosses each threshold one after the other just as this one does.
* `water_flow` is 0 or 1 (none or some).  The code sets it to 0 in an outage and
  in a cycle and samples a positive number otherwise.
* Times are ages that saturate at the largest value the code compares with.
* `published` is the set of what the last handler published, by kind.
* `saved` is the state in the file; a crash inside `save_state` leaves `corrupt`.
* The lock is a `threading.Lock`; what an OTA thread publishes while it sleeps
  changes no state and is left out.

`fault_reason` is not cleared by an OTA update, so a device in MONITORING can
carry an old reason; `FaultHasReason` and `FaultAnnounced` say what does hold.

`Restart` and `ResetDebug` are what the code does: the saved state is read and printed,
and the device starts in IDLE; a debug reset clears the forced conditions and neither a
fault nor a lack of salt.  The documents promise more, see section 6.

### MqttClient

`publish_json` is called under `Device.lock`, so one call at a time: `Enter` is the
test of `is_connected()`, `Send` the `publish()`, `Store`, `KeepAll`, `Overflows`
and `Evict` the append and the size limit.  `OnConnect`, `FlushNext`, `FlushEnd`
and `Clear` are the callback, which interleaves with them at every step.
`LoseConnection`, `Reconnect`, `Connack`, `Transmit` and `Publish` are paho
(external): the connection state, the packets held for the socket, which a
reconnect discards, and a `publish()` that returns an error nobody reads when
there is no socket.  `EnterFromNetwork` is a publication from `on_message`: the
network thread then does nothing else.  Messages are numbers in the order of their
publication, so an order or a duplicate is visible in `delivered`.

### Assessment

The state is the last sample the device published, the telemetry made from it and
the alerts stored with it.  There are none before the first message (`Nothing`,
`Arrived`).  `UpdateTelemetry` replaces all three by those of any other sample (messages
in between may be lost).  `Samples` holds the samples that a tick can publish: the flow
is read before the state machine moves on, so it is 0 in an outage, in a cycle, and in
the tick that ends a cycle.  `RedCards` has the four cards that `loadDashboard` colours;
that of the flow has no alert behind it, and `CardsAgree` says when it is red.  Units are
fractions that make all thresholds and the rounding integral: salt in 1/100 % on the device and 1/10 % in
the payload.  `Rounded` is `round(salt, 1)`; which way a tie goes depends on the
binary representation, so both are allowed.

### Dashboard

`UpdateTelemetry` and `AddEvent` are the backend's MQTT callback; `AddEvent` cuts the
ring in the same step, under the lock of `Storage`.  A poll is a slot that moves
from stage to stage: `ReadTelemetry` and `ReadEvents` (the two acquisitions of the
lock in one request, between which messages may arrive), `ReadAlerts`, then `Show`
or `ShowNothing`, which is all of `loadDashboard` after its `await`: the panels and
`updateEvents` with its merge.  `RequestFails` is one request of the three that
fails, `PollFails` the browser's own request, `RestartBackend` an empty memory.

Left out: the read of the health score (a reader like that of the alerts, with no
state of its own), the command buttons, the download of the log.  Samples and
events are numbers; an event also has a key, the time and message by which the page
tells events apart, and `AddEvent` may give it that of any other event.  `late`,
`overtaken` and `skipped` are history: whether an answer was ever shown after that of a
later poll, and whether an event was ever left out because another with its key is
listed (`Mistakes`).  Such an event is not only missing: when its twin has been pushed
out of the list it comes back, as the newest.

`DashboardAssumption` has `RingSize <= CacheSize`, as in the code, where both are 200.
It matters: with a ring of three and a list of two, TLC finds the list out of order
without any late answer or shared key, because the part of the ring that the list has dropped comes
back with the next poll, behind newer events.

### Broker

Each connection is a thread with a place (`handler`): it receives, distributes or
cleans up.  `Connect`, `Subscribe` and `Publish` are one packet each.  `Publish` takes
the snapshot `list(self.subscribers.items())`; `NextFilter` is the second,
separate acquisition of the lock, one filter of the snapshot at a time; `Send` is
one `sendall`, outside the lock, with its errors swallowed.  `EndOfStream` and
`Cleanup` are the end of the loop and `_cleanup`.  The snapshot holds the sets
themselves, not copies: `Forget` says what becomes of a set whose filter is deleted
meanwhile (it stays empty; the next subscriber gets a new one).  The order in which
a snapshot is walked is left open.

A link is up, silent or down.  `Break` is an end of the connection that the broker's
host is told of; `FallSilent` is one that it is not told of, for a while (`ComeBack`) or
for good.  The broker sets no timeout on `recv` and ignores the keep-alive of CONNECT,
so it never finds out by itself: the connection stays registered, each distribution
goes on writing to it, and a `sendall` may not return once its buffers are full
(`Blocked`).

The clients keep to the protocol as paho does (CONNECT once and first, one filter
per SUBSCRIBE, QoS 0) and read at once while they are up, and a frame is
received or sent in one step:
`Framing` and `Delivery` have the bytes.

### Framing

The state is the byte stream of one connection (`wire`), the buffer of
`handle_client` and the packets cut from it.  `Recv` is one `recv`, which may return
any part of what is there up to `MaxChunk`; `Cut` is one round of the inner loop that
finds a packet, `WaitForMore` one that does not.  `EncodeRemainingLength` and
`LengthEnds` with `Remaining` are the codec.  The base of the digits is a constant: a
byte is a digit, plus `Base` if another follows.  `Write` and `Leave` are the client,
which writes the frames of `make_publish` and may go in the middle of one.  What is
done with a packet is in `Broker`.

### Delivery

A thread takes frame after frame (`NextFrame`), each for some sockets, and calls
`sendall` on one after the other (`SendAll`).  `Fill` is what the operating system
does of it (external): as many bytes as the send buffer has room for.  A thread that
must wait for room has left the socket to others, which is where two frames can mix.
`Fail` is the exception on a socket whose subscriber has gone.  `waited` is history:
the sockets at which a thread had to wait in the middle of a frame.  All frames have
one length here; what is in them, and who is to get them, is in `Broker`.

### System

`Press` is a click (`sendCommand`), `PublishCommand` and `LogSent` are the two
statements of the backend's `/command`, each of which other threads may precede,
`ShowSent` and `ShowError` the answer that reaches the page, or the proxy's timeout,
after which the backend's thread goes on.  `StartMqtt` is the backend's start, with
and without a broker.  `Connect` and `OnConnect` are paho's reconnect and the beginning of the
two `on_connect`s; `FlushNext`, `FlushEnd` and `Clear` are the rest of the device's, the
loop over its queue and the `clear()` after it.  `ReportOwn` is `publish_json` up to its
test of `is_connected()`, `PublishReport` and `StoreReport` what follows the test, each
a step of its own between which the network thread goes on.  `Route` is the broker, one
packet at a time for each connection; `HandleCommand` and `AddEvent` are the two
`on_message`s.  `LoseConnection`, `StopBroker`, `StartBroker` and
`RestartDevice` are the faults.

Abstractions: every command has one answer, an event (an OTA update's second event
is one of the device's own, `ReportOwn`); telemetry takes the same way and is left
out; `append()` with `pop(0)` is one step, since `MqttClient` has that race; both ends
see a broken connection at once (`Broker` has those that fall silent), the device's end
between callbacks, which is when paho's thread looks at its socket; the
backend does not restart once it runs (that is in `Dashboard`); the page sends only
commands that `ALLOWED_COMMANDS` holds, as its buttons do; a press on a page whose
backend does not run changes nothing and is left out.

### Variations

A definition marked "Variation" is a plausible slip in the code (a dropped check, a
missing reset, a swapped order).  None of them is used by a specification; with one
put in the place of the definition it varies, TLC finds the property it is listed
with in `PROJECT.json` violated.  That is how each property is known to say
something about the code.

## 3. Runs

| Run | Shows |
|---|---|
| `device` | all safety, action and liveness properties of the device and `ImplementsLifecycle`, with every kind of command, an OTA thread, crashes and late ticks |
| `client_safety` | order and bound of the store, the only ways to lose a message, the cost of the flush race, `ImplementsMailbox`, and `StoreEmptied` |
| `assessment` | the judgements agree on both sides of every threshold |
| `dashboard_polls` | what panels may mix, when the screen may go back, when the event list may be out of order, and that it settles |
| `broker_registry` | whom a message reaches, in which order, and which connections are forgotten |
| `framing_stream` | packets are the frames that were written, however the stream is cut |
| `delivery_sockets` | when frames mix, that no byte is missing, and when everybody is served |
| `system_commands` | commands and events through the whole system, under restarts and broken connections |
| `false_no_flow`, `reset_recovers`, `restart_resumes`, `dashboard_nominal` | counterexamples to what the repository says, see section 6 |

A property that is a conjunction of named parts is checked as a whole: `StateSound` is
`RunningIsPowered`, `FaultHasReason` and `CycleFresh`; `EventsTruthful` is `FaultAnnounced`
and `NoFlowOnlyAfterCycle`; `StoreSound` is `StoreOrdered` and `AtMostOneLeftBehind`;
`JudgementsAgree` is `AlertsFaithful`, `GradeAgrees`, `PanelSound` and `CardsAgree`;
`ListSound` is `ListedOnce` and `DisorderExplained`.

What the properties of the device mean, beyond types:

* `PowerEdgeInStep`: the edge detector and the sensor agree between handlers, and
  "power failure" is the reason exactly while the power is off.
* `RunningIsPowered`: a running cycle has power, a start time (without which
  `evaluate` raises and the loop would swallow it for ever) and no result yet.
* `LowSaltLockout`: salt at or below 15 % outside a cycle stays there until a
  restart.  Only a completed cycle refills salt and the gate refuses one; not even
  `reset_debug` helps, although `README.md:249` expects it to (run `reset_recovers`).
* `FaultLatched`: only the return of power, an OTA update or a restart leaves FAULT;
  not `reset_debug`, although `state_machine.py:133` says so (the same run).
* `WatchdogNeedsStall`: the 25 s watchdog fires only if the telemetry loop itself
  was late by more than the 10 s between the duration of a cycle and the timeout.
* `CycleAccounted`, `FaultAnnounced`, `NoFlowOnlyAfterCycle`: how a cycle may end,
  what the event stream tells, and when the no-flow alert is (falsely) raised.
* `ImplementsLifecycle`: no step of the device is anything but a step of
  `Lifecycle` (or invisible there), so a cycle starts only with mains and brine,
  brine returns only by a completed cycle or a reboot, and an outage always ends
  in FAULT.  A reboot starts in IDLE, whatever was saved (run `restart_resumes`).

Of a sample: `JudgementsAgree` and `ScoreMonotone`.  The flow card is the one judgement
without a counterpart: it is red in every outage and cycle, and in the tick that ended
one, and then there may be no alert at all.

Of the page: `AlertsNotStale` (the alert panel is never older than the telemetry
beside it), `BackOnlyByOverlap` (the screen does not go back in time unless an answer
was overtaken; the order is that in which the backend was given the messages, which the
device's flush may have changed before), `DisorderExplained` (nor is the list out of
order, unless an answer was overtaken or an event was taken for its twin), `ListedOnce`,
and `ListSettles`: the merge of a ring of 200 into a list of 200 ends, because what one
poll adds no later poll pushes out again.  `ListSettles` is also why cleared events
return with the next poll.

Of the broker: `AudienceServed` (a connection that lasts gets the message once for
each matching filter it held when the distribution began, whatever the registry does
meanwhile, and never more often than for those it holds), `PublisherOrder` (order per
publisher, no echo), `RegistryAgrees` (the two indexes say the same and are
cleaned), and `GoneIsForgotten`: a connection whose end the host is told of leaves the
registry, even out of the middle of a distribution, unless and as long as its thread is
blocked by a peer that has fallen silent.  One that is lost in silence stays.

Of the bytes: `InStep` (packets are the frames that were written, and what the parser
leaves in the buffer is a proper part of the frame that comes next), `FramesArrive`;
`WholeUnlessWaited` (two threads mix their bytes on a socket only if one of them had
to wait there in mid-frame: the send buffer, not a lock, keeps frames whole), `NothingTruncated`, and `AllServed`
(a subscriber that stalls blocks every
publisher that has a frame for it, but threads never block each other, and one that
goes holds up nobody).

Of the client: `FlushLosesAtMostOne` and `AtMostOneLeftBehind` are what the unlocked
flush can cost: one message cleared unsent, one left in the store until the next
connection, never more.

Of the whole system:

* `AtMostOnce`: commands and events are mailboxes.  A press is executed at most once
  even if the page has reported an error; an event that was buffered is not stored
  twice.
* `LossExplained`: a command or an event is lost only with the connection it was on,
  for want of a subscriber at the broker, because there is no socket when it is
  published (the backend does not ask; the device asked too early), because the
  device's queue is full, by the `clear()` that follows the flush, or with the device's
  process.  What the page shows makes no difference to it.
* `AnswersExplained`: an answer may be stored before the line that says that its
  command was sent, because `/command` publishes first; but then that line is about
  to follow, even if nobody waits for the request any more.
* `Recovers`: once the broker stays up, connections, subscriptions and queue return to
  normal without help, but for one event at most that was stored after the flush and
  waits for the next connection.  Only a backend that started without a broker stays deaf until
  it is restarted, because `loop_start` comes after the `connect` that raised.

### Bounds

* Device: salt 0..2, pressure 0..1 and TDS 0..1 put one value in every interval the
  thresholds make (at or below 15 %, up to 25 %, above; below and above 1.0 bar;
  below and above 500 ppm).  `RegenDuration` 2 and `RegenTimeout` 3 leave a slack as
  15 s and 25 s do, and `MaxTickGap` 2 makes ticks late enough for the watchdog.
  One OTA thread at a time: two end in the same reset, one after the other, which
  one thread that is started twice also does.  The warning gaps are 0 in the runs;
  no property depends on them, and the proofs hold for every value.  Of the four
  flags of the sensors the run has those of salt and power: pressure and TDS take all
  their values by themselves, and that a flag overrules the sensor until it is toggled is
  the same for each.  The runs that end in a counterexample have the commands they need.
* Client: a store of two, five messages and two broken connections: the store
  overflows, in the middle of a flush too, and a second outage follows a flush.
* Assessment: values on, just below and just above each threshold and each tie of
  the rounding.

* Dashboard: two polls at once, ring and cache of two, and five happenings: samples,
  events and incidents (failed requests, restarts, clicks).  A late answer can bring
  back what the list has dropped, and a failure can meet it.  Five are what a twin
  needs: a sample, so that the page shows events at all, two events with one key, and
  two more that push the first of them out of the list.
* Framing: `Base` 2 in the place of 128.  Lengths 0 to 15 are then all that four bytes
  can say, and both sides of 2, 4 and 8 take the place of both sides of 128, 16384
  and 2097152; the codec uses its base in no other way.  Bytes 0, 1 and 3 are a digit
  that ends a length, another, and one that continues it, so payloads look like
  lengths.  A read of up to 8 bytes may be a part of a frame or hold two of them.
* Delivery: a thread with two frames and one with a single frame, two subscribers,
  frames of 2 bytes and room for 3.  After one whole frame there is room for half of
  the next, whose thread has to wait in its middle, and a third frame can get there
  first; two stalls or departures.
* System: two presses, three messages in all, a queue of two, two incidents: the broker
  restarts and a connection breaks while the other client is on its way back.  With a
  queue of two, one event can be flushed, a second be appended after the loop and be
  cleared, or a third push out one of them under the loop.
* Broker: three clients, two messages.  The device publishes events to two
  clients that share a filter, so that a filter outlives one of its sockets; one of
  them holds an overlapping filter with both wildcards, which matches its own
  publications too.  The backend publishes commands to the device at the same time,
  so two distributions interleave.  The second subscriber of events is the peer that may fall
  silent.

### Fairness

* `WF_vars(Tick)` and `WF_vars(TimePasses)`: `telemetry_loop` is an endless loop that
  catches every exception of `tick` and then sleeps.  No fairness is assumed of
  commands, of the end of an OTA update, of restarts or of sensor values.
* `WF_vars(Publisher)`: a call of `publish_json` that has begun goes on.
  `WF_vars(Network)`: paho's thread, started by `loop_start()`, reconnects, calls
  back and writes for ever.  Nobody has to publish; connections break finitely often.

* `WF_vars(StartPoll)`: `setInterval` never stops.  `WF_vars(Advance(s))`: each
  request of a poll is answered or runs into its timeout.  Nobody has to publish.
* `WF_vars(Work(s))`: the thread of a connection goes on, and reads a stream that
  has ended to its end.  Nothing is promised of a thread that waits for a peer: none of
  `recv` while the link is up or silent, none of `sendall` to a silent peer.  Nobody has
  to send, links need not break, and a silent peer need not come back.

* `WF_vars(HandleClient)`: a connection's thread reads on.  `WF_vars(Work(t))` and
  `WF_vars(Read(s))`: threads go on, and a subscriber that has not stalled reads.
  `Fill` is part of `Work`: a thread that waits for room is woken when there is some.
* `System`: request threads (`Serve`), paho's threads (`Connect`, `OnConnect`, `Flush`,
  `HandleCommand`, `AddEvent`), a call of `publish_json` that has begun (`PublishReport`,
  `StoreReport`) and the broker's threads (`Route`) go on.  Nobody has to press a
  button or to start the broker, and the proxy's timeout need not strike.

Deadlock is checked in every run.  In the modules that stop when their bounds are
reached, an action `AllSent`, `AllDone` or `AllRead` marks exactly that.

## 4. Proofs

`DeviceProofs` holds for all thresholds, durations, bounds and command sets that
satisfy `DeviceAssumption` (the order of the thresholds and of the values that
`reset` and `force` put there; a cycle shorter than its timeout).

* `TypeCorrect`: `TypeOK` is inductive by itself.  The lemmas `ReadingsType` and
  `EvaluateType` say what a sensor step and a whole `evaluate` may leave.
* `Invariance`: `IndInv` is `TypeOK` and four facts, none of which is inductive
  alone.  A cycle stays powered only because the edge detector is in step with
  the sensor, else the tick that senses the outage would be a `PowerStaysOff` and
  leave the cycle running; a fault keeps its reason for the same reason; and
  `CycleFresh` (at the last tick a running cycle was not yet due) is what remembers,
  between ticks, that the previous tick would have completed an older cycle.
* `PowerEdgeCorrect`, `RunningCorrect`, `FaultCorrect`, `FreshCorrect` follow, and
  `StateCorrect` from the last three.
* `WatchdogCorrect` is arithmetic from `CycleFresh`: an age of at least
  `RegenTimeout` that was below `RegenDuration` one tick ago.
* `LockoutCorrect`, `LatchCorrect`, `NoFlowCorrect`, `AccountingCorrect`,
  `AnnouncementCorrect`: one case per action, from the same invariant; `EventsCorrect`
  joins two of them.
* `LifecycleImplemented`: step by step, each action is a step of `Lifecycle` or
  leaves its variables alone (`TickRefines`, `NextRefines`).

Its last part is about `Assessment`, and proves the agreement of the judgements for
all readings whatever: `AlertsCorrect`, `PanelCorrect`, `CardsCorrect` (with the flow card,
from what `Samples` says of a flow of 0), `ScoreCorrect` (the score never rises when
nothing has got better), `GradeCorrect`, and `JudgementsCorrect` for all of them but the
score.

`SequenceLemmas` holds what the other proofs need of sequences.  Its base is
`Induction`: a set that holds 0, and with every number the next, holds all.  It follows
from the well-foundedness of inclusion among finite sets (`LeastNumber`), so that no
theorem has to be instantiated with an operator.  With it, the recursive function in
`Selected` is shown to hold the right elements (`SelectedHolds`), in their order
(`SelectedOrdered`), one more of them when the sequence has one more
(`SelectedAppend`); `Distance` says that increasing numbers are at least as far apart
as their places.

`MqttClientProofs` holds for every size of the store and any number of messages and
broken connections.  `IndInv` says where a message can be while `publish_json` and the
flush are both under way.  At its core are two conjuncts: what the flush has not reached
was not sent (`FlushAhead`), and what it has passed was sent, but for one message
(`FlushBehind`): the one that moved under the iterator when the oldest was evicted or,
once the iterator is exhausted, the one that was appended.  Where the call is (`step`)
tells which of the two.  From there:

* `TypeCorrect`, `StoreIsSound`;
* `LossIsExplained` from what each step does to the messages that still exist
  (`HeldSteps`), and `FlushCostsAtMostOne` from the last part of `FlushBehind`;
* `MailboxImplemented`: each step accepts the new message, delivers one that was
  pending, loses some, or does nothing in the mailbox (`MailboxStep`).

`BrokerProofs` holds for any set of connections, whatever they subscribe to and
publish.  `RegistryAgrees` is almost inductive.  `PublisherOrder`
needs that a number belongs to one distribution and that no message of a publisher is
newer than the one its thread distributes (`Numbered`).  `AudienceServed` is about the
last step of a distribution; the invariant `Served` is what holds during it: the
copies that a connection that is not down has, or is about to get, lie between the number of filters
visited of those it held at the beginning and of those it holds now, which
`AudienceStays` keeps apart from what other threads do to the registry.
`TypeCorrect`, `RegistryCorrect`, `OrderCorrect` and `AudienceIsServed` follow.

`FramingProofs` holds for every base above 1, every set of lengths that four bytes can
hold, any bytes, reads of any size and any number of frames.

* The codec is taken apart one digit at a time (`Division`, `LeftFacts`, `EncodeFacts`) and
  put together again (`Decoded`).  `CompleteFrame` joins both sides of it: in data
  that begins with a frame, or is a part of one, `Complete` finds the frame if it is
  all there, and otherwise nothing; a length that is cut off in its middle is
  never taken for a shorter one.
* `IndInv` says that the packets are the first frames (`PacketsAreFrames`), and that
  buffer and wire hold the others one after the other, up to where the client left
  (`StreamJoined`).  To say this without a recursive sum of lengths, the invariant claims
  that there are places at which the frames end (`Joined`); a packet that is cut, or a
  frame that is written, moves them.  `InStep` needs in addition that a read waits with
  less than a frame (`LessThanFrame`).
* `PacketsCorrect` is `InStep`.

`DeliveryProofs` holds for any threads, any subscribers (there must be one), any length
of a frame and any room.  `IndInv` accounts for every byte: what a thread has
left to send is what the stream lacks (`Accounted`), a frame goes to each socket once
(`NotAgain`, `Unsent`), and a socket where no thread waited holds a multiple of a
frame's length, with none begun (`WholeFrames`).  `TypeCorrect`, `WholeFramesCorrect`
and `NoneTruncated` follow.

`SystemProofs` holds for any number of presses, messages and incidents and every size
of the queue.  `IndInv` says that packets need a connection, that each topic has one
direction, that a command or an event is in one place at a time (`CommandsOnce`,
`EventsOnce`; an event that `publish_json` is busy with is a place of its own), and
where the line "sent" of an answer is (`AnswersSound`).

* `TypeCorrect`, `AnswersCorrect`;
* `LossCorrect` compares what is pending before and after each step, the two steps of
  `publish_json` and the three of the flush among them;
* `MailboxesImplemented` is two refinements with the same abstract module, one lemma for
  each (`CommandsMailbox`, `EventsMailbox`): what the mailbox accepts, holds and has
  delivered is computed from requests, queue, links and store, so one packet moved by
  one thread must turn out to be a delivery, a loss or nothing.

`DashboardProofs` holds for any number of polls at once, of messages and failures, and
for every ring and list of which the ring is not the longer.

* `AlertsCorrect` and `BackwardsOnlyByOverlap` rest on `SamplesSound`: the sample of a
  poll is not newer than its alerts, and not older than the page's unless the poll was
  overtaken.
* `ListCorrect` rests on two facts.  Ring, and copies of it, hold consecutive numbers
  (`Consecutive`); and as long as no answer came late and no event was left out for its
  twin (`OrderSound`), what the page does not list is newer than what it lists
  (`Ahead`), and what has come into the ring since a poll read it is newer than what the
  poll brings (`Overlaps`).  `MergeKeepsAhead` is the step that needs
  `RingSize <= CacheSize`: an event of the ring that the cut pushes out of the list would
  have a whole list of newer ones behind it, up to the last event of the answer, which
  therefore would be longer than the ring.

What stays with TLC:

* liveness, which the prover cannot do under fairness: `CycleEnds`, `PowerRecovers`,
  `StoreEmptied`, `ListSettles`, `GoneIsForgotten`, `FramesArrive`, `AllServed` and
  `Recovers`;
* the counterexamples of section 6.

Every inductive invariant was checked with TLC on the instance of its component's run,
or on smaller ones, before it was proved.

## 5. Not modelled, and why

* QoS above 0 (no client uses it), and UNSUBSCRIBE, which the broker ignores.
* That the page goes on to show the last sample as live when telemetry has stopped:
  the code has no age or timeout that a property could refer to.
* The routes without state (`/`, `/health`, `/device-logs`, `/api/logs/download`) and
  the rejection of commands that are not in `ALLOWED_COMMANDS`.
* Clients that break the protocol (a second CONNECT, a SUBSCRIBE before it), for
  which `_cleanup` leaves entries behind.
* `backend/storage.py`, `routes.py`, `mqtt_handler.py`, `models.py`: an earlier
  version that nothing imports.
* `events.py` (a log file nobody reads back), `config.py` (its thresholds and
  regeneration times are not used), `start_all.bat`, `test_api.py`, HTML and CSS.
* The textual `health_hint`, the OLED print-out, timestamps and wording.
* The moment at start-up when the network thread runs and the device does not
  exist yet; and a clock that is set back (`time.time()` is not monotonic).

## 6. Where the code and its documents disagree

Each item of this list is a run that ends in a counterexample.

* `false_no_flow`: the tick that completes a cycle has sampled the flow as 0, because
  the cycle was still running, and then warns of it, because it no longer is
  (`simulator.py:136`, "only in MONITORING, power on, non-regen").
* `reset_recovers`: after "Reset Debug Conditions" salt should recover and the safety
  checks pass (`README.md:249`), and FAULT should be left (`state_machine.py:133`,
  "manually recovered via reset_debug", and `diagrams/architecture.md:86`).  The trace has
  a device in FAULT and out of salt, which a reset leaves in both, for ever: salt is
  refilled by a completed cycle only, and the gate refuses one without salt; FAULT is
  left with the return of power, by an OTA update or by a restart only.  The test of
  `Submission_Report.md:108`, which switches a forced low pressure off and then
  regenerates, fails for the same reason.
* `restart_resumes`: "device resumes last known state on reboot" (`persistance.py:3`),
  "resumes from where it left off" (`Submission_Report.md:91`), also "during a cycle"
  (`Submission_Report.md:109`).  The device reads the file, prints the state, and starts
  in IDLE.
* `dashboard_nominal`: when the request for the alerts fails, `app.py` answers with an
  empty list, and the page says "All systems nominal" beside an alarming sample.

Bounded by properties that hold, and without a run of their own: an OTA update that
ends in an outage sets MONITORING but not the edge detector, so an outage that is
forced again before the next tick leaves the device in MONITORING without power
(`PowerEdgeInStep` has the exact relation; `Submission_Report.md:70`, "entered
immediately"); a message stored between the end of the flush loop and `clear()` is lost
(`FlushLosesAtMostOne`, `LossExplained`; `Submission_Report.md:90`, "ensuring no data
loss"); one stored just after the flush waits for the next reconnect
(`AtMostOneLeftBehind`, `Recovers`; `README.md:261`, "automatically flushes all stored
messages"); what is flushed before the backend has subscribed is discarded by the broker
(`LossExplained`; `README.md:261`, "doesn't lose telemetry"); and new messages overtake
the stored ones while the queue is flushed (`README.md:261`, "in chronological order").

Seen while reading: `start_all.bat` serves the Flask backend with uvicorn
as if it were an ASGI application and never reaches `start_mqtt()`, which only
`python main.py` calls; the "persistent" activity log (`README.md:265`) is truncated at
every start of the device (`events.py:23`); the page says "sent successfully" of a
command that the device then rejects (`Submission_Report.md:107` expects a red box);
events that were cleared come back with the next poll (`dashboard.js:81`, "New events
will appear below"); a running cycle does not look at the pressure, although FAULT is
"entered immediately during low pressure" (`Submission_Report.md:70`); a cycle can start
from IDLE (`diagrams/architecture.md:99`); packets that paho holds are lost with a
connection (`README.md:261`; `LossExplained` says exactly when); a connection that is
lost in silence is registered at the broker until the host finds out, because nothing
asks for the keep-alive of its CONNECT (`broker.py:171`); `Submission_Report.md` names
350 ppm where the code has 500.

## 7. Plan

Done: all modules of section 2, and the proof of every safety invariant, action property and
refinement that the runs check.

Next: the modules' meeting edges.  `System` carries packets one by one where `Framing` and
`Delivery` have bytes, and ends connections at both ends where `Broker` has peers that
fall silent.  Theorems
that state what the one assumes of the other (frames arrive whole, in order and once;
a flush leaves at most one message) with the same words as the theorems that
exist would close the argument from the device's queue to the page.
