# ESP12-Blink / Mochi-Metrics: TLA+ models and proofs

The repository is a desktop monitor. **Senders** (Go or Python) read CPU, RAM,
GPU, network and disk figures of a computer and publish them over MQTT once a
second. The **firmware** of an ESP8266 joins the WiFi, subscribes to the senders
and shows them on a 240x240 screen, with a web interface for setup and status.
This directory holds TLA+ models of the firmware's control logic
(`apps/firmware/`), the TLC runs that check them, and TLAPS proofs.

Paths below are relative to `apps/firmware/src/include/` unless they say more.
Run a model with `tlc -config X.cfg M` and check proofs with `tlapm M.tla`.

## 1. Inventory

| Component | State | Operations | What makes it correct |
|---|---|---|---|
| MQTT transport (`mqtt_transport.h`, `class MQTTTransport`) | `_state`, the pending retry and its time, failure counter, timestamps of handshake, last message, housekeeping | `connect`, `loop`, `onConnect`/`onDisconnect`/`onMessage`, `scheduleReconnect` | a retry is pending exactly while it is disconnected; timeouts end dead attempts and sessions, never early; it reconnects |
| Fragment reassembly (`mqtt_transport.h:41-66`) | `_msgBuf`, `_msgBufLen` | `onMessage` | a message is handled once, and as it was sent |
| Connection policy (`../../include/connection_policy.h`) | none | elapsed-interval tests, AP decision, topic syntax, a delay function only a unit test calls | agrees with the code that uses it |
| Startup (`main.cpp`) | `startupState`, attempt and cycle counters, `currentMode` | `setup`, `processStartup`, `loop` | always ends; wipes credentials only after all attempts |
| WiFi manager (`wifi_manager.h`) | `ssid`, `isAPMode`; `/wifi.json`; the SDK's own flash sector | `load`, `save`, `startConnect*`, `pollConnect`, `reset`, `startAPMode` | joins the saved network; a device without one offers its access point |
| Web server (`web_server.h`) | WiFi apply machine, `_wizardMode`, `_pendingRestart` | `/save`, `/api/v2/config`, `/setup-complete`, `/reboot`, `/factory-reset`, status, SSE, MQTT test | reports what happened; a change reaches flash and takes effect |
| Configuration (`monitor_config.h`) | `config`, `_needsSave`; `/monitor_v2.json` | `load`, `save`, `loop`, `addAvailableTopic`, `purgeExpiredAvailableTopics`, `getOrCreateDevice` | nothing that was saved is lost; arrays are never overrun |
| Device store (`device_store.h`) | eight slots with frame, online, dirty mask | `updateFrame`, `markOfflineExpired`, `getOnlineByIndex` | shows selected hosts only; a selected host finds a slot |
| Metrics parser (`metrics_parser_v2.h`) | none | JSON to fixed-point integers | pure conversion |
| Monitor display (`monitor_display.h`) | current index, lock, redraw flags, last drawn host | `loop`, `nextDevice`, `toggleLock`, `notifyMetricsUpdated` | what is on screen is current and belongs to the named host |
| Touch sensor (`touch_sensor.h`) | baseline history, debounce counters | `poll` | one event per press |
| Screen driver, fonts, QR code | none of interest | drawing | pixels |
| Web pages (`apps/firmware/web/`) | browser state | the requests above | sends what it shows |
| Senders (`apps/sender/`) | last sample | sample, publish | rates are right |

**How they interact.** `main.cpp` runs everything from one `loop()`: the startup
machine until it is `DONE`, then web server, touch sensor, transport,
configuration and display in this order. The web handlers and the MQTT client's
callbacks run *between* these calls (whenever the loop yields), or inside
`_client.loop()`. The transport's message handler writes the configuration
(topics, device entries) and the store; the display reads the store and writes
the configuration as a side effect of looking a host up; the web handlers write
the configuration and schedule a restart; a deferred save writes it to flash
5 s later at the earliest.

**What is hard.** Callbacks that interleave with `loop()`, which works with a
timestamp taken before they ran; timestamps that wrap; two writers of
`_state`; two stores of WiFi credentials and a configuration file that different
requests and a deferred save write in any order around a restart; fixed arrays
of 8 and 16 entries for any number of hosts; requests refused after they
changed half of RAM; power cuts. `PROJECT.json` lists each hazard at its line,
with the properties that cover it or the reason why none does.

## 2. Modules

| Module | Models | Uses |
|---|---|---|
| `MillisClock` | `millis()` arithmetic: modular difference, read as unsigned or signed | |
| `ConnectionPolicy` | the pure decisions of `connection_policy.h`, the shift of `scheduleReconnect` | |
| `MqttTransport` | the connection life cycle | both above |
| `ReconnectContract` | abstract promise of the transport: off, waiting, attempting, up | |
| `ReconnectBackoff` | the failure counter and the delay at their real widths | `ConnectionPolicy` |
| `FragmentReassembly` | the buffer that puts the fragments of a message together | |
| `MqttSession` | sessions that end in the middle of messages and are retried | both above |
| `WifiSetup` | startup, WiFi join, AP mode, `/save`, restarts, resets | `ConnectionPolicy` |
| `DeviceRegistry`, `MCDeviceRegistry` | configuration, file, selection, subscriptions, config requests | |
| `DeviceStore` | the slots in their order, online flags, dirty marks | |
| `MonitorDisplay` | carousel, lock, redraw flags, a screen that is half drawn | `DeviceStore` |
| `TouchSensor` | one poll: baseline, confirmation, tap, long press | |
| `MqttTransportProofs`, `MqttSessionProofs`, `WifiSetupProofs`, `DeviceRegistryProofs`, `MonitorDisplayProofs`, `TouchSensorProofs`, `ReconnectBackoffProofs` | theorems about the module of that name | TLAPS |
| `TransportTimingProofs` | the durations of the transport | `MqttTransportProofs` |

Definitions marked "Mutant of X" are deliberate bugs (a dropped guard, a counter
that is not reset). No specification uses them; putting one in the place of X
makes TLC report the property it is paired with in `PROJECT.json`, which shows
that the property depends on the code it is about.

### MqttTransport

One variable per field of `MQTTTransport` that a branch reads. `loop()` takes
`now`, calls `_client.loop()` (which runs callbacks and takes time) and then
decides, so it is two steps, `LoopBegin` and `LoopEnd`, with callbacks and
ticks between them; `LoopEnd` has one action per branch of the code
(`LoopWifiLost`, `LoopWaitForClient` for the early return, `LoopAttempt`,
`LoopTimeout`, `LoopSilence`, `LoopQuiet`), each with `Housekeeping` where the
code reaches it. `client` abstracts espMqttClientAsync to four states, and is
modelled from how the firmware uses it. `ConnectRefused` covers both the low-heap
return and a client whose `connect()` returns false. A timestamp that no branch
can read any more is set to 0, which only merges states that behave alike.

`ReconnectContract` is the abstract specification. `Phase` maps the transport's
state to it (`KeepsContract`).

### MqttSession: ReconnectBackoff and FragmentReassembly

`ReconnectBackoff` is `_consecutiveFailures` and `delayMs`, in milliseconds, with a
32-bit word and the ceiling of 250. C leaves a shift by 32 or more undefined;
`BackoffDelays` allows both outcomes a build produces (0, or the shift count
modulo 32).

`FragmentReassembly` is `onMessage`: a message that fits one fragment is passed on
at once, one in several fragments goes through `msgBuf`, one that is too long is
dropped. A byte knows which message it belongs to and at which place, so joining
two messages shows. The client (external) delivers fragments in order and without
gaps, and a session that ends cuts a message short. No disconnect clears the buffer.

`MqttSession` composes the two: `OnDisconnect` schedules a retry *and* cuts the
message. When sessions begin and end is decided in `MqttTransport`; here they do
so at any time, which allows more than the code.

### WifiSetup

Three kinds of state: what survives a restart (`wifiFile`, `sdkSsid`,
`monitorFile`), the radio (`reachable`, `station`), and the RAM of one boot.
`MountStorage`, `LoadConfig`, `SaveConfig`, `SaveConfigFails`, `Joined` and
`StartAp` are the operations of `WiFiManager`; a save that fails leaves the old file, none, or
the new name. `ProcessStartup` has one action per state of `processStartup()`;
`Web` has one per handler, with the three branches of `processPendingWifiApply`
as `ApplyStart`, `ApplySuccess` and `ApplyTimedOut`. `PowerCycle` cuts the power
in any state but the first. Whether `WiFi.disconnect()` forgets the SDK's stored
network depends on the version of the Arduino core: `DisconnectErases` is the
set of behaviours allowed, and every place that drops a network goes through `DropNetwork`.
`Mounts` says whether LittleFS mounts at a boot. A network in reach is joined before the attempt
times out: wrong passwords and joins slower than the timeout are networks out of reach, so
`SavedNetworkJoined` says nothing of them. Deadlines are steps that may come at any time.
`_restartAt` is therefore only the flag `pendingRestart`.

### DeviceRegistry

`config` and `file` are records of what selects hosts: whether a broker is set,
`allow` (`subscribedTopics`), `listed` (`availableTopics`), `entries`
(`devices`) and `enabled`. A file that is missing or unreadable loads as the
defaults, so `file` holds `Defaults` then. `Receive` is the whole of
`handleMessage`: topic check, `AddAvailableTopic`, `GetOrCreateDevice`,
`AutoEnable`, slot. `SavePage` and `SaveWizard` are the two pages that post to
`/api/v2/config`, `RejectConfig` the request that is answered with 400 after the
broker and some topics have been written; the posted broker may be empty in each of
them. A write has three outcomes (`Written`): in full; short, which `save()` does not
notice; not opened. `Reboot` covers the
scheduled restart, the watchdog and power cuts. LittleFS replaces a file only
when it is closed, so a power cut during a save keeps the old one. The order of the lists
matters only to what their caps drop, and that is any choice here
(`Truncations`). A page may have been loaded at any earlier time, so its rows
are any set of hosts.

A deferred save is two steps, `BeginSave` and `EndSave`. Between them `loop()` is in
the file system, and the flash access of the ESP8266 core yields
(`optimistic_yield`): messages and requests come in, and `_needsSave = false` after
`save()` clears the mark of whatever they changed. The core is not part of the
repository, so this is modelled as something that may happen. Requests save in a
callback, which does not yield. If one writes or removes the file while a deferred save
is under way, either of the two may prevail. Purges, the display's visits and
giving up belong to `loop()` and do not happen then.

What remains of the 5 minutes after which a topic expires is that any listed topic that
is not selected may expire; a time would add nothing that a property sees. Without a
broker `loop()` of the transport returns before the retry, which stays pending: only a
broker taken away between that test and `connect()` ends the retries (`GiveUp`).

History: `partial` (a refused request changed RAM), `unsaved` (the last write failed,
was skipped, or had begun before the last change), `resetAsked` (the user last asked
for a factory reset, and no save was under way), `accepted` (the broker and the
selection that the last accepted request saved) and `doubtful` (the copies that may
hold another: RAM after a refused request, the file after a short write, and whatever is
written from a doubtful copy). `SelectionDurable` compares the file with `accepted`, not
with RAM: a refused request leaves its selection in RAM, and a deferred save then makes
it permanent. The code does this; the property names it as an exception.

### DeviceStore and MonitorDisplay

`DeviceStore` keeps what `MonitorDisplay` needs of the store: hosts in the order
in which they got a slot, `online`, and `dirty`, the rows of the screen and the
online bit. Which hosts may have a slot is the business of `DeviceRegistry`; here
any may, and every one in a slot is enabled (`Listed` are the hosts with an entry
in the configuration, which the OFFLINE screen asks for).

`MonitorDisplay` has a step for each thing `main.cpp` lets happen: `Tap` and
`LongPress` (with the message it puts on the screen, until `SplashOver`),
`AutoRotate`, `Refresh` with its three screens, and `DrawRow`. `showDevice()`
yields while it draws, so it is not atomic: `ShowDevice` clears the marks
and draws the header, then each `DrawRow` draws one row, and `Receive` may come in
between. `stale` holds the rows whose figures on the screen are not the last ones. The intervals of
the refresh and of the carousel "have passed" whenever a step is taken. Left out:
the footer, and `_pendingVisibleUpdate`, which only shortens an interval.

### TouchSensor

A reading is any value of the converter up to `MaxRaw`. The history is kept as
`since[r]`, the readings since the last one of `r` or less, which is all that the least
of the last `HistSize` readings needs: a value falls out of it after `HistSize` readings. `baseline` is that
minimum as it stood at the last reading, `hits` the 8-bit `_confirmHits`, which wraps at
`HitsModulus`. A level that keeps rising by `Threshold` above the minimum holds the
press beyond the length of the history, and the counter past it. `streak` is history: how many
readings in a row were above the threshold. `DebounceExact` says what the counter and its wrap
come to: the sensor is touched exactly while at least `ConfirmCount` of them were.

`PollLongPress` is the test before the interval of the readings,
`PollEarly` the early return, `PollReading` the rest. Timestamps are ages which stop growing where no
branch tells them apart. Time passes between two polls in any amount: a stalled
`loop()` is included.

## 3. Runs

| Run | Question | Result |
|---|---|---|
| `transport_structure` | does any interleaving of loop, callbacks, WiFi changes and server edits lose a retry, disagree with the client, or leave the contract? | holds |
| `transport_liveness` | do handshake and silence timeouts end what they must, never early although `now` is old; does it reconnect, and does the offline check go on, when the client notices a lost TCP connection? | holds |
| `transport_blip` | and without that assumption? | **violated** |
| `mqtt_session` | is every message handled once and whole, whatever an older session left in the buffer? Does the delay grow? | holds |
| `backoff_documented` | is the delay 1 s to 5 s after any number of failures? | **violated** |
| `wifi` | are credentials wiped early, is AP mode lost, is success reported for the wrong network; does startup end, is a saved network joined? | holds |
| `wifi_reset` | does a factory reset, with the file system mounted, lead to AP mode? | **violated** |
| `registry_safety` | with more hosts than slots, requests refused or half saved, messages and requests in the middle of a save, and power cuts: is anything lost in a way that is not named, does the file keep the last accepted selection, are only selected hosts heard and shown, and is a broker that was set used? | holds |
| `registry_reset` | does a factory reset forget the broker? | **violated** |
| `touch` | whatever the ADC reads, and over wraps of the counter: is a press what the debounce says, one event at most, none swallowed, and does it end? | holds |
| `display` | with messages arriving while a screen is half drawn: is a figure left stale, drawn under another name, a host left out of the carousel? | holds |
| `display_lock` | does the locked screen keep showing the locked host? | **violated** |

### The five violations

- **`transport_blip`**: after the WiFi guard has set `DISCONNECTED`, the client
  is left to find out by itself. If WiFi comes back before it does, the client
  stays connected, the scheduler's `if (!_client.disconnected()) return;` is
  taken on every call, and the device stays disconnected for ever (and the
  offline check behind that return does not run).
- **`backoff_documented`**: `1000 << (failures - 1)` loses bits from the 30th
  failure on and is undefined from the 33rd; the delay becomes 0 where the docs
  say 1 s to 5 s. It takes a couple of minutes of an absent broker.
- **`wifi_reset`**: the factory reset leaves the credentials in the SDK's flash
  sector, which the next boot joins in `TRY_SDK`. The run mounts the file system in
  every boot (`Mounts = {TRUE}`), so the file is removed as it should be. This shows on cores whose
  `WiFi.disconnect()` keeps the stored network (`DisconnectErases = {FALSE}`).
- **`registry_reset`**: the factory reset removes the file but not RAM or
  `_needsSave`. A deferred save that is pending, or becomes so, writes the broker, topics
  and devices back in the two seconds before the restart.
- **`display_lock`**: the lock keeps `_currentDevice`, an index into the hosts that
  are online, and only notes the name (`monitor_display.h:44`). When a host in an earlier slot comes
  or goes the same index is another host, shown under LOCK.

Three theorems say how far the damage goes: with a core that erases and a file system that
mounts, a factory reset leads to AP mode unless credentials are saved between it and its
restart (`ResetConfined`); the broker comes
back only through a deferred save that begins after the reset (`OnlyASaveUndoesReset`); up to the 29th
failure in a row the delay is the documented one (`DelayIsDoubled`).

### Bounds

- *Transport*: the unit of time is scaled; `BaseDelay = 2`, `MaxDelay = 3`,
  `ReconnectingTimeout = 2`, `SilenceTimeout = 3` stand for 1 s, 5 s, 5 s and
  15 s: no branch compares two of them, and each is at least as long as the
  longest stall. `Modulus = 12` is just wide enough for the longest interval and its stalls
  (`TimingAssumption`), so the signed comparison is exercised on both sides of a wrap and every run wraps many
  times. `MaxStall = 1` bounds the ticks between two steps of `loop()`; the timing
  bounds are stated with `Slack = 3 * MaxStall`, which is tight.
  `MaxFailures = 3` reaches the ceiling, `WordBits = 3` a shift that loses bits.
  `ServerEdits` turns configuration changes off where a property needs a
  server that stays.
- *Session*: real values for the delay, and the counter's 251 values are all
  reached. Payloads of up to 5 bytes for a buffer of 4 stand for 1024: a message
  that fits, fills and exceeds it, in any split, with a rest of any length of
  another. Two messages suffice, since the buffer never holds bytes of more than one.
- *WiFi*: two networks (one saved, one other), the real attempt counts (3 saved,
  2 SDK, 2 cycles), both behaviours of `WiFi.disconnect()`, a file system that mounts in one
  boot and not in another.
- *Registry*: three hosts for arrays of one, so that every array can be full with hosts
  left over and lists of topics can be too long. Lists of two are in `registry_reset` only;
  the theorems hold for any sizes, which is why the run can spend its states on the two
  steps of a save.
  `MaxRequests = 1` request per boot in the large run (any number of boots), two
  in `registry_reset`. Hosts are interchangeable, so symmetry is sound; no
  liveness is checked under symmetry.
- *Touch*: the real durations, in units of 100 ms. Five values of the ADC and a threshold of
  two, so that a level can rise by the threshold twice; a history of 5 for 20; a counter that
  wraps at 5 for 256, with the real 3 readings to confirm. A press can be longer than the
  history and the counter can wrap within it, as in the code.
- *Display*: three hosts in three slots, so that the index of a host can change by a
  host before it and one after it; one row of figures (what is proved holds
  for any number); one host without an entry in the configuration.

### Fairness

- `SchedulingFairness`: the main loop is called again and again, time advances,
  and a client that has begun to disconnect finishes (its own `loop()` drives
  it, which is called first in every `loop()`).
- `NetworkFairness`: strong fairness of a handshake that succeeds and of an
  attempt the client accepts: the broker does not miss every handshake and the
  heap is not short at every attempt. Without it no code could reconnect.
- `TcpLossNoticed`: what the comment at the WiFi guard relies on. It is kept
  apart because `transport_blip` shows what happens without it.
- `WifiSetup`: the startup machine, the apply machine and the restart keep being
  polled by `loop()`. Nothing is assumed of networks or power; `StartupEnds`
  excepts endless power cuts.
- `TouchSensor`: `loop()` polls and time passes. Nothing is assumed of readings:
  `PressEnds` holds for a sensor that sticks.
- `MonitorDisplay`: a refresh, a row and the end of a message on the screen come
  (weak); `AutoRotate` is strong, because it is tested in every `loop()`, before the
  refresh, and is enabled between any two drawings. `CarouselGoesRound` excepts
  hosts that come and go for ever and turns taken before the last one was
  drawn; `FiguresCatchUp` excepts messages that never pause, and silent hosts.

## 4. Proofs

**`MqttTransportProofs`** (for all timeouts, moduli and ceilings that satisfy
`ModulusAssumption`, `PolicyAssumption`, `TransportAssumption`). The inductive
invariant is `TypeOK /\ RetryPending /\ ClientInStep /\ NotBegun /\ BootIdle`.
`RetryPending` alone is not inductive: that a late `onDisconnect` or a timeout
finds no second retry, and that an attempt starts only from a disconnected
client, needs `ClientInStep`; the start-up step needs to know that it
comes first (`BootIdle`) and that nothing is under way before it, nor on a device
without a server (`NotBegun`). Each helper (`RetryIn`, `CountFailure`, `DisconnectAndSchedule`,
`Connect`) has a lemma; each action is one step. From the invariant follow
`TypeCorrect`, `RetryNeverLost`, `StateFollowsClient`, the two action properties
`PendingRetry` and `OutageFree`, and `ContractKept`: the transport implements
`ReconnectContract`.

**`TransportTimingProofs`** (assuming `TimingAssumption` as well: half the clock's
range is longer than each interval with its stalls). `ElapsedValue` and `TickAges` turn
the modular difference into two cases without a modulo, which is what the provers can
work with; a tick adds its length to the age of every timestamp that is not about to
wrap. `LoopClock` says how old the `now` of a running `loop()` is: as old as the
stall. `NoTimerEarly` follows from it: a timer that fires on the old `now` is due
on the clock too. That a timer fires in time needs `TimingInv`: a timestamp that
`loop()` watches is never older than its timeout, what this stall has cost, and one
`MaxStall` for the way to the next look, two while `loop()` runs. From it follow
`HandshakeEnds`, `SilenceEnds` and `OfflineChecksInTime`, the bound for
`OfflineChecksGoOn` outside of `DISCONNECTED`. All three assume
`ServerEdits = FALSE`: without a server `loop()` returns before it looks at any timer.

**`ReconnectBackoffProofs`** (for any ceiling, and any base and cap that satisfy
`WidthAssumption`: 32 bits, a cap of less than 66 s, and a base that is not a multiple of 16;
1000 has three low zero bits). Up to the 29th failure the bits that the shift loses
do not show, because the cap has been reached before (`ShiftDoubles`); hence `DelayIsDoubled`
and `DelayGrows`. From the 30th on nothing of 1000 is left in the word, which is what
`backoff_documented` finds. `SessionBackoff` shows that `MqttSession` implements
`ReconnectBackoff`, which carries the theorems over to it.

**`DeviceRegistryProofs`** (for any finite set of hosts and any sizes of the
arrays). `IInv` is inductive: `SavesInv` about what is saved, `ShownInv` about what is
listened to and shown, and `Shape` (the configuration is a
record of sets of hosts). `Shape` is what the record updates need.
`Persisted` needs to know that a save under way writes what RAM holds, unless `unsaved` says
otherwise (`SavesCurrent`); `SelectionDurable` needs its like for the other copies a file can
be written from, RAM and the image of a save (`CopiesDurable`).
`ReceiveFacts` and `TidyFacts` say what a message, a purge and a visit of the
display change; `CommitKeeps` is about every request that passes its checks;
`NewlyShown` proves the action property `NewlyShownSelected`. That none of this
depends on the sizes of the arrays is the point: a host that got no entry is
shown, and still only selected hosts are.

The sizes are a second invariant, `TypeOK`: each addition to an array is guarded
by its cap, and `FiniteSetTheorems` say what that means for the cardinality
(`AddedFits`, `TruncationsFit`). On it rest `SelectedFits` (with an allowlist a
message takes a slot that was already counted; whatever changes the allowlist
restarts the device or was refused) and `ServerUsed`.

`ResetForgetsBroker` is false (`registry_reset`). `OnlyASaveUndoesReset` proves it for
every behaviour in which no deferred save begins between the reset and its restart:
nothing else brings the broker back.

**`MqttSessionProofs`** (for any messages and payload limit; any widths and
ceiling). `FragmentInv` adds `Buffered` to the properties: the buffer holds
exactly the bytes received so far of a message that fits, once its first
fragment has arrived, and anything at all before. That is why a rest of an older
session does no harm although nothing clears it: the first fragment overwrites
the length. From it follow `HandledWhole` and `PassedOnOnce`.

**`WifiSetupProofs`** (for any networks, attempt limits and behaviours of the
core). `NoEarlyWipe` compares the failed attempts of a boot with what all cycles
make, so the invariant has to account for them: `Accounting` says that they are
those of the finished cycles plus the two counters, `InOrder` which counters are full in which
state, `Applying` ties the apply machine to the network in RAM and in the file.
`ApNotLost` and `ReportsNetworkTried` follow from `Applying`.

Of the liveness the part that needs no fairness is proved as a variant.
`StartupIsBounded`: the attempts still to make (`StartupRank`) are a natural number that every
step of `processStartup()` lowers and only a boot sets back. `ApplyIsBounded` is the same
for the apply machine. `SavedNetworkKept` is the safety half of `SavedNetworkJoined`:
while every network is in reach, nothing wipes the credentials or opens the access
point. `ResetConfined` needs `Erased` (where the core forgets its network, no boot finds
one that the file does not name) and `NoFileLeft` (from the reset to its restart there is no
file, because nothing but `/save` writes one).

**`MonitorDisplayProofs`** (for any hosts, slots and rows). `Coherent`,
`DrawsUnderOwnName` and `OfflineIsTrue` are inductive with `ScreenOfLast`: unless a
redraw is forced, the screen is that of the last drawn name. It is what makes it
safe to skip the header. `StaleRowsQueued` is the safety half of `FiguresCatchUp`: a
row on the screen that is not current is marked or about to be drawn.

**`TouchSensorProofs`** (for any durations with `Cooldown <= TapMin <=
LongPress`). `ReportedOnce` relates the history to `_longFired`; `CooldownRuns`
says that the cooldown after the last event is over when a press is long enough,
which is where `Cooldown <= TapMin` is needed: with other values a tap would be
swallowed. `DebounceHolds` shows that the wrap of the counter does no harm, because only a reading
below the threshold ends a press and it resets the counter too. `PressIsBounded` is the
variant of `PressEnds`: as long as a press lasts, each reading either is one more since the
last reading as low as the baseline, or raises the baseline (`PressRank`). A press
may well be longer than the history, but not longer than
`MaxRaw + 1` histories.

**Checked by TLC only**: liveness, since fairness and `ENABLED` are out of the provers'
reach. Every invariant and action property of a run that holds is also a theorem.
Of `StartupEnds`, `PressEnds`, `SavedNetworkJoined`, `FiguresCatchUp` and `OfflineChecksGoOn` the
part that needs no fairness is proved, as described above; `Reconnects` and
`CarouselGoesRound` rest on the model checker alone. Not every ending has a variant:
a reconnect depends on the network, a turn of the carousel on hosts that stop coming
and going.

## 5. What is not modelled

- *Metrics parser*: a pure conversion. Missing fields keep their defaults and
  values are clamped to 16 bits; it has no state.
- *Screen driver, fonts, QR code*: pixels over SPI.
- *Status pages, SSE*: read-only views.
- *MQTT test*: a blocking connect of its own, with one variable that nothing else
  reads (what goes wrong there is described below).
- *Web pages*: only as the requests they send.
- *Senders, installers*: a sampling loop without control worth a model.
- *Names*: a topic and its host stand for each other; host names that are cut
  at 31 bytes are not modelled.
- *Values*: thresholds, layout, brightness, offline timeout and the like.
- *Footer of the screen*; the second of silence of the touch sensor after start.

Where documents and code differ without a run of its own:

- the silence timeout is 15 s (`connection_policy.h:30`), the docs say 30 s
  (`docs/site/architecture.md:67`);
- the wizard's MQTT step restarts the device (`web_server.h:588-594`) although
  `web_server.h:749` speaks of "no restart" in wizard mode, and the summary page is
  then loaded from a device that is restarting; `_wizardMode` is never cleared (`web_server.h:745`);
- the comment at `main.cpp:314`, "true = also clears what the SDK has stored" (in Chinese), is true
  only where the core's disconnect erases; the argument `true` turns the radio off;
- the active display refresh is 500 ms (`connection_policy.h:21`), not 200 ms;
- a device that goes offline while it is on the screen stays there with its last
  figures: `showOfflineDevice` compares only the name (`monitor_display.h:387`),
  where `docs/plans/2026-02-06-mqtt-system-monitor.md:1806` draws an OFFLINE screen;
- `now` is read before a message that may arrive, so the age in the footer can
  wrap (`monitor_display.h:344`); the value `_lastMqttState` is reset to is one of the
  real states (`:183`, `:394`), so "MQTT --" is not drawn after a redraw while disconnected;
- `touch_sensor.h:7` says a tap takes 1 to 3 s; the time is counted from the
  confirmation, 600 to 900 ms after the finger; a `loop()` that stalls can
  report a long press for a finger that has gone;
- `README.md:144` says that "Test Connection" verifies that the broker is reachable.
  A request that comes while another connect blocks `loop()` is overwritten by the
  result of the other (`web_server.h:775-780`), and the wizard polls even after a
  request that was refused (`../../web/setup_wizard.html:445`): either way it can
  show success for a broker that was never tried. A page that polls across a
  restart polls for ever.

## 6. Plan

What is left, in this order:

1. The silence check composed with messages that are dropped (`MqttTransport`
   with the acceptance of `DeviceRegistry`).
2. The MQTT test: which request a result belongs to, and whether a page that polls
   is always answered.
3. `_restartAt` with a clock: the comparison that is not safe across a wrap.
4. `_wizardMode` across several applies, as a property of `WifiSetup`.
5. Host names that are cut, in a module where topic and host are two things.
