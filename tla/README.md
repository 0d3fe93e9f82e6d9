# A verification project for the Linkie toy firmware

The repository is the firmware of a toy on an ESP32: ten touch pads, a speaker,
an LED strip, WiFi, an MQTT session with Google Cloud IoT and a Firebase storage
bucket. A touch plays a recording a friend has sent and lights the strip in its
colour; the plays are counted and reported per friend; the server sends DOWNLOAD
commands (new recordings) and OTA commands (new firmware).

The TLA+ here models the firmware under `src/src` and `src/include`, and of the
vendored libraries only what the firmware's control depends on: how
`Firebase.Storage.download` ends, and `CloudIoTCoreMqtt::mqttConnect` and `loop`.

Run, in this directory: `tlc -config <run>.cfg <MC module>` (the pairs are listed
below) and `tlapm PlaybackProofs.tla` (likewise the other `*Proofs.tla`).

## 1. Inventory

Core 0 runs AudioTask. Core 1 runs the touch interrupts, TouchPoll, LedStripTask,
BleTask1 and, because `FireBaseInit` calls `FireBaseTask` instead of creating a
task, FireBaseTask inside the setup task. The tasks share plain globals; only
FreeRTOS queues synchronise them.

| component | state | operations | talks to | what is hard |
|---|---|---|---|---|
| Audio playback, `i2s_play.cpp` | `music_override`, `end_of_audio`, `imp_music`, `rec_button_i2s`, the library's player | `AudioTask`, `ExtractFileName`, `audio_eof_mp3` | takes `xQueueAudioPlay`; posts `xQueueLedStrip`, `xQueueFireBase`; writes `prev_button` and the play counters | overrides, an end of file inside a stop, recordings that do not open, dropped sends |
| Touch interrupts, `touch_pad_custom.cpp` | `prev_button` | `GotTouch0..9` | posts `xQueueAudioPlay` | check, claim and send against the release on the other core |
| Polled pads, same file | `volumn`, `volumn_stroble`, `touch_count`, `volumn_count`, NVS | `TouchPoll`, `SendNotification`, `DecideVolumnStrobe`, `GetVolumn` | posts `xQueueAudioPlay`, `xQueueBleOperation` | byte arithmetic, power failure, AudioTask reading `volumn` at any time |
| LED strip, `led_strip.cpp` | the colour shown | `LedStripTask`, `SetStripColor` | takes `xQueueLedStrip` | a queue that may be full or not there yet |
| Play counters, `firebase_mqtt.cpp` | six `uint8_t` counters, six sender ids, `count_changed` | `sendPlayCounts` and its three callers | takes `xQueueFireBase`; publishes | non-atomic increments and clears on two cores, one token for many plays |
| Cloud session, `firebase_mqtt.cpp`, `CloudIoTCoreMqtt.cpp` | `firebase_status`, the session, its subscriptions | `FireBaseTask`, `ConnectToTopics`, `mqttConnect`, `loop` | the broker | sessions that end at any step |
| WiFi, `wifi_manager.cpp` | the list of five networks, `wifi_audio` | `TryConnection`, `SetUpWifiFromList` | the WiFi driver; waits for AudioTask's `imp_music` | timeouts, late associations, a flag nobody sets twice |
| Commands, `mqtt_call_back.cpp` | the running handlers, `/senderIDs.json`, `/firmwareVersion.json`, the recordings | `messageReceived`, `updateFirmwareVersion`, `readSenderIDs`, `writeSenderIDs` | the server, the bucket, the counters | handlers inside handlers, retries, files truncated before they are written, restarts |
| WiFi credentials, `wifi_manager.cpp` | five slots in RAM, `/wifi.json`, the next index in RAM and in NVS | `setWifiConfiguration`, `readWifiFromFile`, `getWifiIndex` | written by BLE provisioning, read by `SetUpWifiFromList` | a power loss between the index and the file, and inside the file |
| BLE provisioning, `custom_ble.cpp` | `deviceConnected`, `pass_acquired`, `ble_status`, the input strings | `BleTask1`, `BleTask`, `ScanNetwork`, `wifi_check`, `BLE_wifi_status_report`, the callbacks | `xQueueBleOperation`; a phone; writes the WiFi credentials | a phone that comes and goes at any step, flags older than the BLE mode; not reached in this build (section 6, `touchpoll_ble`) |
| Start-up, `main.cpp` | which queues and tasks exist | `setup` | everything | the other tasks run already |
| Sleep, battery, SPIFFS helpers | | | | their init calls are commented out in `setup()` |

What makes each component right: every claim of a pad and every flag of a
recording is given back (playback, touch); the strip shows what plays and is dark
at rest (strip); no play is forgotten, doubled or credited to the wrong friend
(counters, commands); the volume stays in range and agrees in memory, flash and
library (polled pads); the toy comes online and stays there, and online means
subscribed (WiFi, session); only networks that worked are remembered, the oldest goes
first, and what a phone was told is kept until then, also through the power losses that
come while nothing is being saved (WiFi credentials, BLE provisioning); every command is handled, its effects agree with what
the server holds, and files survive a power failure (commands).

## 2. Modules

| module | models | state to code | a step is |
|---|---|---|---|
| `FreeRtosQueue` | `xQueueSendToBack` with a result nobody reads | a queue is a sequence | |
| `LinkieButtons` | `ButtonPress_t`, `ExtractFileName`'s table, `SetStripColor`'s table | | |
| `Playback` | pads, AudioTask, the callback, the strip, setup | variables named as in the code; `pc`/`eofReturn` are AudioTask's position, `isr` the event of a handler that has claimed but not sent | the code between two accesses to what the other core can change |
| `Telemetry` | counters, tokens, `sendPlayCounts`, its callers, DOWNLOAD's resets | `audio` is AudioTask reduced to counting; `pc`/`caller`/`i` FireBaseTask's position | one read or one store of a counter |
| `TouchPoll` | volume and BLE pads, NVS, BleTask1's first lines | `audioLen`, `bleLen` are queue lengths; `applied` is the library's volume | one store to shared state |
| `LinkieAudio` | the contract between AudioTask and FireBaseTask | `pending` are the counters that are not zero, `tokens` the length of `xQueueFireBase` | a play, an end of file, a token or a clear |
| `Connectivity` | FireBaseTask's loops, the walk through the slots, the session, the clock and the JWT | `joining` is the network of the last `WiFi.begin`; `sntp`, `clock`: `configTime` was called, the time came; `expired`: `millis()` is past `exp_millis` | the code between two looks at WiFi or session |
| `Commands` | `messageReceived` and everything it calls | `calls` is the stack of running handlers; a file is what it reads as | one change of a file, of memory, or of a connection |
| `Provisioning` | BLE mode and the list of saved networks, from BleTask1's call of `BleTask` on | `offer` is what characteristic 5 holds, `taken` the local `passwordAndNetwork`, `input` `ssid_input` with `password_input`; `nvs` and `file` survive the power | the code between two looks at the phone, or one store to RAM or flash |
| `NetworkRing` | what the saved networks promise | the entries, oldest first; `dropped` is what a power loss would bring back | a save, a loss |

`MC<module>` gives the constants their small values. `PlaybackProofs`,
`TelemetryProofs`, `ConnectivityProofs`, `TouchPollProofs`, `ProvisioningProofs` and
`CommandsProofs` hold the theorems.
`PROJECT.json` maps every definition to the lines it models.

The modules are cut where the code has few shared variables. The widest cut is the one
between the two cores: Playback has AudioTask in full and of FireBaseTask only that it
takes tokens and clears counters at any time; Telemetry has FireBaseTask in full and of
AudioTask only that it starts, counts and ends recordings. `LinkieAudio` says what each
may do to the shared counters, flag and tokens, and both modules are shown to implement
it (`KeepsAudioContract` in each, model-checked and proved). That the other task, as each
module has it, offers every step the contract allows it is seen by reading them. Connectivity sees `imp_music` go up and down, which
is all that is left of AudioTask there. Connectivity takes the saved slots as a constant;
Provisioning is what fills them, and the two do not run at once.

### Abstractions, and why they are sound

* **The audio library** is external. A recording runs until it ends or is stopped,
  or does not open. Whether `stop_music_running` runs `audio_eof_mp3` depends on the
  library version, so there are toys of both kinds (`toy.stopCallsEof`).
* **Interrupt handlers** of one core do not nest, so there is one `isr`. A handler's
  check and claim are one step: nothing else on its core runs, and the callback on
  core 0 only ever writes `kTouchIdle`; its claim and its send are two.
* `touch_event_happened` and `prev_tick_count` are left out: only the sleep manager
  reads them, and it is disabled.
* **`sleep_wake_press`** is kTouchIdle while `SleepInit` is commented out
  (`main.cpp:35`); some toys of the run have one, so that the path behind it is checked.
* **Notices** are `kvolumn` and `kBle_Mode`; the send of `kconnect` is commented out
  (`wifi_manager.cpp:401`). The runs post `kvolumn`, the only one this build repeats.
* **TouchPoll reads the flash** before AudioTask takes an event: it outranks the
  setup task on its core, which creates AudioTask later.
* **NVS commits** are atomic. SPIFFS files opened with `FILE_WRITE` are empty until
  written.
* **Downloads** end as `FCS.cpp` shows: refused before the file is touched; sent
  incompletely and reported as done; answered by an error after the file was opened;
  broken off in the body and reported as done; or complete.
* **A DOWNLOAD** names one sender per colour: `senderArray` is an object with the colours
  as keys (`mqtt_call_back.cpp:252`), so two entries of one colour cannot differ
  (`CommandsAssumption`).
* **Commands are well-formed.** `messageReceived` returns at once for a payload that does
  not parse, or not into the 1024 bytes of its document (`mqtt_call_back.cpp:215`), and
  does nothing for an unknown type or an `updateCount` that is 0 as a byte (line 229):
  such a command changes nothing and is not in `Orders`. `updateCount` is the length of
  `buttonArray` and each entry starts with one of the six letters; the default branch of
  the switch (line 289) is not modelled.
* **An OTA** ends in the firmware or in an error. `FCS.cpp:752` and `:985` would take a 204,
  or a JSON document without an error in it, for a success with nothing installed, and the
  callback would note the version all the same; the bucket does not answer so for a file,
  and `VersionIsInstalled` assumes it does not.
* **The status** of a DOWNLOAD may or may not reach the server: nobody looks at the result
  of the publish (`SendStatus`).
* **Counters** are bytes that wrap. The Playback and Telemetry runs wrap at 2 (`CountMod`),
  so that the second unreported play does what the 256th does in the code; what the wrap
  drops is `lost` in `Conservation`.
* **The clock** is set some time after `configTime`, while there is WiFi. Without it the
  JWT carries 1970 and no broker accepts it: `MqttConnect` is the attempt that succeeds,
  the others change nothing. `JwtExpires` may come at any time: twenty minutes after the
  JWT was signed, or at once when `millis()` is about to wrap.
* **The phone** is external: it connects, writes a network, something short or something
  without a delimiter, and leaves, at any step. Characteristic 5 is one value.
* **`/wifi.json`** grows while it is written, and ArduinoJson keeps what it could parse of
  a file that was cut off: a slot that is missing reads `"null"` (`Null`), and one cut off
  between its SSID and its password, which are two members of the object, has the one and
  reads `"null"` for the other (`Torn`). Apart from that a slot's SSID and password are one
  value. The flash has room.
* **Time** is left out. A timeout is a choice; a back-off only delays.

## 3. Runs

Passing runs. Each checks its module's `TypeOK`, safety and liveness together, under
the module's `FairSpec` (`touchpoll`: `Spec`).

| run | module | question | bounds |
|---|---|---|---|
| `playback` | MCPlayback | Are claims and flags given back (`ButtonsRecover`, `FlagsRecover`, `ImportantIsFlagged`), does the strip follow (`StripShowsPlaying`, `StripRests`), does AudioTask keep the contract (`KeepsAudioContract`), does every step leave fewer to take (`WorkShrinks`), does everything come to rest (`Settles`)? | two pads and the volume notice, 4 posts after the wake press, queues of 2, counters that wrap at 2; three toys: see below |
| `telemetry` | MCTelemetry | Is any notice lost (`NoLostNotice`), is the bookkeeping exact (`Conservation`), do both sides keep the contract (`KeepsAudioContract`), is every count drained (`CountsDrain`)? | two buttons, one without a sender at first, two senders, 2 plays, 2 (nested) DOWNLOADs, 1 drop, counters that wrap at 2 |
| `touchpoll` | MCTouchPoll | Is the volume in range, stored and applied (`VolumnInRange`, `VolumnPersisted`, `VolumnApplied`), and does the sweep reach both ends for ever (`VolumnSweeps`)? | touch times 3 and 2, audio queue of 2, 2 power failures |
| `connectivity` | MCConnectivity | Does online mean subscribed (`OnlineIsSubscribed`), and is the toy online for good while the WiFi stays (`StaysOnline`)? | slots 2, 3, 5 saved, 5 in reach, 3 WiFi drops, 3 ended sessions or expired JWTs, 2 plays |
| `commands` | MCCommands | Do credits, recordings and files agree afterwards (`RightCredit`, `NewestRecording`, `IdsOnFile`, `VersionIsInstalled`), does no step lead a handler back (`OnlyOnwards`), is every command handled (`HandlesAll`)? | two buttons, two senders, 3 commands of 3 kinds, 2 failures, 1 drop, 1 power failure |
| `provisioning` | MCProvisioning | Is only a joined network remembered (`RememberedWasJoined`), is what the toy tries to join from this BLE mode (`InputIsFresh`), is every network a phone was told of kept until it is displaced, except exactly what a power loss finds in RAM alone (`ToldIsKept`), are list, index and file a ring (`KeepsRing`), and does BLE mode end (`BleModeEnds`)? | two networks that work and a mistyped one, a list of 2, 3 BLE modes, 1 failed round of scans, 1 power loss |

The three toys of `playback`: one whose library does not call the callback when it is
stopped and that has lost the recording of kTouch8; one whose library does, with all
recordings, woken by kTouch9, which has no recording; and one whose library does, with
kTouch8's recording lost, woken by kTouch3.

Why the bounds suffice. The hazards need a touch while another pad's recording runs
(two pads), a third event while two are queued (a queue is only ever compared with its
length, so one of 2 behaves as the one of 4, only sooner): four events, and the wake
press leaves one more for after the system recovered. The counters race pairwise: one increment with one clear,
one play while a token is served, so two plays and two counters. Commands nest two
deep to swap, and a third follows; a download is tried twice, so two failures exhaust
one or hit two. One saved slot in reach, the last, makes the walk go through all of
them. Three BLE modes fill a list of two and displace its oldest entry, and the power loss
may fall into any of them. The sweep's state space is finite by itself. Every property is broken by a
mutant of the code's definitions under the run's own bounds (`mutants` in
PROJECT.json; the mutated forms stand before the definitions they replace).

`CHECK_DEADLOCK FALSE` stands where the bounded environment may fall silent and the
toy really stops: a toy at rest (Playback), `TryConnection` waiting for ever
(Connectivity), an OTA that failed, or a toy that has nothing left to receive
(Commands, Provisioning).

## 4. Fairness

`WF` of each task: FreeRTOS runs every ready task, and no task here is starved, as
each blocks on a queue or delays in every loop. `LoopEndOfFile`/`EndOfFile`,
`PlayEnds`: a recording that is left alone ends. Connectivity adds weak fairness of
association, of SNTP and of the keep-alive noticing a dead link, and strong fairness of
associating within the 4.5 seconds `SetUpWifiFromList` waits: a network in reach does
not answer late for ever. Users, phones, commands, failures, drops, expiries and power
losses are never fair. In Provisioning only BleTask and the boot are: a scan finds
something in the end (`MaxScanFails`), and `BleModeEnds` takes as premises that the phone
leaves for good and that no report waits for one that does not come. `StaysOnline` takes as premise that some join was quick
enough for `configTime` (see section 6). `VolumnSweeps` needs no fairness: it assumes of the behaviour that the volume is
changed again and again.

Liveness is checked under bounds on the environment: once people leave the toy alone,
it settles.

## 5. Proofs

TLAPS proves, for every value of the constants that meets the module's named
assumption:

| theorem | says |
|---|---|
| `PlaybackProofs!TypeCorrect` | types, and no queue outgrows its length |
| `PlaybackProofs!NoButtonStaysClaimed` | `ButtonsRecover` |
| `PlaybackProofs!NoFlagStaysUp` | `FlagsRecover` |
| `PlaybackProofs!PressedIsFlagged` | `ImportantIsFlagged` |
| `PlaybackProofs!StripFollowsPlaying` | `StripShowsPlaying` |
| `PlaybackProofs!StripGoesDark` | `StripRests` |
| `PlaybackProofs!ToyRunsDown` | `WorkShrinks` |
| `PlaybackProofs!ImplementsContract` | `KeepsAudioContract`: Playback implements LinkieAudio |
| `TelemetryProofs!TypeCorrect` | types; the token queue holds at most one |
| `TelemetryProofs!NoNoticeIsLost` | `NoLostNotice` |
| `TelemetryProofs!PlaysAreConserved` | `Conservation` |
| `TelemetryProofs!ImplementsContract` | `KeepsAudioContract`: Telemetry implements LinkieAudio |
| `ConnectivityProofs!TypeCorrect` | types; the walk stays within the five slots |
| `ConnectivityProofs!OnlineHasTopics` | `OnlineIsSubscribed` |
| `TouchPollProofs!TypeCorrect` | types; no count passes zero |
| `TouchPollProofs!VolumnStaysInRange` | `VolumnInRange` |
| `TouchPollProofs!VolumnIsPersisted` | `VolumnPersisted` |
| `TouchPollProofs!VolumnIsApplied` | `VolumnApplied` |
| `ProvisioningProofs!TypeCorrect` | types; the index stays on the list |
| `ProvisioningProofs!InputStaysFresh` | `InputIsFresh` |
| `ProvisioningProofs!OnlyJoinedAreRemembered` | `RememberedWasJoined` |
| `ProvisioningProofs!WhatWasToldIsKept` | `ToldIsKept` |
| `ProvisioningProofs!ImplementsRing` | `KeepsRing`: Provisioning implements NetworkRing |
| `CommandsProofs!TypeCorrect` | types; no handler runs past its last button, and there are never more of them than commands |
| `CommandsProofs!VersionsAreInstalled` | `VersionIsInstalled` |
| `CommandsProofs!IdsAreOnFile` | `IdsOnFile` |
| `CommandsProofs!RecordingsAreNewest` | `NewestRecording` |
| `CommandsProofs!CreditsAreRight` | `RightCredit` |
| `CommandsProofs!HandlersComeOnwards` | `OnlyOnwards` |

The arguments.

* *ButtonsRecover* speaks of the toy at rest only and is not inductive. `ClaimInv`
  says it of every state: while a pad is claimed, an event is in the handler or the
  queue, or a recording is starting, running or being ended, or else the last event
  started nothing. A dropped send does not matter, because a queue that refuses an
  event is not empty.
* *FlagsRecover* and *ImportantIsFlagged* follow from `FlagInv`: raised flags belong
  to a recording that starts, runs or is being ended, or to one that did not open;
  and nothing plays while AudioTask starts or ends a recording, so the callback never
  lowers the flag of the next one.
* The strip lags behind the queue, so both strip properties are stated of `Final`, the
  colour it has when the queue is empty: showing a colour does not change it, posting one
  that is not dropped sets it. *StripShowsPlaying*: once AudioTask is back in its loop,
  `Final` is the colour of what plays (`ShowInv`); on the way there the recording that
  plays is the one of the event taken. *StripRests*: `DarkInv` says that `music_override`
  is up only while the recording it cut short is being ended; so the end of file that leads
  back to the loop does post `prev_button`, and this is kTouchIdle unless a touch has
  claimed it since, which is then still in the handler or in the queue.
* *WorkShrinks* is the safety half of `Settles`. `StepsLeft` weighs what waits: an event
  is good for twelve steps of AudioTask, and each step of AudioTask for one of the strip. The case that
  needs an invariant is the return to the loop: nothing plays there after an end of file
  (`FlagInv`), or the recording would end again.
* *NoLostNotice* is not inductive because the token is taken before the counters are
  read and while AudioTask counts on. `NoticeInv` says of every counter that could be
  reported: a token waits, or FireBaseTask will still look at that counter, or a
  recording is under way (`imp_music`, or an increment not stored yet) whose end adds a
  token. An increment into a counter already visited is the case that needs it.
* *Conservation* is inductive with two facts (`BookInv`): what AudioTask has read and not
  stored yet is still the counter, unless FireBaseTask changed it meanwhile, which makes
  its sender `raced`; and the message is empty except while `sendPlayCounts` fills it. The
  sum over the six colours is written out, so that a change of one counter changes one
  summand.
* *OnlineIsSubscribed* needs that mqttConnect connects and subscribes only while
  `firebase_status` is down (`SubscribeInv`).
* *VolumnInRange* leaves out the moment between the step and the turn; `SweepInv` says
  that the volume is then at most one step outside, on the side the sweep moves to, so
  the byte cannot wrap. `AgreeInv` extends *VolumnPersisted* and *VolumnApplied* to
  the positions of TouchPoll in between; the library may lag only between the step and
  the event.

* *KeepsAudioContract* maps every step to a step of LinkieAudio or a stutter, one case per
  action. In Playback it rests on `FlagInv`: the callback lowers `imp_music` only for a
  recording that runs. In Telemetry an increment is `Count` at its store, and a clear is
  `Clear` at its store, whatever happened since each was read.
* *InputIsFresh*: `FreshInv` follows what was parsed in this BLE mode from the moment
  `ble_status` says so to the join. It needs that `kGotdata` does not
  outlive a BLE mode, which `pass_acquired` does: the loop that trusts the first is right, one that
  trusted the second would not be (the mutant of this property).
* *RememberedWasJoined*: `StatusInv` ties `WifiStatus` to a network in `joined` until it is
  stored; the list and the file then only get what is in `joined`, or half of it, which
  nobody can join.
* *ToldIsKept* speaks of each slot: `told` is the network a phone was last told of for it,
  and no power loss changes that. `lost` are the slots a power loss has taken since: the one
  about to be stored (`Unstored`), the one stored before the file is truncated, and, while
  the file is written, each one that is not whole on it yet, networks of earlier BLE modes
  among them (`Unsaved`; section 6 says what this means). `FileInv` says how the
  file follows the list while it is written and that the two agree otherwise, and `ToldInv`
  where the network of each slot is: it is the input until it is stored, then in the list,
  then on file. They need that the index in the flash is past the last slot stored, at every
  step, for a power loss to find.
* *KeepsRing* maps list, index and file to a ring that starts at the oldest slot. Before
  the file is truncated a power loss brings the dropped entry back (`dropped`); while it is
  written, a loss spoils the slots that are not whole on it; nothing else changes the ring.
* Commands: everything rests on `StackInv`, which says of the handlers that only the
  innermost has come past its `mqtt->loop()` and that each is where its command can have
  brought it, and on `MemoryOK`, the types of the rest. *VersionIsInstalled*: a handler
  that is about to write a version has installed it (`VersionInv`). *IdsOnFile*: file and
  memory differ only between a change of a sender and the `writeSenderIDs` behind it,
  which a failed download does not skip (`IdsInv`).
* *NewestRecording* holds at rest only. `PendInv` says of every state that a recording is
  the newest, or a command that names its button is on its way, or some handler, however
  deep in the stack, has yet to fetch it. A handler that ran inside another one has
  fetched what the server has, and so will the outer one after it.
* *RightCredit* needs both halves. `PendInv` has the recording. For the sender, `CreditInv`
  says that the newest command for a button, among those waiting or else the one being
  handled, names the sender of what the bucket holds (`InboxSays`, `CallSays`), and that a
  button is credited to that sender or such a command has yet to note it (`Credited`), also
  across a restart (`FileSays`). All of it holds only while no command was handled inside
  another, as then the older one comes last.
* *OnlyOnwards* is the safety half of `HandlesAll`: by `StackInv` a step changes the innermost
  handler only, and it comes further in buttons, tries and places (`Later`), or it returns.

Only model-checked is what is temporal under fairness, out of the prover's reach:
`Settles`, `CountsDrain`, `VolumnSweeps`, `StaysOnline`, `HandlesAll`, `BleModeEnds`. Of
`Settles` and `HandlesAll` the part that no schedule can excuse is proved, as
`WorkShrinks` and `OnlyOnwards`: no step leads back. That the steps are taken is
fairness, and that they suffice is left to TLC, as is the step from a measure that
shrinks to an end, which is an induction. Every invariant a passing run checks is a
theorem.

## 6. What the runs found

Each is a run of its own that TLC must find violated; PROJECT.json quotes the line of
the repository it disagrees with.

| run | what the code does |
|---|---|
| `telemetry_red` | the red branch sends the purple counter and zeroes the red one |
| `touchpoll_ble` | BleTask1 suspends itself instead of FireBaseTask |
| `connectivity_noclock` | a network that answers late is found connected by the next turn of the loop, which leaves out `configTime`: the JWT says 1970 |
| `connectivity_wifidrop` | after a WiFi loss TryConnection waits for ever for `wifi_audio` |
| `commands_success` | a broken transfer is reported as a success |
| `commands_poweroff` | a power failure inside `writeSenderIDs` makes every sender `"null"` |

Behaviour of the code that the passing properties step around, by an excuse they name:

* AudioTask resets its queue after touches can reach it (`i2s_play.cpp:114`): a wiped
  touch keeps its claim, and the pad is dead until another recording ends. The same
  holds after a recording that does not open (`unplayed` in `ButtonsRecover`).
* When stopping a recording does not run the callback, `music_override` outlives the
  stop, and the next end of file leaves the strip lit (`stopCallsEof` in `StripRests`).
* The counters are published before the client is connected (`firebase_mqtt.cpp:203`)
  and zeroed; a DOWNLOAD drops unreported plays because `count_changed` is never set
  again (`mqtt_call_back.cpp:208`): both are `lost` in `Conservation`.
* Two buttons of one sender share an entry of the message (`firebase_mqtt.cpp:239`), and
  one count is lost; an increment on core 0 that straddles a clear on core 1 brings reported
  plays back; the red branch (`telemetry_red`) books purple plays to the purple sender and
  forgets the red ones: `raced` in `Conservation`.
* `messageReceived` calls `mqtt->loop()` first, and a command that has arrived is handled
  before the one being handled (`mqtt_call_back.cpp:205`): `"nested"` excuses
  `RightCredit`.
* The result of a join waits for a phone without a time limit (`custom_ble.cpp:306`):
  premise of `BleModeEnds`. A value of eight characters without `"__"` is taken for input
  and leaves the old one: `NoDelim` in `InputIsFresh`. What a phone writes during a scan is
  wiped (`custom_ble.cpp:209`). A network saved twice takes two slots.
* A phone is told of a network before it is saved (`custom_ble.cpp:353`), and saving the next
  one truncates the file with all of them and writes it again (`wifi_manager.cpp:273-293`): a
  power loss in between takes the new network and those of earlier BLE modes whose slots are
  not on the file yet, up to all five. They are `lost` in `ToldIsKept`, and spoilt in
  `KeepsRing`; the loss is of the kind `commands_poweroff` shows for the senders.
* Touch counts are not set back when a pad is let go (`touch_pad_custom.cpp:383`), so
  short touches add up to a long one: `Poll` of TouchPoll.
* A failed OTA download leaves the toy in an endless loop (`mqtt_call_back.cpp:116`):
  `At("forever")` in `HandlesAll`.

## 7. Plan

Done: every component this build runs and the BLE mode behind BleTask1, their runs, the contract between the
two cores and the ring of saved networks as abstract specifications, and the theorems
above.

Proved: every invariant and every refinement the passing runs check, and the safety
halves of `Settles` and `HandlesAll`.

Next, proving more: the safety halves of the other liveness properties, where no step may
lead back either (`VolumnSweeps`: the sweep turns only at its ends; `BleModeEnds`: a BLE
mode that has its result does not scan again; `CountsDrain`: a token taken is followed by
a look at every counter).

## 8. Not modelled

* `battery_control.cpp`, `sleep_manager.cpp`, `spiffs_system.cpp`: their init calls are
  commented out in `setup()`; what is left of the sleep manager is the press that wakes the
  toy. `BLE.cpp` is not compiled in. `i2s_custom.cpp` and pin or clock set-up have no state
  of interest.
* `FillFireBaseCredential` reads two strings once, before the loops, and nobody looks at
  its result. The back-off of `mqttConnect` needs a `connect` that returned true with an
  error, and its other delay only delays. `CheckSetUpStatus`, `wifi_handling` and
  `BLE_setup` are never called.
* In BLE mode, the notices `wifi_check` and BleTask1 post to `xQueueAudioPlay` and
  BleTask1's reset of that queue at the end: to Playback they are events like any other,
  and this build does not get there.
* `src/lib`, by far most of the repository's lines, is third-party code (Firebase client,
  BearSSL, MQTT, JSON, BLE, audio). The models have of it what the firmware's control
  depends on, as said at the top. TLS, JWT signing and big-number arithmetic are out of
  TLC's reach.
