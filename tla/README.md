# doorbell-mqtt-unifi in TLA+

This directory models the service that lets Home Assistant change the welcome
animation and the ring sound of a UniFi doorbell: MQTT commands come in, profiles
are uploaded over SSH, and the result goes back as retained MQTT topics. The
modules are read with the sources beside them; `PROJECT.json` gives, for every
definition, the lines it stands for.

    tlc -workers 2 -config router.cfg MCMqttRouter.tla
    tlapm MqttRouter_proof.tla

## 1. The system

### Threads and who calls whom

    broker --- paho's thread: msg_arrived, conn_lost                       (mqtt.c)
                 | mqtt_router_enqueue
                 v
               ring of 64 slots, mutex, condition variable          (mqtt_router.c)
                 | inq_pop
                 v
               worker: command handlers  (command.c) --- SSH --- doorbell
                 |  status_set_*           (ha_status.c)
                 v
               mqtt_publish               (mqtt.c) --- broker --- Home Assistant
                 ^
               main thread: mqtt_loop, ha_on_connect, shutdown (main.c, ha_mqtt.c)

There are three threads. One mutex guards the ring. Nothing guards the flag
`connected`, the route table, or `last_applied.json`.

### Inventory

| Component | State it keeps | Operations | Hard behaviours | What makes it correct |
|---|---|---|---|---|
| Router (`mqtt_router.c`) | ring, head, tail, `running`, route table | start, add route, enqueue, pop, dispatch, stop with join and drain | three threads; wakeups; a full ring; a drain without the lock while paho may still push | accepted commands are handled once and in order until a stop; nobody sleeps on work; a stop ends |
| Commands (`command.c`, `ha_status.c`, `unifi_profiles_repo.c`) | `last_applied.json`, the retained topics, the doorbell | `command_set_preset`, `command_apply_custom`, `command_test_config`; `ha_on_connect`'s restore | failure at every step; publications lost without a session; a restore on another thread; a crash between doorbell, file and topics | the file never names an apply that did not happen; what is shown agrees with the file; errors are reported; the status ends idle |
| Connection (`mqtt.c`, `ha_mqtt.c`) | `connected`, `last_attempt`, the session, the will, subscriptions | connect, reconnect, subscribe, announce, conn_lost, disconnect | the flag has two writers; a loss in the middle of `ha_on_connect`; the wall clock; crash and restart | one session at a time; online implies a will; a lost session is replaced and announced |
| Download (`command.c`, `unifi_remote.c`, `unifi_profiles_repo.c`) | `profiles/tmp`, `downloads`, `partial` | `command_download_assets` | failure at every file; directory names of one-second resolution; variables not initialised after a failure | only whole downloads under `downloads`, none overwritten |
| Upload and script (`unifi_remote.c`, `ssh_commands.*`, `ssh.c`) | a fixed directory in the doorbell's `/tmp`; files in `/etc/persistent`; running services | upload each file, run one script | torn transfers; a script that stops half way; one that outlives its connection | success means the doorbell runs the profile; a configuration never precedes its files |
| Configuration files and descriptions (`unifi_profile_conf.c`, `unifi_profile_json.c`, `utils_json.c`) | two JSON files of the doorbell, `profile.json` | patch, read; load and write a description | entries and keys missing, doubled, or incomplete | what is written is read back, through a download too; the firmware's entries stay |
| Settings (`config.c`) | the loaded configuration, with the preset table | load at start; look up a preset | three sources of a setting; one bad entry discards the table; names that differ in case and space | a lookup never confuses two presets |
| Discovery (`ha_discovery.c`, `ha_entities.c`) | none here; retained descriptions at the broker | publish the description of every entity on every connect | one failure ends the loop; payloads are cut; descriptions outlive the process and its configuration | what is offered is what is configured |
| Errors, logging, banner; cJSON, md5 | none | tables and text; third-party code | | not modelled |

## 2. The modules

| Module | Extends or uses | What it models |
|---|---|---|
| `CommandQueue` | | abstract: a bounded FIFO that closes; what the router promises |
| `MqttRouter` | `CommandQueue` (refined) | the router and the three threads |
| `Arithmetic` | | lemmas on `%` and on least elements |
| `DoorbellApply` | | abstract: one apply of a profile at a time, how it may end and what the doorbell then shows |
| `ProfileApply` | `DoorbellApply` (refined) | the upload and the script, step by step |
| `ProfileCommands` | `DoorbellApply` (composed) | the three profile commands and the restore |
| `ProfileConf` | | the two arrays of settings, and descriptions of profiles |
| `AssetDownload` | | the download command and its directories |
| `MqttConnection` | | connection, will, availability |
| `Configuration` | | what a start makes of `config.json` and the environment |
| `Discovery` | `Configuration` | from the configuration to Home Assistant's dropdown and back |
| `MC...` | one of the above | model values and small sets for TLC |
| `..._proof` | the module it is named for, mostly `Arithmetic` | inductive invariant, lemmas, theorems |

**How they meet.** `DoorbellApply` is the joint between the commands and the
doorbell. `ProfileApply` implements it (`ImplementsApply`); `ProfileCommands` takes its
actions as steps of its own, with the doorbell's variables shared. So the commands
are checked against everything the upload is shown to do, and nothing else: errors
before and after the script was sent, calls that never return, scripts that outlive
their call, and what each of these leaves on the doorbell. In the same way `MqttRouter`
knows of a handler only that it may return, `ProfileApply` takes patching a file as one
step and `ProfileConf` opens that one, and `MqttConnection` models the session that
`ProfileCommands`, `Discovery` and `MqttRouter` take as up or down.

**MqttRouter.** `buf`, `head`, `tail`, `running` are `struct inq`. A critical section
is one step where nothing outside it can look in: that is so for the worker's and for
`mqtt_router_stop`'s. Paho's section is four steps (`Reserve`, `StoreSlot`,
`StoreTail`, `Signal`), because the drain after the join reads the ring without the
mutex. The two stores may be seen in either order, as a data race allows; reading a
slot before its store gives the old content. `Woken` is what signal and broadcast do to
a waiting worker, `SpuriousWakeup` what POSIX allows. `ConnectionLost` stops arrivals,
`Connect` starts them. A handler is one step, `Dispatch`, which says whether the topic
has a route, and which need not come.

**DoorbellApply.** `phase` is where the call is; `Hang` takes it to where it never
returns; `Abandon` is a connection that breaks under the script with an error,
or the death of the process. `late` is a script that goes on without its call,
`spoiled` a call that met one, or an error nobody told it of. `Succeed` states the promise.

**ProfileApply.** `worker.todo` is what is left of the upload, `script` what is left
of the script; a failing step drops the rest, as `goto cleanup` and `set -eu` do.
`Drop` is a connection that breaks under the script, before `ssh_exec_command` reads or
in its loop; the script becomes `orphan` and goes on while the next command uploads to the
same place. `UploadCutShort` is a transfer whose end `ssh_scp_upload_file` does not look at.
`Moves` is `mv`, which finds a file by its name, whole or torn: the configurations have fixed
names, the assets those that the profile whose upload last emptied the directory (`sender`)
gives them, so an orphan takes what another upload of its own profile left there, torn or not.

**ProfileCommands.** `topics` is what the broker retains; `link` says whether a
publication arrives, `connected` is the flag by which `mqtt_loop` decides to connect
(`Reconnect`). The flag is set in a step of its own (`SetConnected`), so that a loss before it
is overwritten and nobody connects again (`Stale`); the loss and its report are one step here,
and apart in `MqttConnection`. `worker.code` is the error the last command ended with. `Begin`, `Proceed`, `Fail`, `NoSession`, `Call`, `Returns`, `OpenRecord`,
`WriteRecord`, `WorkerPublish` follow a handler line by line; `Result` and `Failed` are the
sequences of publications after success and failure, with the three handlers'
differences: apply_custom leaves `custom/directory` alone, test_config publishes its result
even after a failure and returns early without a session. `SessionHangs` is a handshake that
does not return. `Load` and `MainPublish` are `ha_on_connect` on the other thread. A
file that was opened for writing and not yet written is empty, which is `file = {}`.

**ProfileConf.** Arrays are sequences, objects functions from the keys they have.
`Upsert` and `Replace` are cJSON's two ways to set a key; which of them the code
uses in which file is the difference between animation and sound. `Load` is what becomes
of a `profile.json` with keys missing; `Download` writes one, and `ApplyDownloaded` applies it.

**AssetDownload.** `tree` is the profiles directory: a function from a path to the set of
complete files in it, with "torn" for one whose transfer failed and "short" for one
that the disk did not take. `temp`, `now`, `path` are the handler's locals; `Garbage` is
what an uninitialised path names. `Rename` is `rename(2)`, which refuses a directory
that is not empty.

**MqttConnection.** `since` is `now - last_attempt`; the clock can be set back.
`session` is the truth between client and broker, `reported` says whether
`conn_lost` has run, `connected` is the flag. `ConnectSucceeds` and `SetConnected`
are two steps, since paho's thread can run between them. The broker publishes the will
when it notices a dead session or a new one takes its place; `retained` is what
a Home Assistant that starts again finds, `shown` what it goes by.

**Configuration, Discovery.** A name of a preset is its word, whether it has capitals and
whether it has space around it, which is what `strcasecmp`, `json_strdup_normalized`
and `strcmp` tell apart; `Scan` is the loop of `config_load_presets` with its two ways
to give up. The string setting that the model keeps, `mqtt.instance`, stands for them all. In
`Discovery` the sources are edited between two starts, descriptions stay
at the broker, and a choice in Home Assistant is looked up in what the running process loaded.

## 3. The runs

Every action and every alternative of every next-state relation fires in one of the
passing runs. Deadlock is checked in `router`, whose `Terminated` is the process's end. Elsewhere the
bounds stop the system, and in `presets` a configuration that does not load
(`CHECK_DEADLOCK FALSE`).

### What holds

| Run | States | What it shows |
|---|---|---|
| `router` | 122 972 | `HandledInOrder`: what is handled is a prefix of what was accepted; `NoLostWakeup`; `StopDrains`: a worker that leaves has handled what was accepted before the stop; `CommandsAreRouted`: registration after the start of the worker is early enough, because no message arrives before the first `mqtt_loop`; `DropOnlyWhenFull`; `ImplementsQueue`: the router is a `CommandQueue`; `EveryCommandHandled`, `StopCompletes`: unless a handler never returns |
| `commands` | 1 971 043 | `FileNamesApplied`, `DoorbellIsRecorded`: file and doorbell through crashes and hung calls; `ShownIsRecorded`, `ShownSettles`: topics and file through losses, for ever unless the flag went stale; `MostRecentError`; `StatusEndsIdle`: which status each command leaves, idle also after a failure |
| `apply` | 1 482 712 | `SuccessMatches`, `AssetsBeforeConf`, `SoundLeftAlone`; `NothingTorn`: the script of a call moves only whole files of its own profile, whatever failed, dropped, hung or died before; and `ImplementsApply`: each step is one of `DoorbellApply` or a stutter |
| `conf` | 59 472 | `AppliedIsRead`: an animation is read back but for its loop, a sound in exactly the keys that the firmware's entry has; `AnimationIsRemoved`, `FirmwareIsKept`, `ReapplyIsIdle`; `DownloadIsFaithful`: to apply a download to the doorbell it came from changes nothing a download sees |
| `download` | 4 930 477 | `DownloadsAreWhole`, `NothingOverwritten`, `NothingLeftInTmp`, `NoErrorMeansDownloaded` |
| `connection` | 28 826 | `ConnectsWhenDown`, `AnnouncedWhenUp`, `OnlineIsGuarded`, `StaleOnlyInWindow`, `Reconnects`; `RestartIsTruthful`: with `retained_online` a Home Assistant that starts again is not told online after it knew better |
| `presets` | 608 788 | `LoadsOrDiscards`: a list of presets is taken whole or not at all, by the documented rule; `ChosenIsConfigured`: what is chosen leads to the directory configured for it, also from a dropdown of an older configuration; `OfferIsCurrent`: after every connect the dropdown is the running configuration's |

### Where code and documentation differ

| Run | Documentation | Code |
|---|---|---|
| `status_sensor` | docs/home-assistant.md:112, the status sensor "Shows the current state of the service." | command.c:225: without an SSH session `command_test_config` returns with the status at uploading (`command_download_assets` does the same at line 160, with downloading) |
| `commands` (`StatusEndsIdle` holds) | docs/home-assistant.md:104 and 173, Status gives feedback if something goes wrong; line 120 lists its state "Error" | no handler publishes such a state: after a failure they publish idle (command.c:63, 124, 199, 242) |
| `restored_state` | README.md:57, the service can "republish correct Home Assistant entity states after restarts" | ha_mqtt.c:20: a restore that read the file before a command wrote it publishes the older profile over the newer |
| `stopped_availability` | docs/home-assistant.md:179, a stopped container shows as unavailable | ha_status.c:149 publishes `fffline`, and the clean disconnect discards the will |
| `comes_back_online` | docs/home-assistant.md:181, after a restart "it will automatically come back online" | mqtt.c:105 sets `connected` after the connect returned, over a `conn_lost` that came in between |
| `conf` (`AppliedIsRead` holds) | docs/profiles.md:111, enabled means "Upload and activate custom ring sound." | unifi_profile_conf.c:398 replaces keys that exist; an entry the code has just created has none of them, and the sound stays off |
| `short_download` | docs/asset-download.md:79 and 81, the partial directory ensures that "Completed profiles are never corrupted" | ssh.c:430 ignores what `fclose` returns, so a file the disk did not take whole is in a directory under downloads |

Seen while reading, without a run of its own:

- The error mapped from a failed script step is overwritten (unifi_remote.c:370), so
  `DoorbellApply` has one error for them all.
- Only the first of several WELCOME entries is removed (unifi_profile_conf.c:297,
  exempted in `AnimationIsRemoved`). `loop` is written but not read back (line 86;
  `AppliedIsRead` has it read as off). An animation that is off is removed when its download is
  applied, and a doorbell without a ring sound cannot be downloaded.
- After a failed download, `last_download` is published with the directory kept for
  inspection, or with a path that was never written (command.c:198), while
  docs/home-assistant.md:128 speaks of the last successful one.
- A description longer than its buffer is cut (ha_discovery.c:157), so a long list of presets
  has no dropdown, where docs/home-assistant.md:27 says all presets are listed; `Room` and
  `OfferIsCurrent` model this. Without presets the five entities from the dropdown on are not described.
- A blank name of a preset has no key: alone it is taken, before or after another it is passed to
  `strcmp` as NULL (config.c:131, `ComparesNull`).
- docs/configuration.md names `SSH_USER`, `MQTT_CERTFILE`, `MQTT_KEYFILE` and the key
  `user`; the code reads `SSH_USERNAME`, `MQTT_CERT_FILE`, `MQTT_KEY_FILE` and `username`.
- `schema_version` is read and never compared.
- The loop of `ssh_exec_command` that should not spin when there is nothing to read spins
  (ssh.c:255).

### Bounds

- Router: `Cap = 3`, two usable slots, and four arrivals: the ring fills, refuses,
  and wraps past its end. Two topics, one with a route and one without. `MaxRoutes` is the code's
  own 16.
- Commands: one preset, one custom profile, the test; two commands, one loss, one
  crash. Two commands give every pair of an earlier and a later one, the loss a second
  restore or a stale flag, the crash a restore from whatever the file then holds. `status_sensor`
  needs one test and no loss.
- Apply: three profiles, with both parts, with the animation, with the sound; three commands, so that one
  can fail, a second meet what it left, and a third succeed; one fault among dropped connections,
  hung calls, deaths and silent short files. One script at a time outlives its connection,
  whatever the number of faults.
- Conf: up to three entries in both arrays together at the start, of another name, whole, or
  lacking keys; one file name and one number, which differ from the firmware's; a description
  may lack any one key of a part.
- Download: three commands in two seconds, so that two can share a second; one crash.
  `short_download` needs one command.
- Connection: two topics, so that a loss can come between two subscriptions; two losses, so
  that a reconnect can fail as well; two starts; a delay of two ticks and a
  clock set back by one. `clean_session` and `retained_online` have their defaults.
- Presets: every list of at most two entries of which one is a good preset and the other any of
  eight good and bad ones, and one of three; a file that does not parse or has a setting that is too
  long; room for two options; one edit and one loss, any number of starts and of restarts of Home Assistant.

### Fairness

`router` assumes that the operating system schedules the main thread, paho's push and the
worker inside the router; a message need not arrive and a handler need not return.
`ssh_exec_command` has no timeout, and a doorbell that never answers holds the worker
and then `pthread_join`: `EveryCommandHandled` and `StopCompletes` say that this is
the one thing that can. `commands` assumes weak fairness of the worker's own steps and of the main
thread, and so that an attempt to connect that the flag permits succeeds in the end and a dead
container is restarted (`--restart unless-stopped`, README.md:120); over a stale flag there is
no attempt, and `ShownSettles` says so; what the doorbell does (`DoorbellStep`) is not
assumed to happen. `connection` assumes the main thread, the clock, paho's report and the
broker's notice weakly fair, and `ConnectSucceeds` strongly: of attempts repeated for
ever one succeeds. Nothing is assumed of losses, crashes, stops or the arrival of commands.

## 4. The proofs

Every invariant, action property and refinement of the passing runs is proved for every
value of the constants, so for any number of commands, losses, crashes and restarts: the
bounds of the models are constants that the proofs leave open. In each module the
theorems follow from one inductive invariant, which TLC checked at the bounds above
before it was proved; the proof that it is kept has one case per action.

| Module | Theorem (property) |
|---|---|
| `MqttRouter_proof` | `TypeCorrect` (`TypeOK`), `OrderIsKept` (`HandledInOrder`), `NoWakeupIsLost` (`NoLostWakeup`), `StopLosesNothing` (`StopDrains`), `RoomIsUsed` (`DropOnlyWhenFull`), `CommandsFindTheirRoute` (`CommandsAreRouted`), `RouterIsAQueue` (`ImplementsQueue`) |
| `MqttConnection_proof` | `ConnTypeCorrect` (`TypeOK`), `NoConnectOverSession` (`ConnectsWhenDown`), `SessionIsAnnounced` (`AnnouncedWhenUp`), `RetainedIsTruthful` (`RestartIsTruthful`), `OnlineHasWill` (`OnlineIsGuarded`), `OneStaleWindow` (`StaleOnlyInWindow`) |
| `ProfileCommands_proof` | `RecordedWasApplied` (`FileNamesApplied`), `RecordIsOnDoorbell` (`DoorbellIsRecorded`), `ShownAgrees` (`ShownIsRecorded`), `LatestErrorIsShown` (`MostRecentError`), `StatusComesToIdle` (`StatusEndsIdle`) |
| `ProfileApply_proof` | `ApplyTypeCorrect` (`TypeOK`), `SuccessIsWhole` (`SuccessMatches`), `NoTornFile` (`NothingTorn`), `ConfComesLast` (`AssetsBeforeConf`), `SoundIsSpared` (`SoundLeftAlone`), `ApplyIsImplemented` (`ImplementsApply`) |
| `ProfileConf_proof` | `FirmwareStays` (`FirmwareIsKept`), `WrittenIsRead` (`AppliedIsRead`), `RemovedIsGone` (`AnimationIsRemoved`), `ReappliedIsIdle` (`ReapplyIsIdle`), `DownloadComesBack` (`DownloadIsFaithful`) |
| `AssetDownload_proof` | `OnlyWholeDownloads` (`DownloadsAreWhole`), `NothingIsOverwritten` (`NothingOverwritten`), `TmpIsAccountedFor` (`NothingLeftInTmp`), `SilenceMeansDownloaded` (`NoErrorMeansDownloaded`) |
| `Discovery_proof` | `OfferIsTrue` (`OfferIsCurrent`), `ChoiceIsRight` (`ChosenIsConfigured`), `AllOrNoPresets` (`LoadsOrDiscards`) |

`ApplyIsImplemented` is what lets `ProfileCommands` take `DoorbellApply` for the doorbell:
it is proved for every set of profiles and every number of faults, and what
`ProfileCommands_proof` shows rests on `DoorbellApply` alone.

### The arguments

**Router.** None of the properties is inductive alone. `IInv` adds where the threads
are with respect to each other (`ThreadInv`); that head and tail are the numbers
of messages taken and accepted, modulo the capacity, and that at most `Cap - 1` wait (`RingInv`);
what a push in progress has done (`PushInv`); that the slots from head to tail hold the accepted
messages in order, but for the one whose store is still due (`SlotsInv`); and that what
was taken is what was handled or is in hand (`HandledInv`). The step that carries
it is arithmetic: two counters less than `Cap` apart have different
residues, so a push never writes a slot that is waiting. `Arithmetic` proves that
from the definition of `%`. The refinement maps the queue to the accepted messages that
were not taken; `RouteInv` ties the route table to the order of registration.

**Connection.** The two writers of the flag are what is hard. `FlagInv` says when the flag
can be trusted: outside the window between `MQTTClient_connect` and the assignment, a
flag that is down means that there is no session and that no `conn_lost` is on its way.
`AnnounceInv` follows `ha_on_connect`; `RestartIsTruthful` is needed for the steps of a
Home Assistant that starts again.

**Commands.** What the worker has yet to publish is a sequence, so the invariants say what the
topics will be once it is out (`Leaves`, `AgreesAfter`). `CallInv` ties the worker's place to
the call of `DoorbellApply`, `RecordInv` what is about to be written to what was applied,
`OverlapInv` is that without an overlap one of the two threads is at rest and
what the other still publishes agrees with the file. `BellInv` follows the doorbell from the
start of a script to the file.

**Upload and script.** Both are sorted lists of steps of which a tail is left (`Rank`,
`Remains`), so a step is either left or done: a file that the upload no longer has ahead is in the
upload directory (`SentInv`), one the script no longer has ahead is in its place
(`PlacedInv`). `FaultInv` is that an undisturbed call shares the doorbell with no orphan. `OwnInv` is what
`NothingTorn` rests on: once the upload has emptied the directory, every file in it is the
call's own and whole, or one that this call sent short; an orphan only takes files away. Since a
configuration has a higher rank than the files it names, it is moved after them.

**Configuration files.** `Firmware` is a recursive function; `FirmwareIsDefined` gives its equation
and `GoOnAlike`, `ChangedOurs`, `AppendedOurs`, `RemovedOurs` what it makes of an array after each
of the patches. `ConfInv` adds that no patch brings a second animation, that the sound entry keeps its
place and keys, or has none but its name when the service added it (`StartInv`), and that what the last profile wrote would be written again as it
is (`AppliedInv`), which is both why a download reads it and why writing it twice is idle.

**Download.** `commands` never counts back, so the directory of a command is new (`PathInv`);
`StageInv` says what it holds before each transfer, `ErrorsInv` that leaving the way to `downloads`
is on record.

**Discovery.** `ScanIsDefined` and `ScanLoads` solve the loop of `config_load_presets` for lists of any
length, and `LoadedIsWellFormed` compares it with the documented rule. `OfferInv` is that the entities
discovery has passed are described, `ChoiceInv` that a dropdown of this process is
still the one offered.

**Induction.** The library's induction theorems take an operator and cannot be
instantiated here. `LeastElement` in `Arithmetic`, from the well-foundedness of `<`, takes their place:
the set of lengths or positions at which a claim fails would have a least
element. That is enough for recursive functions; no module declares a RECURSIVE operator.

### Assumptions

The named ASSUMEs of the modules, which TLC evaluates on every run: the bounds
are natural numbers, the ring has at least two slots, the sets of constants
are what their comments say, names and marks differ (`MarksAssumption`,
`NoMsgAssumption`), a list of presets is a sequence of entries (`FilesAssumption`). Three theorems assume more:

- `CommandsFindTheirRoute`: `Len(Commands) <= MaxRoutes`. `HA_ENTITIES` has four command topics
  (ha_entities.c:76 to 112), `MAX_ROUTES` is 16, and a route beyond it is dropped.
- `OnlineHasWill`: `RetainedOnline`, the default (config.c:171). Without it the announcement is
  still retained but the will is not, and a Home Assistant that starts after the session was
  lost is told online.
- `RecordIsOnDoorbell`: no profile is called `TestName`, which `command_test_config`
  publishes, or "other", which stands for a doorbell that shows no profile.

### Only model-checked

Liveness: `EveryCommandHandled`, `StopCompletes`, `ShownSettles`, `Reconnects`. It needs
fairness and ENABLED, which the prover does not handle. The
properties of the five runs that expect a violation are false, and TLC shows a behaviour for each.

## 5. What comes next

Router, commands and connection composed over one session, so that a command's
publications and a reconnect share one flag. So far they meet in `link` only, because
`commands` alone has two million states at the bounds above. With the three inductive
invariants at hand the composition can be argued for without a run of that size.

## 6. Not modelled

Text: topics, log lines, JSON formatting, the shell commands' quoting, the NUL that
`ssh_scp_download_file` strips from the end of a file. TLS, credentials, keep-alive and integer
settings appear only as outcomes of a connect or not at all. Memory: an allocation that fails
in a push is a refused message (`Refuse`), elsewhere it is the failure of the step. The
building of paths from directories and names, with its limits, is one outcome of a step. The
doorbell's firmware is what the script tells it: move a file, remove files, restart two
services, each of which may fail. cJSON, md5, libssh2 and paho are external; what the service
relies on is in the external rows of the map.

Left out of what is modelled:

- `ProfileConf` starts from arrays, missing ones being empty. Where `customAnimations` or
  `customSounds` is there and is not an array, the code adds a second key of that name
  (unifi_profile_conf.c:229 and 363), which no definition here says anything of.
- `AssetDownload` publishes over a session that lasts; a publication that is lost leaves
  `status` and `last_download` as they were. `ProfileCommands` models such losses for the other
  commands.
- `ProfileApply` takes the names that two profiles give their files to differ, and `mv` to find
  a file or not: an orphan that moves a file which is just being written is not modelled.
- In `ProfileCommands` an attempt to connect that fails is one that has not been made yet,
  and a loss is reported at once; `MqttConnection` has both.
